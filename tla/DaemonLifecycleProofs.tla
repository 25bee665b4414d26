------------------------ MODULE DaemonLifecycleProofs ------------------------
(***************************************************************************)
(* Shutdown and accounts, for any number of attempts, restarts and helpers *)
(* that exit.                                                              *)
(*                                                                         *)
(* The lock is given up with no helper left because each running helper    *)
(* has an owner close waits for (Owners): the published transport, the     *)
(* provisional ones, what close has taken over, or the attempt under way;  *)
(* the others are those whose owner failed to close them (stranded).       *)
(* Accounts says where the addresses on disk come from: from attempts that *)
(* were abandoned, from the one under way, or from the one published.      *)
(***************************************************************************)
EXTENDS DaemonLifecycle, TLAPS

Early == op.at \in {"registering", "unpacking"}

Shape ==
  \/ op = Idle
  \/ /\ op.n \in 1..attempts
     /\ \/ op.kind = "signup" /\ op.at \in {"registering", "opening", "announcing", "refusing"}
        \/ op.kind = "restore" /\ op.at \in {"unpacking", "importing", "refusing", "validating",
                                             "committing", "abandoning"}

\* No helper runs before its attempt starts one.
Unstarted ==
  /\ \A n \in Attempt : n > attempts => helper[n] # "running"
  /\ Early => helper[op.n] # "running"

Booting ==
  /\ op # Idle => boot = "ready" /\ transport = None
  /\ boot = "opening" => transport = None
  /\ boot = "announcing" => transport = Booted
  /\ boot \in {"opening", "announcing"} => ~closing /\ bound = accounts

Stages ==
  /\ closing <=> stage # "none"
  /\ stage \in {"none", "http", "operations"} => settled /\ owned = {}
  /\ stage \in {"transports", "done"} => provisional = {} /\ transport = None
  /\ stage = "done" => owned = {}
  /\ op.kind = "signup" => (stage = "operations" => op.n \in awaited)
                           /\ (stage \in {"transports", "done"} => ~settled)
  /\ ~lock => settled /\ stage = "done"

Owned(t) ==
  \/ t = transport \/ t \in provisional \/ t \in owned
  \/ op.kind # "none" /\ op.n = t
  \/ boot = "opening" /\ t = Booted
Owners == settled => \A t \in Transport : helper[t] = "running" => t \in stranded \/ Owned(t)

Lost == abandoned \union {NoAccount}
Accounts ==
  /\ Early => {accounts, core} \subseteq Lost
  /\ op # Idle => {accounts, core} \subseteq Lost \union {op.n}
  /\ op.kind = "signup" /\ ~Early => accounts = op.n
  /\ op.kind = "signup" /\ op.at = "announcing" => core # NoAccount
  /\ op.kind = "restore" /\ op.at \in {"validating", "committing"} => core = op.n
  /\ op = Idle => core \in Lost \union {accounts}
  /\ op = Idle /\ boot = "ready" /\ transport = None /\ ~closing => {accounts, core} \subseteq Lost

IInv ==
  /\ TypeOK /\ Shape /\ Unstarted /\ Booting /\ Stages /\ Owners
  /\ Accounts /\ AccountIsOne /\ strayed \subseteq {"restore"}

OpType ==
  [kind : {"none", "signup", "restore"},
   at : {"idle", "registering", "opening", "announcing", "refusing", "unpacking",
         "importing", "validating", "committing", "abandoning"},
   n : Attempt \union {0}]

(* No transport is "none", and an attempt is not the idle one. *)
LEMMA Numbers ==
  /\ MaxAttempts \in Nat /\ MaxRestarts \in Nat /\ MaxExits \in Nat
  /\ None \notin Transport /\ NoAccount \notin Attempt /\ Attempt \subseteq Transport
  /\ Booted \notin Attempt /\ Booted \in Transport /\ Idle \in OpType
  /\ Idle.kind = "none" /\ Idle.at = "idle" /\ Idle.n = 0
  /\ \A n \in Attempt : n \in Nat /\ n # 0
  BY BoundsAssumption DEF None, Transport, NoAccount, Attempt, Booted, Idle, OpType

(* The invariant implies what it was found for. *)
LEMMA LockFree == IInv => LockOutlivesWork
<1> SUFFICES ASSUME IInv, ~lock
             PROVE  /\ \A t \in Transport : helper[t] = "running" =>
                         t \in stranded \/ (op.kind = "restore" /\ op.n = t)
                    /\ op.kind # "signup"
  BY DEF LockOutlivesWork, IInv
<1>1. settled /\ stage = "done" /\ op.kind # "signup"
  BY DEF IInv, Stages
<1>2. transport = None /\ provisional = {} /\ owned = {} /\ boot # "opening"
  BY <1>1 DEF IInv, Stages, Booting
<1>3. op.kind \in {"none", "signup", "restore"}
  BY DEF IInv, TypeOK
<1>4. QED BY <1>1, <1>2, <1>3, Numbers DEF IInv, Owners, Owned

LEMMA InitIInv == Init => IInv
<1> SUFFICES ASSUME Init PROVE IInv
  OBVIOUS
<1>1. TypeOK
  <2>1. helper \in [Transport -> {"none", "running", "stopped"}]
    BY DEF Init
  <2>2. op \in OpType
    BY Numbers DEF Init
  <2>3. lock \in BOOLEAN /\ closing \in BOOLEAN /\ settled \in BOOLEAN
    BY DEF Init
  <2>4. attempts \in 0..MaxAttempts /\ restarts \in 0..MaxRestarts /\ exits \in 0..MaxExits
    BY Numbers DEF Init
  <2>5. QED BY <2>1, <2>2, <2>3, <2>4 DEF Init, TypeOK, OpType
<1>2. Shape /\ Unstarted /\ Booting /\ Stages /\ Owners /\ Accounts /\ AccountIsOne
  BY Numbers DEF Init, Shape, Unstarted, Early, Booting, Stages, Owners, Accounts, Lost, AccountIsOne
<1>3. QED BY <1>1, <1>2 DEF Init, IInv

-----------------------------------------------------------------------------
(* Attempts.                                                               *)

LEMMA StartStep ==
  ASSUME IInv, NEW kind, NEW at, Start(kind, at),
         <<kind, at>> \in {<<"signup", "registering">>, <<"restore", "unpacking">>}
  PROVE  IInv'
<1>1. /\ op' = [kind |-> kind, at |-> at, n |-> attempts + 1] /\ attempts' = attempts + 1
      /\ op = Idle /\ boot = "ready" /\ transport = None /\ ~closing /\ attempts + 1 \in Attempt
      /\ attempts \in Nat /\ op'.kind = kind /\ op'.at = at /\ op'.n = attempts + 1
  BY Numbers DEF Start, IInv, TypeOK, Attempt
<1>2. UNCHANGED <<accounts, core, lock, boot, creds, bound, transport, provisional, helper, closing,
                  stage, awaited, settled, owned, restarts, exits, stranded, abandoned, strayed>>
  BY DEF Start, disk, closeVars
<1>3. op' \in OpType /\ attempts' \in 0..MaxAttempts
  BY <1>1, Numbers DEF OpType, Attempt
<1>4. TypeOK'
  BY <1>2, <1>3 DEF IInv, TypeOK, OpType
<1>5. op' # Idle
  BY <1>1, Numbers
<1>6. Shape'
  BY <1>1 DEF Shape
<1>7. Unstarted'
  BY <1>1, <1>2, Numbers DEF IInv, Unstarted, Early
<1>8. Booting' /\ Stages'
  BY <1>1, <1>2, <1>5 DEF IInv, Booting, Stages
<1>9. Owners'
  BY <1>1, <1>2, Numbers DEF IInv, Owners, Owned
<1>10. Accounts' /\ AccountIsOne'
  BY <1>1, <1>2, <1>5 DEF IInv, Accounts, Lost, AccountIsOne, Early
<1>11. QED BY <1>2, <1>4, <1>6, <1>7, <1>8, <1>9, <1>10 DEF IInv

(* An attempt ends before it has touched anything. *)
LEMMA EarlyEndStep == ASSUME IInv, RegisterFails \/ UnpackFails PROVE IInv'
<1>1. Early /\ op' = Idle /\ op # Idle
  BY Numbers DEF RegisterFails, UnpackFails, At, EndOp, Early
<1>2. UNCHANGED <<accounts, core, lock, boot, creds, bound, transport, provisional, helper, closing,
                  stage, awaited, settled, owned, attempts, restarts, exits, stranded, abandoned, strayed>>
  BY DEF RegisterFails, UnpackFails, disk, closeVars, counters
<1>3. TypeOK'
  BY <1>1, <1>2, Numbers DEF IInv, TypeOK, OpType
<1>4. Shape' /\ Unstarted' /\ Booting' /\ Stages'
  BY <1>1, <1>2, Numbers DEF IInv, Shape, Unstarted, Early, Booting, Stages
<1>5. Owners'
  BY <1>1, <1>2 DEF IInv, Owners, Owned, Unstarted
<1>6. Accounts' /\ AccountIsOne'
  BY <1>1, <1>2, Numbers DEF IInv, Accounts, Lost, AccountIsOne, Early
<1>7. QED BY <1>2, <1>3, <1>4, <1>5, <1>6 DEF IInv

(* An attempt ends for good: its helper is stopped, or left to itself. *)
LEMMA EndsKeep ==
  ASSUME IInv, op # Idle, ~Early, op' = Idle, op.n \in Attempt,
         \/ helper' = [helper EXCEPT ![op.n] = "stopped"] /\ stranded' = stranded
         \/ helper' = helper /\ stranded' = stranded \union {op.n},
         stranded' \subseteq stranded \union {op.n}, abandoned' = abandoned \union {op.n},
         core' \in {core, Configured(op.n)}, bound' \in Attempt \union {NoAccount},
         provisional' \in {provisional, provisional \ {op.n}}, strayed' \subseteq {"restore"},
         UNCHANGED <<accounts, lock, boot, creds, transport, closing,
                     stage, awaited, settled, owned, attempts, restarts, exits>>
  PROVE  IInv'
<1>1. /\ helper' \in [Transport -> {"none", "running", "stopped"}]
      /\ \A t \in Transport : helper'[t] = "running" => helper[t] = "running" /\ (t = op.n => t \in stranded')
  BY Numbers DEF IInv, TypeOK
<1>2. TypeOK'
  BY <1>1, Numbers DEF IInv, TypeOK, OpType, Configured
<1>3. Shape' /\ Unstarted'
  BY <1>1, Numbers DEF IInv, Shape, Unstarted, Early, TypeOK
<1>4. Booting' /\ Stages'
  <2>1. boot = "ready" /\ transport = None
    BY DEF IInv, Booting
  <2>2. Booting'
    BY <2>1, Numbers DEF Booting
  <2>3. Stages'
    BY Numbers DEF IInv, Stages
  <2>4. QED BY <2>2, <2>3
<1>5. Owners'
  BY <1>1, Numbers DEF IInv, Owners, Owned, TypeOK
<1>6. Accounts' /\ AccountIsOne'
  <2>1. {accounts, core} \subseteq Lost \union {op.n} /\ transport = None
    BY DEF IInv, Accounts, Booting
  <2>2. {accounts', core'} \subseteq Lost'
    BY <2>1 DEF Lost, Configured
  <2>3. QED BY <2>1, <2>2, Numbers DEF Accounts, AccountIsOne, Early
<1>7. QED BY <1>2, <1>3, <1>4, <1>5, <1>6 DEF IInv

LEMMA EndStep ==
  ASSUME IInv,
         \/ OpenFails \/ Refused \/ ImportFails \/ Abandoned
         \/ (Opened \/ AnnounceFails \/ (Announced /\ closing)) /\ op' = Idle
  PROVE  IInv'
<1>1. op \in OpType /\ bound \in Attempt \union {NoAccount} /\ strayed \subseteq {"restore"}
  BY DEF IInv, TypeOK, OpType
<1>2. CASE OpenFails \/ Refused \/ ImportFails \/ Abandoned
  <2>1. /\ op # Idle /\ ~Early /\ op.n \in Attempt /\ op' = Idle
        /\ abandoned' = abandoned \union {op.n} /\ CloseHelper(op.n)
    BY <1>2, Numbers DEF OpenFails, Refused, ImportFails, Abandoned, At, EndOp, Early, Abandon, IInv, Shape, TypeOK
  <2>2. UNCHANGED <<accounts, lock, boot, creds, bound, transport, provisional, closing,
                    stage, awaited, settled, owned, attempts, restarts, exits>>
    BY <1>2 DEF OpenFails, Refused, ImportFails, Abandoned, disk, closeVars, counters
  <2>3. core' \in {core, Configured(op.n)}
    BY <1>2 DEF OpenFails, Refused, ImportFails, Abandoned, disk
  <2>4. strayed' \subseteq {"restore"}
    BY <1>1, <1>2 DEF OpenFails, Refused, ImportFails, Abandoned, At, Touch
  <2>5. \/ helper' = [helper EXCEPT ![op.n] = "stopped"] /\ stranded' = stranded
        \/ helper' = helper /\ stranded' = stranded \union {op.n}
    BY <2>1 DEF CloseHelper, Halt, Strand
  <2>6. stranded' \subseteq stranded \union {op.n}
    BY <2>5
  <2>7. QED BY <1>1, <2>1, <2>2, <2>3, <2>4, <2>5, <2>6, EndsKeep
<1>3. CASE (Opened \/ AnnounceFails \/ (Announced /\ closing)) /\ op' = Idle
  <2>1. /\ At("signup", "opening") \/ At("signup", "announcing")
        /\ \E reached \in {{bound}, {op.n}, {bound, op.n}} : TurnBack(reached)
    <3>1. \A to \in {"announcing", "refusing"} : GoTo(to) => op'.at = to
      BY <1>1 DEF GoTo, OpType
    <3>2. ~GoTo("announcing")
      BY <1>3, <3>1, Numbers
    <3>3. QED BY <1>3, <3>2 DEF Opened, AnnounceFails, Announced
  <2>2. PICK reached \in {{bound}, {op.n}, {bound, op.n}} : TurnBack(reached)
    BY <2>1
  <2>3. op # Idle /\ ~Early /\ op.n \in Attempt /\ op.kind = "signup"
    BY <2>1, Numbers DEF At, Early, IInv, Shape, TypeOK, OpType
  <2>4. ~GoTo("refusing")
    BY <1>1, <1>3, Numbers DEF GoTo, OpType
  <2>5. /\ provisional' = provisional \ {op.n} /\ Touch /\ bound' \in reached
        /\ stranded' = stranded \union {op.n} /\ helper' = helper
        /\ abandoned' = abandoned \union {op.n}
    BY <2>2, <2>4 DEF TurnBack, Strand, Abandon
  <2>6. UNCHANGED <<accounts, lock, boot, creds, transport, closing,
                    stage, awaited, settled, owned, attempts, restarts, exits>>
    BY <1>3 DEF Opened, AnnounceFails, Announced, disk, closeVars, counters
  <2>7. core' \in {core, Configured(op.n)}
    BY <1>3 DEF Opened, AnnounceFails, Announced, disk
  <2>8. strayed' \subseteq {"restore"}
    <3>1. lock
      BY <2>3 DEF IInv, Stages
    <3>2. QED BY <1>1, <2>5, <3>1 DEF Touch
  <2>9. bound' \in Attempt \union {NoAccount}
    BY <1>1, <2>3, <2>5
  <2>10. QED BY <1>3, <2>3, <2>5, <2>6, <2>7, <2>8, <2>9, EndsKeep
<1>4. QED BY <1>2, <1>3

(* An attempt starts its helper. *)
LEMMA RunStep == ASSUME IInv, Registered \/ BeginRestore PROVE IInv'
<1>1. /\ op # Idle /\ Early /\ op.n \in Attempt /\ op.n <= attempts
      /\ helper' = [helper EXCEPT ![op.n] = "running"]
  BY Numbers DEF Registered, BeginRestore, At, Early, Run, IInv, Shape, TypeOK
<1>2. UNCHANGED <<core, lock, boot, creds, bound, transport, provisional, closing,
                  stage, awaited, settled, owned, attempts, restarts, exits, stranded, abandoned>>
  BY DEF Registered, BeginRestore, disk, closeVars, counters
<1>3. \/ op.kind = "signup" /\ op' = [op EXCEPT !.at = "opening"] /\ accounts' = op.n
      \/ op.kind = "restore" /\ op' = [op EXCEPT !.at = "importing"] /\ accounts' = accounts
  BY DEF Registered, BeginRestore, At, GoTo, disk
<1>4. op \in OpType
  BY DEF IInv, TypeOK, OpType
<1>5. /\ op'.kind = op.kind /\ op'.n = op.n /\ op' \in OpType
      /\ op'.at = IF op.kind = "signup" THEN "opening" ELSE "importing"
  BY <1>3, <1>4 DEF OpType
<1>6. op.kind \in {"signup", "restore"} /\ op' # Idle
  BY <1>3, <1>5, Numbers
<1>7. strayed' \subseteq {"restore"}
  <2>1. op.kind = "signup" => lock
    BY DEF IInv, Stages
  <2>2. QED BY <1>6, <2>1 DEF Registered, BeginRestore, Touch, IInv
<1>8. TypeOK'
  BY <1>1, <1>2, <1>3, <1>5, <1>7, Numbers DEF IInv, TypeOK, OpType
<1>9. Shape'
  BY <1>1, <1>2, <1>5, <1>6 DEF IInv, Shape, TypeOK
<1>10. Unstarted'
  BY <1>1, <1>2, <1>5, Numbers DEF IInv, Unstarted, Early, TypeOK
<1>11. Booting'
  BY <1>1, <1>2, <1>6 DEF IInv, Booting
<1>12. Stages'
  BY <1>2, <1>5 DEF IInv, Stages
<1>13. Owners'
  BY <1>1, <1>2, <1>5, <1>6, Numbers DEF IInv, Owners, Owned, TypeOK
<1>14. Accounts' /\ AccountIsOne'
  <2>1. {accounts, core} \subseteq Lost /\ transport = None
    BY <1>1 DEF IInv, Accounts, Booting
  <2>2. QED BY <1>2, <1>3, <1>5, <1>6, <2>1, Numbers DEF Accounts, AccountIsOne, Early, Lost
<1>15. QED BY <1>7, <1>8, <1>9, <1>10, <1>11, <1>12, <1>13, <1>14 DEF IInv

\* An attempt goes on: it keeps its number and its helper, or shares it with close.
Advances ==
  /\ op # Idle /\ ~Early
  /\ op'.kind = op.kind /\ op'.n = op.n /\ op' \in OpType
  /\ Shape' /\ op' # Idle /\ ~Early'
  /\ provisional' \in {provisional, provisional \ {op.n}} \/ (~closing /\ provisional' = provisional \union {op.n})
  /\ UNCHANGED <<lock, boot, creds, transport, helper, closing,
                 stage, awaited, settled, owned, attempts, restarts, exits, stranded, abandoned>>

LEMMA AdvanceTyped ==
  ASSUME IInv, NEW kind, NEW from, At(kind, from), NEW to, GoTo(to),
         <<kind, from, to>> \in
           {<<"signup", "opening", "refusing">>, <<"signup", "opening", "announcing">>,
            <<"signup", "announcing", "refusing">>,
            <<"restore", "importing", "refusing">>, <<"restore", "importing", "validating">>,
            <<"restore", "validating", "committing">>, <<"restore", "validating", "abandoning">>,
            <<"restore", "committing", "abandoning">>},
         attempts' = attempts
  PROVE  /\ op # Idle /\ ~Early /\ op.n \in Attempt
         /\ op'.kind = kind /\ op'.n = op.n /\ op'.at = to /\ op' \in OpType
         /\ Shape' /\ op' # Idle /\ ~Early'
<1>1. op \in OpType /\ op.kind = kind /\ op.at = from /\ op' = [op EXCEPT !.at = to]
  BY DEF IInv, TypeOK, OpType, At, GoTo
<1>2. op'.kind = kind /\ op'.n = op.n /\ op'.at = to /\ op' \in OpType
  BY <1>1 DEF OpType
<1>3. op # Idle /\ op' # Idle
  BY <1>1, <1>2, Numbers
<1>4. op.n \in 1..attempts /\ op.n \in Attempt
  BY <1>1, <1>3, Numbers DEF IInv, Shape, TypeOK, Attempt
<1>5. Shape'
  BY <1>2, <1>4 DEF Shape
<1>6. QED BY <1>1, <1>2, <1>3, <1>4, <1>5 DEF Early

(* Which of the steps of an attempt go on with it. *)
LEMMA AdvanceSteps ==
  ASSUME IInv, op' # Idle,
         \/ Opened \/ AnnounceFails \/ Imported \/ Validated \/ ValidateFails \/ CommitFails
         \/ (Announced \/ Committed) /\ closing
  PROVE  /\ Advances /\ strayed' \subseteq {"restore"} /\ bound' \in {bound, creds, op.n}
         /\ \/ op.kind = "signup" /\ op'.at \in {"announcing", "refusing"} /\ accounts' = accounts
               /\ core' \in {core, Configured(op.n)} /\ (op'.at = "announcing" => core' # NoAccount)
            \/ op.kind = "restore" /\ accounts' \in {accounts, op.n} /\ core' \in {core, op.n}
               /\ (op'.at \in {"validating", "committing"} => core' = op.n)
<1>2. strayed \subseteq {"restore"} /\ (op.kind = "signup" => lock)
  BY DEF IInv, Stages
<1>3. CASE Opened
  <2>1. At("signup", "opening") /\ (GoTo("refusing") \/ GoTo("announcing"))
    BY <1>3 DEF Opened, TurnBack, EndOp
  <2>2. attempts' = attempts
    BY <1>3 DEF Opened, counters
  <2>3. /\ op # Idle /\ ~Early /\ op.n \in Attempt /\ op.kind = "signup"
        /\ op'.kind = op.kind /\ op'.n = op.n /\ op'.at \in {"announcing", "refusing"} /\ op' \in OpType
        /\ Shape' /\ op' # Idle /\ ~Early'
    BY <2>1, <2>2, AdvanceTyped DEF At
  <2>4. Advances
    BY <1>3, <2>3 DEF Advances, Opened, TurnBack, EndOp, closeVars, counters
  <2>5. core' \in {core, Configured(op.n)} /\ core' # NoAccount
    BY <1>3, <2>3, Numbers DEF Opened, Configured
  <2>6. QED BY <1>2, <1>3, <2>3, <2>4, <2>5 DEF Opened, TurnBack, EndOp, Touch
<1>4. CASE AnnounceFails \/ (Announced /\ closing)
  <2>1. At("signup", "announcing") /\ GoTo("refusing") /\ attempts' = attempts
    BY <1>4 DEF AnnounceFails, Announced, TurnBack, EndOp, counters
  <2>2. /\ op # Idle /\ ~Early /\ op.n \in Attempt /\ op.kind = "signup"
        /\ op'.kind = op.kind /\ op'.n = op.n /\ op'.at = "refusing" /\ op' \in OpType
        /\ Shape' /\ op' # Idle /\ ~Early'
    BY <2>1, AdvanceTyped DEF At
  <2>3. Advances
    BY <1>4, <2>2 DEF Advances, AnnounceFails, Announced, TurnBack, EndOp, closeVars, counters
  <2>4. QED BY <1>2, <1>4, <2>2, <2>3 DEF AnnounceFails, Announced, TurnBack, EndOp, Touch, disk
<1>5. CASE Imported
  <2>1. At("restore", "importing") /\ (GoTo("refusing") \/ GoTo("validating")) /\ attempts' = attempts
    BY <1>5 DEF Imported, counters
  <2>2. /\ op # Idle /\ ~Early /\ op.n \in Attempt /\ op.kind = "restore"
        /\ op'.kind = op.kind /\ op'.n = op.n /\ op' \in OpType
        /\ Shape' /\ op' # Idle /\ ~Early'
    BY <2>1, AdvanceTyped DEF At
  <2>3. Advances
    BY <1>5, <2>2 DEF Advances, Imported, closeVars, counters
  <2>4. QED BY <1>2, <1>5, <2>2, <2>3 DEF Imported, Touch
<1>6. CASE Validated \/ ValidateFails
  <2>1. /\ At("restore", "validating") /\ (GoTo("committing") \/ GoTo("abandoning")) /\ attempts' = attempts
    BY <1>6 DEF Validated, ValidateFails, counters
  <2>2. /\ op # Idle /\ ~Early /\ op.n \in Attempt /\ op.kind = "restore" /\ op.at = "validating"
        /\ op'.kind = op.kind /\ op'.n = op.n /\ op' \in OpType
        /\ Shape' /\ op' # Idle /\ ~Early'
    BY <2>1, AdvanceTyped DEF At
  <2>3. Advances
    BY <1>6, <2>2 DEF Advances, Validated, ValidateFails, closeVars, counters
  <2>4. core = op.n
    BY <2>2 DEF IInv, Accounts
  <2>5. QED BY <1>2, <1>6, <2>2, <2>3, <2>4 DEF Validated, ValidateFails, disk
<1>7. CASE CommitFails \/ (Committed /\ closing)
  <2>1. At("restore", "committing") /\ GoTo("abandoning") /\ attempts' = attempts
    BY <1>7 DEF CommitFails, Committed, counters
  <2>2. /\ op # Idle /\ ~Early /\ op.n \in Attempt /\ op.kind = "restore" /\ op.at = "committing"
        /\ op'.kind = op.kind /\ op'.n = op.n /\ op'.at = "abandoning" /\ op' \in OpType
        /\ Shape' /\ op' # Idle /\ ~Early'
    BY <2>1, AdvanceTyped DEF At
  <2>3. Advances
    BY <1>7, <2>2 DEF Advances, CommitFails, Committed, closeVars, counters
  <2>4. QED BY <1>2, <1>7, <2>2, <2>3 DEF CommitFails, Committed, Touch, disk
<1>8. QED BY <1>3, <1>4, <1>5, <1>6, <1>7

LEMMA AdvanceStep ==
  ASSUME IInv, op' # Idle,
         \/ Opened \/ AnnounceFails \/ Imported \/ Validated \/ ValidateFails \/ CommitFails
         \/ (Announced \/ Committed) /\ closing
  PROVE  IInv'
<1>1. /\ Advances /\ strayed' \subseteq {"restore"} /\ bound' \in {bound, creds, op.n}
      /\ \/ op.kind = "signup" /\ op'.at \in {"announcing", "refusing"} /\ accounts' = accounts
            /\ core' \in {core, Configured(op.n)} /\ (op'.at = "announcing" => core' # NoAccount)
         \/ op.kind = "restore" /\ accounts' \in {accounts, op.n} /\ core' \in {core, op.n}
            /\ (op'.at \in {"validating", "committing"} => core' = op.n)
  BY AdvanceSteps
<1>2. op.n \in Attempt /\ op.n \in Transport
  BY <1>1, Numbers DEF Advances, IInv, Shape, TypeOK, Attempt
<1>3. /\ op # Idle /\ ~Early /\ op'.kind = op.kind /\ op'.n = op.n /\ op' \in OpType
      /\ Shape' /\ op' # Idle /\ ~Early'
      /\ UNCHANGED <<lock, boot, creds, transport, helper, closing,
                     stage, awaited, settled, owned, attempts, restarts, exits, stranded, abandoned>>
  BY <1>1 DEF Advances
<1>4. /\ provisional' \subseteq provisional \union {op.n} /\ provisional \subseteq provisional' \union {op.n}
      /\ (closing => provisional' \subseteq provisional)
  BY <1>1 DEF Advances
<1>5. boot = "ready" /\ transport = None
  BY <1>3 DEF IInv, Booting
<1>6. op.kind # "none"
  BY <1>1
<1>7. core' \in {core, op.n} /\ accounts' \in {accounts, op.n}
  BY <1>1 DEF Configured
<1>8. TypeOK'
  BY <1>1, <1>2, <1>3, <1>4, <1>7, Numbers DEF IInv, TypeOK, OpType
<1>9. Unstarted' /\ Booting'
  BY <1>3, <1>5 DEF IInv, Unstarted, Booting
<1>10. Stages'
  BY <1>3, <1>4 DEF IInv, Stages
<1>11. Owners'
  BY <1>3, <1>4, <1>6 DEF IInv, Owners, Owned
<1>12. AccountIsOne'
  BY <1>3, <1>5 DEF AccountIsOne
<1>13. {accounts', core'} \subseteq Lost' \union {op'.n}
  BY <1>3, <1>7 DEF IInv, Accounts, Lost
<1>14. op.kind = "signup" => accounts = op.n
  BY <1>3 DEF IInv, Accounts
<1>15. Accounts'
  BY <1>1, <1>3, <1>13, <1>14 DEF Accounts
<1>16. QED BY <1>1, <1>3, <1>8, <1>9, <1>10, <1>11, <1>12, <1>15 DEF IInv

(* An attempt is published: its account is the one on disk. *)
LEMMA PublishStep == ASSUME IInv, (Announced \/ Committed) /\ ~closing PROVE IInv'
<1>1. /\ op # Idle /\ ~Early /\ op.n \in Attempt /\ op.n \in Transport /\ op' = Idle
      /\ transport' = op.n /\ bound' = op.n /\ provisional' = provisional \ {op.n}
  BY Numbers DEF Announced, Committed, At, EndOp, Early, Publish, IInv, Shape, TypeOK
<1>2. UNCHANGED <<core, lock, boot, creds, helper, closing, stage, awaited, settled, owned,
                  attempts, restarts, exits, stranded, abandoned>>
  BY DEF Announced, Committed, disk, closeVars, counters
<1>3. ~closing
  OBVIOUS
<1>4. lock /\ stage = "none" /\ settled /\ owned = {}
  BY <1>3 DEF IInv, Stages
<1>5. strayed' = strayed
  BY <1>4 DEF Announced, Committed, Touch
<1>6. accounts' = op.n
  <2>1. CASE Announced
    BY <1>1, <2>1 DEF Announced, At, disk, IInv, Accounts
  <2>2. CASE Committed
    BY <2>2 DEF Committed
  <2>3. QED BY <2>1, <2>2
<1>7. core = op.n \/ core \in abandoned
  <2>1. CASE Announced
    BY <1>1, <2>1, Numbers DEF Announced, At, IInv, Accounts, Lost
  <2>2. CASE Committed
    BY <2>2 DEF Committed, At, IInv, Accounts
  <2>3. QED BY <2>1, <2>2
<1>8. TypeOK'
  BY <1>1, <1>2, <1>5, <1>6, Numbers DEF IInv, TypeOK, OpType
<1>9. Shape' /\ Unstarted' /\ Booting' /\ Stages'
  BY <1>1, <1>2, <1>4, Numbers DEF IInv, Shape, Unstarted, Early, Booting, Stages
<1>10. Owners'
  BY <1>1, <1>2, Numbers DEF IInv, Owners, Owned, Booting
<1>11. transport' # None
  BY <1>1, Numbers
<1>12. Accounts' /\ AccountIsOne'
  BY <1>1, <1>2, <1>6, <1>7, <1>11, Numbers DEF Accounts, AccountIsOne, Early, Lost
<1>13. QED BY <1>5, <1>8, <1>9, <1>10, <1>12 DEF IInv

-----------------------------------------------------------------------------
(* Start, shutdown and restart.                                            *)

LEMMA BootStep == ASSUME IInv, BootOpened \/ BootReady \/ BootFails PROVE IInv'
<1>1. boot \in {"opening", "announcing"} /\ boot' \in {"announcing", "ready", "failed"}
  BY DEF BootOpened, BootReady, BootFails
<1>2. /\ op = Idle /\ ~closing /\ stage = "none" /\ bound = accounts
      /\ lock /\ settled /\ owned = {}
  BY <1>1 DEF IInv, Booting, Stages
<1>3. UNCHANGED <<accounts, lock, creds, bound, provisional, op, awaited, settled, owned,
                  attempts, restarts, exits, abandoned, strayed>>
  BY DEF BootOpened, BootReady, BootFails, BeginClose, disk, closeVars, counters
<1>4. core' \in {core, Configured(accounts)}
  BY DEF BootOpened, BootReady, BootFails, disk
<1>5. CASE BootOpened
  <2>1. /\ boot = "opening" /\ core' = Configured(accounts) /\ transport' = Booted
        /\ boot' = "announcing" /\ UNCHANGED <<helper, closing, stage, stranded>>
    BY <1>5 DEF BootOpened, closeVars
  <2>2. TypeOK'
    BY <1>3, <1>4, <2>1, Numbers DEF IInv, TypeOK, OpType, Configured
  <2>3. Shape' /\ Unstarted' /\ Booting' /\ Stages'
    BY <1>2, <1>3, <2>1, Numbers DEF IInv, Shape, Unstarted, Early, Booting, Stages
  <2>4. Owners'
    BY <1>2, <1>3, <2>1, Numbers DEF IInv, Owners, Owned, Booting
  <2>5. core' \in Lost \union {accounts} /\ (core' # accounts => core' \in abandoned)
    BY <1>2, <2>1 DEF IInv, Accounts, Configured, Lost
  <2>6. Accounts' /\ AccountIsOne'
    BY <1>2, <1>3, <2>1, <2>5, Numbers DEF Accounts, AccountIsOne, Early, Lost
  <2>7. QED BY <1>3, <2>2, <2>3, <2>4, <2>6 DEF IInv
<1>6. CASE BootReady
  <2>1. /\ boot = "announcing" /\ boot' = "ready" /\ transport = Booted
        /\ UNCHANGED <<core, transport, helper, closing, stage, stranded>>
    BY <1>6 DEF BootReady, closeVars, disk, IInv, Booting
  <2>2. TypeOK'
    BY <1>3, <2>1 DEF IInv, TypeOK
  <2>3. Shape' /\ Unstarted' /\ Booting' /\ Stages'
    BY <1>2, <1>3, <2>1 DEF IInv, Shape, Unstarted, Early, Booting, Stages
  <2>4. Owners'
    BY <1>3, <2>1 DEF IInv, Owners, Owned
  <2>5. Accounts' /\ AccountIsOne'
    BY <1>2, <1>3, <2>1, Numbers DEF IInv, Accounts, AccountIsOne, Early, Lost
  <2>6. QED BY <1>3, <2>2, <2>3, <2>4, <2>5 DEF IInv
<1>7. CASE BootFails
  <2>1. /\ boot' = "failed" /\ transport' = transport /\ closing' = TRUE /\ stage' = "http"
        /\ helper' \in {helper, [helper EXCEPT ![Booted] = "stopped"]}
        /\ stranded' \in {stranded, stranded \union {Booted}}
        /\ boot = "opening" => \/ helper' = [helper EXCEPT ![Booted] = "stopped"]
                               \/ Booted \in stranded'
        /\ boot = "announcing" => core' = core
    BY <1>7 DEF BootFails, BeginClose, CloseHelper, Halt, Strand
  <2>2. TypeOK'
    BY <1>3, <1>4, <2>1, Numbers DEF IInv, TypeOK, OpType, Configured
  <2>3. Unstarted'
    BY <1>2, <1>3, <2>1, Numbers DEF IInv, Unstarted, Early, TypeOK
  <2>4. Shape' /\ Booting' /\ Stages'
    BY <1>2, <1>3, <2>1, Numbers DEF IInv, Shape, Booting, Stages
  <2>5. Owners'
    BY <1>1, <1>2, <1>3, <2>1, Numbers DEF IInv, Owners, Owned, TypeOK
  <2>6. core' \in Lost \union {accounts}
    BY <1>2, <1>4 DEF IInv, Accounts, Configured
  <2>7. AccountIsOne'
    <3>1. boot = "opening" => transport = None
      BY DEF IInv, Booting
    <3>2. QED BY <1>1, <1>3, <2>1, <3>1 DEF IInv, AccountIsOne
  <2>8. Accounts'
    BY <1>2, <1>3, <2>1, <2>6, Numbers DEF Accounts, Early, Lost
  <2>9. QED BY <1>3, <2>2, <2>3, <2>4, <2>5, <2>7, <2>8 DEF IInv
<1>8. QED BY <1>5, <1>6, <1>7

(* Shutdown begins, at a request or because a helper has exited. *)
LEMMA CloseBegins ==
  ASSUME IInv, Close \/ \E t \in Transport : HelperExits(t) PROVE IInv'
<1>1. UNCHANGED <<accounts, core, lock, boot, creds, bound, transport, provisional, op,
                  awaited, settled, owned, attempts, restarts, stranded, abandoned, strayed>>
  BY DEF Close, HelperExits, BeginClose, disk, closeVars, counters
<1>2. \/ closing' = closing /\ stage' = stage
      \/ ~closing /\ boot = "ready" /\ closing' = TRUE /\ stage' = "http"
  BY DEF Close, HelperExits, BeginClose, closeVars
<1>3. \/ helper' = helper /\ exits' = exits
      \/ \E t \in Transport : /\ helper[t] = "running" /\ helper' = [helper EXCEPT ![t] = "stopped"]
                              /\ exits < MaxExits /\ exits' = exits + 1
  BY DEF Close, HelperExits, Halt, counters
<1>4. exits' \in 0..MaxExits
  BY <1>3, Numbers DEF IInv, TypeOK
<1>5. helper' \in [Transport -> {"none", "running", "stopped"}]
  BY <1>3 DEF IInv, TypeOK
<1>6. \A t \in Transport : helper'[t] = "running" => helper[t] = "running"
  BY <1>3 DEF IInv, TypeOK
<1>7. TypeOK'
  <2>1. closing' \in BOOLEAN /\ stage' \in {"none", "http", "operations", "transports", "done"}
    BY <1>2 DEF IInv, TypeOK
  <2>2. QED BY <1>1, <1>4, <1>5, <2>1 DEF IInv, TypeOK
<1>8. Shape'
  BY <1>1 DEF IInv, Shape
<1>9. Unstarted'
  <2>1. Early => op.n \in Transport
    BY Numbers DEF IInv, Shape, TypeOK, Early, Attempt
  <2>2. QED BY <1>1, <1>6, <2>1, Numbers DEF IInv, Unstarted, Early
<1>10. Booting' /\ Stages'
  BY <1>1, <1>2 DEF IInv, Booting, Stages
<1>11. Owners'
  BY <1>1, <1>6 DEF IInv, Owners, Owned
<1>12. Accounts' /\ AccountIsOne'
  BY <1>1, <1>2 DEF IInv, Accounts, AccountIsOne, Early, Lost
<1>13. QED BY <1>1, <1>7, <1>8, <1>9, <1>10, <1>11, <1>12 DEF IInv

LEMMA HttpClosedStep == ASSUME IInv, HttpClosed PROVE IInv'
<1>1. /\ stage = "http" /\ stage' = "operations" /\ awaited' = IF tracked THEN {op.n} ELSE {}
      /\ UNCHANGED <<accounts, core, lock, boot, creds, bound, transport, provisional, helper, op,
                     closing, settled, owned, attempts, restarts, exits, stranded, abandoned, strayed>>
  BY DEF HttpClosed, disk, counters
<1>2. tracked => op.n \in Attempt
  <2>1. tracked => op # Idle
    BY Numbers DEF tracked
  <2>2. QED BY <2>1, Numbers DEF IInv, Shape, TypeOK, Attempt
<1>3. TypeOK'
  BY <1>1, <1>2 DEF IInv, TypeOK
<1>4. Shape' /\ Unstarted' /\ Booting' /\ Owners' /\ Accounts' /\ AccountIsOne'
  BY <1>1 DEF IInv, Shape, Unstarted, Early, Booting, Owners, Owned, Accounts, Lost, AccountIsOne
<1>5. Stages'
  BY <1>1 DEF IInv, Stages, tracked
<1>6. QED BY <1>1, <1>3, <1>4, <1>5 DEF IInv

(* Close takes over every helper that no attempt owns. *)
LEMMA TakeStep == ASSUME IInv, OperationsSettled \/ OperationsOverrun PROVE IInv'
<1>1. /\ stage = "operations" /\ stage' = "transports" /\ settled' \in BOOLEAN
      /\ owned' = provisional \union ({transport} \ {None}) /\ provisional' = {} /\ transport' = None
      /\ UNCHANGED <<accounts, core, lock, boot, creds, bound, helper, op,
                     closing, awaited, attempts, restarts, exits, stranded, abandoned, strayed>>
  BY DEF OperationsSettled, OperationsOverrun, Take, disk, counters
<1>2. closing /\ owned = {} /\ boot \notin {"opening", "announcing"} /\ lock
  BY <1>1 DEF IInv, Stages, Booting
<1>3. op.kind = "signup" => ~settled'
  BY <1>1 DEF OperationsSettled, OperationsOverrun, Overdue, tracked, Take, IInv, Stages
<1>4. TypeOK'
  BY <1>1 DEF IInv, TypeOK
<1>5. Shape' /\ Unstarted' /\ Accounts' /\ AccountIsOne'
  BY <1>1, <1>2 DEF IInv, Shape, Unstarted, Early, Accounts, Lost, AccountIsOne
<1>6. Booting' /\ Stages'
  BY <1>1, <1>2, <1>3 DEF IInv, Booting, Stages
<1>7. Owners'
  BY <1>1, <1>2, Numbers DEF IInv, TypeOK, Owners, Owned, Stages
<1>8. QED BY <1>1, <1>4, <1>5, <1>6, <1>7 DEF IInv

LEMMA StopStep == ASSUME IInv, NEW t \in Transport, StopTransport(t) PROVE IInv'
<1>1. /\ stage = "transports" /\ t \in owned /\ owned' = owned \ {t}
      /\ \/ helper' = [helper EXCEPT ![t] = "stopped"] /\ settled' = settled
         \/ helper' = helper /\ settled' = FALSE
      /\ UNCHANGED <<accounts, core, lock, boot, creds, bound, transport, provisional, op, closing,
                     stage, awaited, attempts, restarts, exits, stranded, abandoned, strayed>>
  BY DEF StopTransport, Halt, disk, counters
<1>2. lock
  BY <1>1 DEF IInv, Stages
<1>3. helper' \in [Transport -> {"none", "running", "stopped"}] /\ settled' \in BOOLEAN
  BY <1>1 DEF IInv, TypeOK
<1>4. \A u \in Transport : /\ helper'[u] = "running" => helper[u] = "running"
                           /\ settled' => (helper'[u] = "running" => u # t)
  BY <1>1 DEF IInv, TypeOK
<1>5. TypeOK'
  BY <1>1, <1>3 DEF IInv, TypeOK
<1>6. Shape' /\ Booting' /\ Accounts' /\ AccountIsOne'
  BY <1>1 DEF IInv, Shape, Booting, Early, Accounts, Lost, AccountIsOne
<1>7. Stages'
  BY <1>1, <1>2 DEF IInv, Stages
<1>8. Owners'
  BY <1>1, <1>4 DEF IInv, Owners, Owned
<1>9. Unstarted'
  <2>1. Early => op.n \in Transport
    BY Numbers DEF IInv, Shape, TypeOK, Early, Attempt
  <2>2. QED BY <1>1, <1>4, <2>1, Numbers DEF IInv, Unstarted, Early
<1>10. QED BY <1>1, <1>5, <1>6, <1>7, <1>8, <1>9 DEF IInv

LEMMA ClosedStep == ASSUME IInv, Closed PROVE IInv'
<1>1. /\ stage = "transports" /\ owned = {} /\ stage' = "done" /\ lock' = ~settled
      /\ UNCHANGED <<accounts, core, boot, creds, bound, transport, provisional, helper, op, closing,
                     awaited, settled, owned, attempts, restarts, exits, stranded, abandoned, strayed>>
  BY DEF Closed, disk, counters
<1>2. TypeOK'
  BY <1>1 DEF IInv, TypeOK
<1>3. Shape' /\ Unstarted' /\ Booting' /\ Owners' /\ Accounts' /\ AccountIsOne'
  BY <1>1 DEF IInv, Shape, Unstarted, Early, Booting, Owners, Owned, Accounts, Lost, AccountIsOne
<1>4. Stages'
  BY <1>1 DEF IInv, Stages, TypeOK
<1>5. QED BY <1>1, <1>2, <1>3, <1>4 DEF IInv

(* A new process starts with one helper at most, and what it finds on disk. *)
LEMMA RestartStep == ASSUME IInv, Restart PROVE IInv'
<1>1. /\ lock' = TRUE /\ creds' = accounts /\ bound' = accounts
      /\ boot' = (IF accounts = NoAccount THEN "ready" ELSE "opening")
      /\ transport' = None /\ provisional' = {} /\ op' = Idle
      /\ closing' = FALSE /\ stage' = "none" /\ awaited' = {} /\ settled' = TRUE /\ owned' = {}
      /\ stranded' = {}
      /\ UNCHANGED <<accounts, core, attempts, exits, strayed>>
  BY DEF Restart, EndOp, disk
<1>2. helper' = [t \in Transport |->
                   IF t = Booted /\ accounts # NoAccount THEN "running" ELSE "none"]
  BY DEF Restart
<1>3. restarts' \in 0..MaxRestarts
  BY Numbers DEF Restart, IInv, TypeOK
<1>4. op # Idle => op.n \in Attempt
  BY Numbers DEF IInv, Shape, TypeOK, Attempt
<1>5. /\ abandoned' = IF op = Idle THEN abandoned ELSE abandoned \union {op.n}
      /\ abandoned' \subseteq Attempt
  BY <1>4 DEF Restart, IInv, TypeOK
<1>6. helper' \in [Transport -> {"none", "running", "stopped"}]
  BY <1>2
<1>7. TypeOK'
  BY <1>1, <1>3, <1>5, <1>6, Numbers DEF IInv, TypeOK, OpType
<1>8. Shape' /\ Unstarted'
  BY <1>1, <1>2, Numbers DEF Shape, Unstarted, Early
<1>9. Booting' /\ Stages'
  BY <1>1, Numbers DEF Booting, Stages
<1>10. Owners'
  BY <1>1, <1>2 DEF Owners, Owned
<1>11. core \in Lost' \union {accounts}
  BY <1>5 DEF IInv, Accounts, Lost
<1>12. Accounts' /\ AccountIsOne'
  BY <1>1, <1>11, Numbers DEF Accounts, AccountIsOne, Early, Lost
<1>13. QED BY <1>1, <1>7, <1>8, <1>9, <1>10, <1>12 DEF IInv

-----------------------------------------------------------------------------
LEMMA StutterStep == ASSUME IInv, UNCHANGED vars PROVE IInv'
<1>1. TypeOK' /\ Shape' /\ Unstarted' /\ Booting'
  BY DEF IInv, vars, TypeOK, Shape, Unstarted, Early, Booting
<1>2. Stages' /\ Owners' /\ Accounts' /\ AccountIsOne'
  BY DEF IInv, vars, Stages, Owners, Owned, Accounts, Early, Lost, AccountIsOne
<1>3. QED BY <1>1, <1>2 DEF IInv, vars

LEMMA NextIInv == IInv /\ [Next]_vars => IInv'
<1> SUFFICES ASSUME IInv, [Next]_vars PROVE IInv'
  OBVIOUS
<1>1. CASE SignUp
  BY <1>1, StartStep DEF SignUp
<1>2. CASE Restore
  BY <1>2, StartStep DEF Restore
<1>3. CASE RegisterFails \/ UnpackFails
  BY <1>3, EarlyEndStep
<1>4. CASE OpenFails \/ Refused \/ ImportFails \/ Abandoned
  BY <1>4, EndStep
<1>5. CASE Registered \/ BeginRestore
  BY <1>5, RunStep
<1>6. CASE Imported \/ Validated \/ ValidateFails \/ CommitFails \/ (Committed /\ closing)
  <2>1. op' # Idle
    <3>1. op \in OpType /\ op.kind = "restore"
      BY <1>6 DEF Imported, Validated, ValidateFails, CommitFails, Committed, At, IInv, TypeOK, OpType
    <3>2. \E to \in {"refusing", "validating", "committing", "abandoning"} : GoTo(to)
      BY <1>6 DEF Imported, Validated, ValidateFails, CommitFails, Committed
    <3>3. QED BY <3>1, <3>2, Numbers DEF GoTo, OpType
  <2>2. QED BY <1>6, <2>1, AdvanceStep
<1>7. CASE Opened \/ AnnounceFails \/ (Announced /\ closing)
  BY <1>7, AdvanceStep, EndStep
<1>7p. CASE (Announced \/ Committed) /\ ~closing
  BY <1>7p, PublishStep
<1>8. CASE BootOpened \/ BootReady \/ BootFails
  BY <1>8, BootStep
<1>9. CASE Close \/ \E t \in Transport : HelperExits(t)
  BY <1>9, CloseBegins
<1>10. CASE CloseStep
  BY <1>10, HttpClosedStep, TakeStep, StopStep, ClosedStep DEF CloseStep
<1>11. CASE Restart
  BY <1>11, RestartStep
<1>12. CASE UNCHANGED vars
  BY <1>12, StutterStep
<1>13. QED
  BY <1>1, <1>2, <1>3, <1>4, <1>5, <1>6, <1>7, <1>7p, <1>8, <1>9, <1>10, <1>11, <1>12
  DEF Next, SignUpStep, RestoreStep

(* The inductive invariant: while all that close waits for has settled, a       *)
(* running helper has an owner or was left by one that failed to close it, and  *)
(* addresses have attempts they come from.                                      *)
THEOREM LifecycleInvariant == Spec => []IInv
BY InitIInv, NextIInv, PTL DEF Spec

(* daemon.ts: its variables keep their types through every attempt and restart. *)
THEOREM LifecycleTypes == Spec => []TypeOK
<1>1. IInv => TypeOK
  BY DEF IInv
<1>2. QED BY <1>1, LifecycleInvariant, PTL

(* daemon.ts's close gives the lock of the account up only when no sign-up is   *)
(* left to write and no helper runs, but that of a restore that goes on and one *)
(* that its own attempt or start failed to close.                               *)
THEOREM LifecycleLockOutlivesWork == Spec => []LockOutlivesWork
BY LockFree, LifecycleInvariant, PTL

(* daemon.ts serves one account: credentials, authentication state and core     *)
(* agree, but for a core that an abandoned attempt had configured.              *)
THEOREM LifecycleAccountIsOne == Spec => []AccountIsOne
<1>1. IInv => AccountIsOne
  BY DEF IInv
<1>2. QED BY <1>1, LifecycleInvariant, PTL
=============================================================================
