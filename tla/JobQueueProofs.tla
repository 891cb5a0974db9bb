--------------------------- MODULE JobQueueProofs ---------------------------
(* The invariants of JobQueue, proved for any number of jobs, drains and    *)
(* requests and for every value of the bounds.                              *)
EXTENDS JobQueue, TLAPS

\* Typing of the helpers that several actions share.
LEMMA SetStatusType ==
    ASSUME TypeOK, NEW j, NEW s \in Statuses, SetStatus(j, s)
    PROVE  status' \in [Jobs -> Statuses]
BY DEF TypeOK, SetStatus

LEMMA IdleType ==
    /\ IdleDrain \in DrainRecord
    /\ IdleDrain.pc = "idle"
    /\ IdleDrain.pc \notin Executing
    /\ IdleClient \in ClientRecord
    /\ IdleClient.op = "idle"
BY BoundsAssumption
DEF IdleDrain, IdleClient, DrainRecord, ClientRecord, DrainPCs, Executing

LEMMA CallDrainType ==
    ASSUME TypeOK, CallDrain
    PROVE  drain' \in [Drains -> DrainRecord]
BY DEF TypeOK, CallDrain, DrainRecord, DrainPCs

LEMMA CallDrainNames ==
    ASSUME TypeOK, JobNamed, CallDrain
    PROVE  \A e \in Drains : drain'[e].pc \in Executing =>
              drain'[e].job \in Jobs /\ drain'[e].left > 0
<1>1. CASE UNCHANGED drain
  BY <1>1 DEF JobNamed
<1>2. ASSUME NEW d \in Drains, drain' = [drain EXCEPT ![d].pc = "called"]
      PROVE  \A e \in Drains : drain'[e].pc \in Executing =>
                drain'[e].job \in Jobs /\ drain'[e].left > 0
  <2>1. \A e \in Drains : e # d => drain'[e] = drain[e]
    BY <1>2 DEF TypeOK
  <2>2. drain'[d].pc = "called"
    BY <1>2 DEF TypeOK, DrainRecord
  <2>3. QED BY <2>1, <2>2 DEF JobNamed, Executing
<1>3. QED BY <1>1, <1>2 DEF CallDrain

LEMMA InsertJobType ==
    ASSUME TypeOK, NEW j \in Jobs, InsertJob(j)
    PROVE  /\ status' \in [Jobs -> Statuses]
           /\ maxAttempts' \in [Jobs -> 1..MaxTries]
           /\ due' \in [Jobs -> BOOLEAN]
           /\ attempts' \in [Jobs -> Nat]
BY DEF TypeOK, InsertJob, ClampedTries, Statuses

LEMMA NextTurnType ==
    ASSUME TypeOK, JobNamed, NEW d \in Drains, drain[d].pc \in Executing, NextTurn(d)
    PROVE  /\ drain' \in [Drains -> DrainRecord]
           /\ \A e \in Drains : drain'[e].pc \in Executing =>
                 drain'[e].job \in Jobs /\ drain'[e].left > 0
BY BoundsAssumption DEF TypeOK, JobNamed, NextTurn, DrainRecord, DrainPCs, Executing

\* A step of a drain keeps the types, and names a job while it executes one.
LEMMA DrainStepType ==
    ASSUME TypeOK, JobNamed, NEW d \in Drains, DrainStep(d)
    PROVE  TypeOK' /\ JobNamed'
<1> USE BoundsAssumption DEF row, process, history, JobNamed, Executing
<1>1. CASE DrainReturns(d)
  BY <1>1, IdleType DEF DrainReturns, TypeOK
<1>2. CASE DrainBegins(d)
  <2>1. drain' \in [Drains -> DrainRecord]
    BY <1>2 DEF DrainBegins, TypeOK, DrainRecord, DrainPCs
  <2>2. /\ \A e \in Drains : e # d => drain'[e] = drain[e]
        /\ drain'[d].pc = "schedule"
    BY <1>2 DEF DrainBegins, TypeOK, DrainRecord
  <2>3. QED BY <1>2, <2>1, <2>2 DEF DrainBegins, TypeOK
<1>3. CASE DrainSchedules(d)
  <2>1. /\ drain' \in [Drains -> DrainRecord]
        /\ JobNamed'
    BY <1>3 DEF DrainSchedules, TypeOK, DrainRecord, DrainPCs
  <2>2. CASE UNCHANGED row
    BY <1>3, <2>1, <2>2 DEF DrainSchedules, TypeOK
  <2>3. CASE \E j \in Jobs : InsertJob(j)
    BY <1>3, <2>1, <2>3, InsertJobType DEF DrainSchedules, TypeOK
  <2>4. QED BY <1>3, <2>2, <2>3 DEF DrainSchedules
<1>4. CASE DrainEnds(d)
  BY <1>4, IdleType DEF DrainEnds, TypeOK, ClearFlag
<1>5. CASE \E j \in Jobs : DrainClaims(d, j)
  <2>1. PICK j \in Jobs : DrainClaims(d, j)  BY <1>5
  <2>2. status' \in [Jobs -> Statuses] /\ attempts' \in [Jobs -> Nat]
    BY <2>1 DEF DrainClaims, TypeOK, Statuses
  <2>3. drain' \in [Drains -> DrainRecord]
    BY <2>1 DEF DrainClaims, TypeOK, DrainRecord, DrainPCs
  <2>4. /\ \A e \in Drains : e # d => drain'[e] = drain[e]
        /\ drain'[d].job = j
        /\ drain'[d].left = drain[d].left
    BY <2>1 DEF DrainClaims, TypeOK, DrainRecord
  <2>5. JobNamed'
    BY <2>1, <2>4 DEF DrainClaims
  <2>6. QED BY <2>1, <2>2, <2>3, <2>5 DEF DrainClaims, TypeOK
<1>6. CASE DrainSucceeds(d)
  BY <1>6 DEF DrainSucceeds, TypeOK, DrainRecord, DrainPCs
<1>7. CASE DrainFails(d)
  BY <1>7 DEF DrainFails, TypeOK, DrainRecord, DrainPCs
<1>8. CASE DrainRecordsSuccess(d)
  <2>1. status' \in [Jobs -> Statuses]
    BY <1>8, SetStatusType DEF DrainRecordsSuccess, Statuses
  <2>2. QED BY <1>8, <2>1, NextTurnType DEF DrainRecordsSuccess, TypeOK
<1>9. CASE DrainLosesSuccess(d)
  BY <1>9 DEF DrainLosesSuccess, TypeOK, DrainRecord, DrainPCs
<1>10. CASE DrainRecordsFailure(d)
  <2>1. status' \in [Jobs -> Statuses]
    BY <1>10, SetStatusType DEF DrainRecordsFailure, Statuses
  <2>2. due' \in [Jobs -> BOOLEAN]
    BY <1>10 DEF DrainRecordsFailure, TypeOK
  <2>3. QED BY <1>10, <2>1, <2>2, NextTurnType DEF DrainRecordsFailure, TypeOK
<1>11. CASE DrainAborts(d)
  <2>1. drain' \in [Drains -> DrainRecord] /\ dbErrors' \in Nat
    BY <1>11, IdleType DEF DrainAborts, TypeOK
  <2>2. JobNamed'
    BY <1>11, IdleType DEF DrainAborts, TypeOK
  <2>3. QED BY <1>11, <2>1, <2>2 DEF DrainAborts, TypeOK, ClearFlag
<1>12. QED
  BY <1>1, <1>2, <1>3, <1>4, <1>5, <1>6, <1>7, <1>8, <1>9, <1>10, <1>11
  DEF DrainStep

\* A step of a user's request does.
LEMMA RequestType ==
    ASSUME TypeOK, JobNamed, Request
    PROVE  TypeOK' /\ JobNamed'
<1> USE BoundsAssumption DEF row, process, history
<1>1. CASE \E j \in Jobs : Enqueue(j)
  <2>1. PICK j \in Jobs : Enqueue(j)  BY <1>1
  <2>2. /\ drain' \in [Drains -> DrainRecord]
        /\ JobNamed'
    BY <2>1, CallDrainType, CallDrainNames DEF Enqueue, TypeOK, JobNamed
  <2>3. QED BY <2>1, <2>2, InsertJobType DEF Enqueue, TypeOK
<1>2. ASSUME NEW c \in Clients, NEW j \in Jobs,
             CheckCancel(c, j) \/ CheckRetry(c, j) \/ CheckDelete(c, j)
      PROVE  TypeOK' /\ JobNamed'
  <2>1. PICK op \in {"cancel", "retry", "delete"} :
           client' = [client EXCEPT ![c] = [op |-> op, job |-> j]]
    BY <1>2 DEF CheckCancel, CheckRetry, CheckDelete, Check
  <2>2. UNCHANGED <<row, process, active, drain, history>>
    BY <1>2 DEF CheckCancel, CheckRetry, CheckDelete, Check
  <2>3. [op |-> op, job |-> j] \in ClientRecord
    BY DEF ClientRecord
  <2>4. client' \in [Clients -> ClientRecord]
    BY <2>1, <2>3 DEF TypeOK
  <2>5. TypeOK'
    BY <2>2, <2>4 DEF TypeOK
  <2>6. JobNamed'
    BY <2>1, <2>2 DEF TypeOK, JobNamed
  <2>7. QED BY <2>5, <2>6
<1>3. ASSUME NEW c \in Clients, Cancel(c)
      PROVE  TypeOK' /\ JobNamed'
  <2>1. status' \in [Jobs -> Statuses]
    BY <1>3, SetStatusType DEF Cancel, Statuses
  <2>2. QED BY <1>3, <2>1, IdleType DEF Cancel, Replies, TypeOK, JobNamed
<1>4. ASSUME NEW c \in Clients, Retry(c)
      PROVE  TypeOK' /\ JobNamed'
  <2>1. status' \in [Jobs -> Statuses]
    BY <1>4, SetStatusType DEF Retry, Statuses
  <2>2. due' \in [Jobs -> BOOLEAN] /\ retried' \in [Jobs -> Nat]
    <3>1. due' \in [Jobs -> BOOLEAN]
      BY <1>4 DEF Retry, TypeOK
    <3>2. retried' \in [Jobs -> Nat]
      <4>1. retried \in [Jobs -> Nat]
        BY DEF TypeOK
      <4>2. PICK j \in Jobs :
               retried' = [retried EXCEPT ![j] = IF InTable(j) THEN @ + 1 ELSE @]
        BY <1>4 DEF Retry, JobNamed
      <4>3. QED BY <4>1, <4>2
    <3>3. QED BY <3>1, <3>2
  <2>3. drain' \in [Drains -> DrainRecord]
    BY <1>4, CallDrainType DEF Retry
  <2>4. JobNamed'
    BY <1>4, CallDrainNames, IdleType DEF Retry, Replies, TypeOK, JobNamed
  <2>5. QED
    BY <1>4, <2>1, <2>2, <2>3, <2>4, IdleType DEF Retry, Replies, TypeOK
<1>5. ASSUME NEW c \in Clients, Delete(c)
      PROVE  TypeOK' /\ JobNamed'
  BY <1>5, IdleType DEF Delete, Replies, TypeOK, JobNamed, Statuses
<1>6. QED BY <1>1, <1>2, <1>3, <1>4, <1>5 DEF Request

LEMMA TypeStep == TypeOK /\ JobNamed /\ [Next]_vars => TypeOK' /\ JobNamed'
<1> SUFFICES ASSUME TypeOK, JobNamed, [Next]_vars PROVE TypeOK' /\ JobNamed'
  OBVIOUS
<1> USE BoundsAssumption DEF row, process, history
<1>1. CASE Start
  BY <1>1 DEF Start, TypeOK, JobNamed
<1>2. CASE Crash
  <2>1. drain' \in [Drains -> DrainRecord] /\ client' \in [Clients -> ClientRecord]
    BY <1>2, IdleType DEF Crash
  <2>2. JobNamed'
    BY <1>2, IdleType DEF Crash, JobNamed
  <2>3. crashes' \in Nat
    BY <1>2 DEF Crash, TypeOK
  <2>4. QED BY <1>2, <2>1, <2>2, <2>3 DEF Crash, TypeOK
<1>3. CASE Arm
  BY <1>3 DEF Arm, TypeOK, JobNamed
<1>4. CASE Recover
  BY <1>4 DEF Recover, RecoveredStatus, TypeOK, JobNamed, Statuses
<1>5. CASE TimerFires
  <2>1. JobNamed'
    BY <1>5, CallDrainNames DEF TimerFires, JobNamed
  <2>2. QED BY <1>5, <2>1, CallDrainType DEF TimerFires, TypeOK
<1>6. CASE \E d \in Drains : DrainStep(d)
  BY <1>6, DrainStepType
<1>7. CASE \E j \in Jobs : BackoffElapses(j)
  BY <1>7 DEF BackoffElapses, TypeOK, JobNamed
<1>8. CASE Request
  BY <1>8, RequestType
<1>9. CASE UNCHANGED vars
  BY <1>9 DEF vars, TypeOK, JobNamed
<1>10. QED
  BY <1>1, <1>2, <1>3, <1>4, <1>5, <1>6, <1>7, <1>8, <1>9 DEF Next

\* The variables keep their types in every behaviour of the queue.
THEOREM TypeCorrect == Spec => [](TypeOK /\ JobNamed)
<1>1. Init => TypeOK /\ JobNamed
  <2>1. Init => TypeOK
    <3>1. 1 \in 1..MaxTries
      BY BoundsAssumption
    <3>2. Init => /\ drain \in [Drains -> DrainRecord]
                  /\ client \in [Clients -> ClientRecord]
      BY IdleType DEF Init
    <3>3. Init => /\ status \in [Jobs -> Statuses]
                  /\ maxAttempts \in [Jobs -> 1..MaxTries]
      BY <3>1 DEF Init, Statuses
    <3>4. Init => /\ attempts \in [Jobs -> Nat]
                  /\ due \in [Jobs -> BOOLEAN]
                  /\ done \in [Jobs -> Nat]
                  /\ retried \in [Jobs -> Nat]
      BY DEF Init
    <3>5. Init => /\ up \in BOOLEAN
                  /\ armed \in BOOLEAN
                  /\ recovered \in BOOLEAN
                  /\ active \in BOOLEAN
      BY Zenon DEF Init
    <3>6. Init => crashes \in Nat /\ dbErrors \in Nat
      BY DEF Init
    <3>7. QED BY <3>2, <3>3, <3>4, <3>5, <3>6 DEF TypeOK
  <2>2. Init => JobNamed
    BY IdleType DEF Init, JobNamed
  <2>3. QED BY <2>1, <2>2
<1>2. QED BY <1>1, TypeStep, PTL DEF Spec

-----------------------------------------------------------------------------
(* The inductive invariant.  Its argument: the active flag admits one drain, *)
(* so the columns a drain has read at the claim (tries) stay those of the    *)
(* row; a queued row carries a credit (a try, and a piece of work not yet    *)
(* counted) that the claim hands to the drain, and that only a retry or a    *)
(* failed statement renews.                                                  *)

LEMMA SetStatusEffect ==
    ASSUME TypeOK, NEW j \in Jobs, NEW s, SetStatus(j, s)
    PROVE  /\ \A k \in Jobs : k # j => status'[k] = status[k]
           /\ InTable(j) => status'[j] = s
           /\ ~InTable(j) => status'[j] = status[j]
BY DEF TypeOK, SetStatus

\* The other drains are as they were.
OthersKept(d) == \A e \in Drains : e # d => drain'[e] = drain[e]

\* The drains that have a job are.
ExecutorsKept ==
    \A e \in Drains :
        drain[e].pc \in Executing \/ drain'[e].pc \in Executing => drain'[e] = drain[e]

\* A call of drainJobQueue touches no drain that is past the flag.
LEMMA CallDrainKeeps ==
    ASSUME TypeOK, IInv, CallDrain, active' = active
    PROVE  ExecutorsKept /\ OneRunner' /\ FlagHeld'
<1>1. \A e \in Drains :
         drain[e].pc \in Draining \/ drain'[e].pc \in Draining => drain'[e] = drain[e]
  BY DEF TypeOK, DrainRecord, CallDrain, Draining
<1>2. ExecutorsKept
  BY <1>1 DEF ExecutorsKept, Executing, Draining
<1>3. OneRunner' /\ FlagHeld'
  BY <1>1 DEF IInv, OneRunner, FlagHeld
<1>4. QED BY <1>2, <1>3

\* The drain that is past the flag moves on, or leaves and clears it.
LEMMA RunnerMoves ==
    ASSUME IInv, NEW d \in Drains, OthersKept(d), drain[d].pc \in Draining,
           active' = active \/ drain'[d].pc = "idle"
    PROVE  /\ OneRunner' /\ FlagHeld'
           /\ \A e \in Drains :
                 drain[e].pc \in Draining \/ drain'[e].pc \in Draining => e = d
<1>1. \A e \in Drains : drain[e].pc \in Draining => e = d
  BY DEF IInv, OneRunner
<1>2. \A e \in Drains : drain'[e].pc \in Draining => e = d
  BY <1>1 DEF OthersKept
<1>3. FlagHeld'
  BY <1>2 DEF IInv, FlagHeld, Draining
<1>4. QED BY <1>1, <1>2, <1>3 DEF OneRunner

\* A step that touches neither the counted columns nor a drain with a job.
LEMMA QuietStep ==
    ASSUME IInv, ExecutorsKept, OneRunner', FlagHeld',
           UNCHANGED <<status, attempts, maxAttempts, recovered, done, retried, dbErrors>>
    PROVE  IInv'
<1>1. RunningHasRunner'
  BY DEF IInv, RunningHasRunner, Executes, ExecutorsKept
<1>2. AttemptsBounded' /\ WorkDoneOnce' /\ Fresh' /\ QueuedHasCredit'
  BY DEF IInv, AttemptsBounded, WorkDoneOnce, Fresh, QueuedHasCredit
<1>3. TriesRecorded' /\ ExecutingHasCredit'
  BY DEF IInv, TriesRecorded, ExecutingHasCredit, ExecutorsKept, Executing
<1>4. QED BY <1>1, <1>2, <1>3 DEF IInv

\* An INSERT: the new row has its whole credit.
LEMMA InsertStep ==
    ASSUME TypeOK, JobNamed, IInv, NEW j \in Jobs, InsertJob(j),
           ExecutorsKept, OneRunner', FlagHeld',
           UNCHANGED <<recovered, done, retried, dbErrors>>
    PROVE  IInv'
<1>1. /\ status[j] = "none"
      /\ status'[j] = "queued"
      /\ \A k \in Jobs : k # j => status'[k] = status[k] /\ maxAttempts'[k] = maxAttempts[k]
      /\ attempts' = attempts
      /\ maxAttempts'[j] \in Nat \ {0}
  BY BoundsAssumption DEF InsertJob, ClampedTries, TypeOK
<1>2. attempts[j] = 0 /\ done[j] = 0 /\ retried[j] = 0
  BY <1>1 DEF IInv, Fresh
<1>3. \A e \in Drains : drain[e].pc \in Executing => drain[e].job # j
  BY <1>1 DEF IInv, TriesRecorded
<1>4. RunningHasRunner'
  BY <1>1 DEF IInv, RunningHasRunner, Executes, ExecutorsKept
<1>5. AttemptsBounded' /\ WorkDoneOnce'
  BY <1>1, <1>2 DEF IInv, AttemptsBounded, WorkDoneOnce
<1>6. TriesRecorded'
  BY <1>1, <1>3 DEF IInv, TriesRecorded, JobNamed, ExecutorsKept
<1>7. Fresh'
  BY <1>1 DEF IInv, Fresh
<1>8. QueuedHasCredit'
  BY <1>1, <1>2 DEF IInv, QueuedHasCredit, TypeOK
<1>9. ExecutingHasCredit'
  BY <1>1, <1>3 DEF IInv, ExecutingHasCredit, JobNamed, ExecutorsKept, Executing
<1>10. QED
  BY <1>4, <1>5, <1>6, <1>7, <1>8, <1>9 DEF IInv

\* The steps of a drain without a job.
LEMMA DrainBeginsStep ==
    ASSUME TypeOK, IInv, NEW d \in Drains, DrainBegins(d)
    PROVE  IInv'
<1>1. /\ OthersKept(d)
      /\ drain[d].pc = "called"
      /\ drain'[d].pc = "schedule"
      /\ active' = TRUE
      /\ UNCHANGED <<row, process, history>>
  BY DEF DrainBegins, OthersKept, TypeOK
<1>2. \A e \in Drains : drain[e].pc \notin Draining
  BY DEF IInv, FlagHeld, DrainBegins, RunnerBusy
<1>3. OneRunner' /\ FlagHeld'
  BY <1>1, <1>2 DEF OneRunner, FlagHeld, OthersKept
<1>4. ExecutorsKept
  BY <1>1 DEF ExecutorsKept, OthersKept, Executing
<1>5. QED BY <1>1, <1>3, <1>4, QuietStep DEF row, process, history

LEMMA DrainMovesStep ==
    ASSUME TypeOK, JobNamed, IInv, NEW d \in Drains,
           DrainReturns(d) \/ DrainSchedules(d) \/ DrainEnds(d)
    PROVE  IInv'
<1>1. /\ OthersKept(d)
      /\ drain'[d].pc \in {"idle", "claim"}
      /\ drain[d].pc \in {"called", "schedule", "claim"}
      /\ UNCHANGED <<process, history>>
  BY IdleType
  DEF DrainReturns, DrainSchedules, DrainEnds, OthersKept, TypeOK, DrainRecord
<1>2. ExecutorsKept
  BY <1>1 DEF ExecutorsKept, OthersKept, Executing
<1>3. OneRunner' /\ FlagHeld'
  <2>1. CASE DrainReturns(d)
    BY <2>1, <1>1, IdleType DEF DrainReturns, IInv, OneRunner, FlagHeld, OthersKept, Draining, TypeOK
  <2>2. CASE DrainSchedules(d)
    BY <2>2, <1>1, RunnerMoves DEF DrainSchedules, Draining
  <2>3. CASE DrainEnds(d)
    <3>1. drain[d].pc \in Draining /\ drain'[d].pc = "idle"
      BY <2>3, IdleType DEF DrainEnds, Draining, TypeOK
    <3>2. QED BY <3>1, <1>1, RunnerMoves
  <2>4. QED BY <2>1, <2>2, <2>3
<1>4. CASE UNCHANGED row
  BY <1>1, <1>2, <1>3, <1>4, QuietStep DEF row, process, history
<1>5. CASE \E j \in Jobs : InsertJob(j)
  BY <1>1, <1>2, <1>3, <1>5, InsertStep DEF process, history
<1>6. QED
  BY <1>4, <1>5 DEF DrainReturns, DrainSchedules, DrainEnds

LEMMA DrainClaimsStep ==
    ASSUME TypeOK, IInv, NEW d \in Drains, NEW j \in Jobs, DrainClaims(d, j)
    PROVE  IInv'
<1>1. /\ OthersKept(d)
      /\ drain[d].pc = "claim"
      /\ drain'[d].pc = "run"
      /\ drain'[d].job = j
      /\ drain'[d].tries = attempts[j] + 1
      /\ status[j] = "queued"
      /\ status'[j] = "running"
      /\ attempts'[j] = attempts[j] + 1
      /\ \A k \in Jobs : k # j => status'[k] = status[k] /\ attempts'[k] = attempts[k]
      /\ UNCHANGED <<maxAttempts, recovered, active, done, retried, dbErrors>>
  BY DEF DrainClaims, OthersKept, Claimable, TypeOK, process, history
<1>2. drain[d].pc \in Draining
  BY <1>1 DEF Draining
<1>3. /\ OneRunner' /\ FlagHeld'
      /\ \A e \in Drains :
            drain[e].pc \in Draining \/ drain'[e].pc \in Draining => e = d
  BY <1>1, <1>2, RunnerMoves
<1>5. RunningHasRunner'
  BY <1>1, <1>3 DEF IInv, RunningHasRunner, Executes, OthersKept, Executing, Draining
<1>6. AttemptsBounded'
  BY <1>1 DEF IInv, AttemptsBounded, QueuedHasCredit, TypeOK
<1>7. WorkDoneOnce' /\ Fresh' /\ QueuedHasCredit'
  BY <1>1 DEF IInv, WorkDoneOnce, Fresh, QueuedHasCredit
<1>8. TriesRecorded'
  BY <1>1, <1>3 DEF TriesRecorded, Executing, Draining
<1>9. ExecutingHasCredit'
  BY <1>1, <1>3 DEF IInv, ExecutingHasCredit, QueuedHasCredit, Draining
<1>10. QED BY <1>3, <1>5, <1>6, <1>7, <1>8, <1>9 DEF IInv

LEMMA DrainWorksStep ==
    ASSUME TypeOK, JobNamed, IInv, NEW d \in Drains,
           DrainSucceeds(d) \/ DrainFails(d) \/ DrainLosesSuccess(d)
    PROVE  IInv'
<1> DEFINE j == drain[d].job
<1>1. /\ OthersKept(d)
      /\ drain[d].pc \in {"run", "finish"}
      /\ drain'[d].pc \in {"finish", "failing"}
      /\ drain'[d].job = j
      /\ drain'[d].tries = drain[d].tries
      /\ UNCHANGED <<row, process, active, retried>>
  BY DEF DrainSucceeds, DrainFails, DrainLosesSuccess, OthersKept, TypeOK, DrainRecord, history
<1>2. /\ j \in Jobs
      /\ j = drain[d].job
  BY <1>1 DEF JobNamed, Executing
<1>3. \A k \in Jobs : k # j => done'[k] = done[k]
  BY <1>2 DEF DrainSucceeds, DrainFails, DrainLosesSuccess, history, TypeOK
<1>4. \/ /\ drain[d].pc = "run"
         /\ drain'[d].pc = "finish"
         /\ done'[j] = done[j] + 1
         /\ dbErrors' = dbErrors
      \/ /\ drain[d].pc = "run"
         /\ drain'[d].pc = "failing"
         /\ done'[j] = done[j]
         /\ dbErrors' = dbErrors
      \/ /\ drain[d].pc = "finish"
         /\ drain'[d].pc = "failing"
         /\ done'[j] = done[j]
         /\ dbErrors' = dbErrors + 1
  BY <1>1, <1>2 DEF DrainSucceeds, DrainFails, DrainLosesSuccess, history, TypeOK, DrainRecord
<1> HIDE DEF j
<1>5. dbErrors \in Nat /\ dbErrors' \in Nat /\ dbErrors <= dbErrors'
  BY <1>4 DEF TypeOK
<1>6. drain[d].pc \in Draining
  BY <1>1 DEF Draining
<1>7. /\ OneRunner' /\ FlagHeld'
      /\ \A e \in Drains :
            drain[e].pc \in Draining \/ drain'[e].pc \in Draining => e = d
  BY <1>1, <1>6, RunnerMoves
<1>9. RunningHasRunner'
  BY <1>1, <1>2, <1>5, <1>7
  DEF IInv, RunningHasRunner, Executes, OthersKept, Executing, Draining, row, process
<1>10. AttemptsBounded'
  BY <1>1 DEF IInv, AttemptsBounded, row
<1>11. TriesRecorded'
  BY <1>1, <1>2, <1>7 DEF IInv, TriesRecorded, Executing, Draining, row
<1>12. status[j] # "none"
  BY <1>1, <1>2 DEF IInv, TriesRecorded, Executing
<1>13. Fresh'
  BY <1>1, <1>3, <1>12 DEF IInv, Fresh, row
<1>14. WorkDoneOnce'
  BY <1>1, <1>2, <1>3, <1>4, <1>5 DEF IInv, WorkDoneOnce, ExecutingHasCredit, TypeOK
<1>15. QueuedHasCredit'
  BY <1>1, <1>2, <1>3, <1>4, <1>5 DEF IInv, QueuedHasCredit, ExecutingHasCredit, TypeOK, row
<1>16. ExecutingHasCredit'
  BY <1>1, <1>2, <1>3, <1>4, <1>5, <1>7
  DEF IInv, ExecutingHasCredit, WorkDoneOnce, Draining, TypeOK, row
<1>17. QED
  BY <1>7, <1>9, <1>10, <1>11, <1>13, <1>14, <1>15, <1>16 DEF IInv

\* The drain records the outcome and turns to the next job.
LEMMA DrainRecordsStep ==
    ASSUME TypeOK, JobNamed, IInv, NEW d \in Drains,
           DrainRecordsSuccess(d) \/ DrainRecordsFailure(d)
    PROVE  IInv'
<1> DEFINE j == drain[d].job
<1>1. /\ OthersKept(d)
      /\ drain[d].pc \in {"finish", "failing"}
      /\ drain'[d].pc = "claim"
      /\ UNCHANGED <<attempts, maxAttempts, process, active, history>>
  <2>1. /\ drain[d].pc \in {"finish", "failing"}
        /\ NextTurn(d)
        /\ UNCHANGED <<attempts, maxAttempts, process, active, history>>
    BY DEF DrainRecordsSuccess, DrainRecordsFailure
  <2>2. OthersKept(d) /\ drain'[d].pc = "claim"
    BY <2>1 DEF NextTurn, OthersKept, TypeOK
  <2>3. QED BY <2>1, <2>2
<1>2. j \in Jobs
  BY <1>1 DEF JobNamed, Executing
<1>3. drain[d].pc \in Draining
  BY <1>1 DEF Draining
<1>4. /\ OneRunner' /\ FlagHeld'
      /\ \A e \in Drains :
            drain[e].pc \in Draining \/ drain'[e].pc \in Draining => e = d
  BY <1>1, <1>3, RunnerMoves
<1>5. \A e \in Drains : drain'[e].pc \notin Executing
  BY <1>1, <1>4 DEF Executing, Draining
<1>6. PICK s \in {"succeeded", "failed", "queued"} :
         /\ SetStatus(j, s)
         /\ s = "queued" => drain[d].pc = "failing" /\ TriesLeft(d)
  BY DEF DrainRecordsSuccess, DrainRecordsFailure
<1> HIDE DEF j
<1>7. /\ \A k \in Jobs : k # j => status'[k] = status[k]
      /\ status'[j] = s \/ (status[j] \in {"none", "deleted"} /\ status'[j] = status[j])
  <2>1. /\ \A k \in Jobs : k # j => status'[k] = status[k]
        /\ InTable(j) => status'[j] = s
        /\ ~InTable(j) => status'[j] = status[j]
    BY <1>2, <1>6, SetStatusEffect
  <2>2. QED BY <2>1 DEF InTable
<1>8. /\ attempts[j] = drain[d].tries
      /\ status[j] # "none"
  BY <1>1 DEF IInv, TriesRecorded, Executing, j
<1>9. drain[d].pc = "failing" => done[j] <= retried[j] + dbErrors
  BY DEF IInv, ExecutingHasCredit, j
<1>10. s = "queued" => attempts[j] < maxAttempts[j]
  BY <1>6, <1>8 DEF TriesLeft, j
<1>11. RunningHasRunner'
  <2>1. ASSUME recovered, dbErrors = 0, NEW k \in Jobs, status'[k] = "running"
        PROVE  FALSE
    <3>1. k # j /\ status[k] = "running"
      BY <2>1, <1>2, <1>6, <1>7
    <3>2. PICK e \in Drains : Executes(e, k)
      BY <2>1, <3>1 DEF IInv, RunningHasRunner
    <3>3. e = d
      BY <3>2, <1>4 DEF Executes, Executing, Draining
    <3>4. QED BY <3>1, <3>2, <3>3 DEF Executes, j
  <2>2. QED BY <2>1, <1>1 DEF RunningHasRunner, process, history
<1>12. AttemptsBounded' /\ WorkDoneOnce'
  BY <1>1 DEF IInv, AttemptsBounded, WorkDoneOnce, history
<1>13. TriesRecorded' /\ ExecutingHasCredit'
  BY <1>5 DEF TriesRecorded, ExecutingHasCredit, Executing
<1>14. Fresh'
  BY <1>1, <1>2, <1>6, <1>7, <1>8 DEF IInv, Fresh, history
<1>15. QueuedHasCredit'
  <2>1. ASSUME NEW k \in Jobs, status'[k] = "queued"
        PROVE  /\ attempts[k] < maxAttempts[k] + retried[k]
               /\ done[k] <= retried[k] + dbErrors
    <3>1. CASE k = j
      BY <2>1, <3>1, <1>2, <1>6, <1>7, <1>9, <1>10 DEF TypeOK
    <3>2. CASE k # j
      BY <2>1, <3>2, <1>7 DEF IInv, QueuedHasCredit
    <3>3. QED BY <3>1, <3>2
  <2>2. QED BY <2>1, <1>1 DEF QueuedHasCredit, history
<1>16. QED BY <1>4, <1>11, <1>12, <1>13, <1>14, <1>15 DEF IInv

LEMMA DrainAbortsStep ==
    ASSUME TypeOK, IInv, NEW d \in Drains, DrainAborts(d)
    PROVE  IInv'
<1>1. /\ OthersKept(d)
      /\ drain[d].pc \in Draining
      /\ drain'[d].pc = "idle"
      /\ dbErrors' = dbErrors + 1
      /\ UNCHANGED <<row, process, done, retried>>
  BY IdleType DEF DrainAborts, OthersKept, TypeOK, Draining
<1>2. /\ OneRunner' /\ FlagHeld'
      /\ \A e \in Drains :
            drain[e].pc \in Draining \/ drain'[e].pc \in Draining => e = d
  BY <1>1, RunnerMoves
<1>3. \A e \in Drains : drain'[e].pc \notin Executing
  BY <1>1, <1>2 DEF Executing, Draining
<1>4. RunningHasRunner'
  BY <1>1 DEF RunningHasRunner, TypeOK
<1>5. AttemptsBounded' /\ WorkDoneOnce' /\ Fresh' /\ QueuedHasCredit'
  BY <1>1 DEF IInv, AttemptsBounded, WorkDoneOnce, Fresh, QueuedHasCredit, TypeOK, row
<1>6. TriesRecorded' /\ ExecutingHasCredit'
  BY <1>3 DEF TriesRecorded, ExecutingHasCredit, Executing
<1>7. QED BY <1>2, <1>4, <1>5, <1>6 DEF IInv

LEMMA DrainStepInvariant ==
    ASSUME TypeOK, JobNamed, IInv, NEW d \in Drains, DrainStep(d)
    PROVE  IInv'
<1>1. CASE DrainReturns(d) \/ DrainSchedules(d) \/ DrainEnds(d)
  BY <1>1, DrainMovesStep
<1>2. CASE DrainBegins(d)
  BY <1>2, DrainBeginsStep
<1>3. CASE \E j \in Jobs : DrainClaims(d, j)
  BY <1>3, DrainClaimsStep
<1>4. CASE DrainSucceeds(d) \/ DrainFails(d) \/ DrainLosesSuccess(d)
  BY <1>4, DrainWorksStep
<1>5. CASE DrainRecordsSuccess(d) \/ DrainRecordsFailure(d)
  BY <1>5, DrainRecordsStep
<1>6. CASE DrainAborts(d)
  BY <1>6, DrainAbortsStep
<1>7. QED BY <1>1, <1>2, <1>3, <1>4, <1>5, <1>6 DEF DrainStep

\* The writes of requests: none of them touches a drain with a job.
LEMMA CancelDeleteStep ==
    ASSUME TypeOK, JobNamed, IInv, NEW c \in Clients, Cancel(c) \/ Delete(c)
    PROVE  IInv'
<1> DEFINE j == client[c].job
<1>1. /\ j \in Jobs
      /\ UNCHANGED <<attempts, maxAttempts, process, active, drain, history>>
  BY DEF Cancel, Delete, JobNamed
<1>2. /\ \A k \in Jobs : k # j => status'[k] = status[k]
      /\ status'[j] = status[j]
         \/ (status[j] # "none" /\ status'[j] \in {"cancelled", "deleted"})
  <2>1. CASE Cancel(c)
    <3>1. /\ \A k \in Jobs : k # j => status'[k] = status[k]
          /\ InTable(j) => status'[j] = "cancelled"
          /\ ~InTable(j) => status'[j] = status[j]
      BY <2>1, <1>1, SetStatusEffect DEF Cancel
    <3>2. QED BY <3>1 DEF InTable
  <2>2. CASE Delete(c)
    <3>1. /\ status \in [Jobs -> Statuses]
          /\ status' = [status EXCEPT ![j] = IF @ \in Settled THEN "deleted" ELSE @]
      BY <2>2 DEF Delete, TypeOK
    <3>2. CASE status[j] \in Settled
      BY <1>1, <3>1, <3>2 DEF Settled
    <3>3. CASE status[j] \notin Settled
      BY <1>1, <3>1, <3>3
    <3>4. QED BY <3>2, <3>3
  <2>3. QED BY <2>1, <2>2
<1> HIDE DEF j
<1>3. OneRunner' /\ FlagHeld' /\ AttemptsBounded' /\ WorkDoneOnce'
  BY <1>1 DEF IInv, OneRunner, FlagHeld, AttemptsBounded, WorkDoneOnce, history
<1>4. RunningHasRunner'
  BY <1>1, <1>2 DEF IInv, RunningHasRunner, Executes, process, history
<1>5. TriesRecorded'
  BY <1>1, <1>2 DEF IInv, TriesRecorded, JobNamed
<1>6. Fresh' /\ QueuedHasCredit'
  BY <1>1, <1>2 DEF IInv, Fresh, QueuedHasCredit, history
<1>7. ExecutingHasCredit'
  BY <1>1, <1>2 DEF IInv, ExecutingHasCredit, JobNamed, Executing, history
<1>8. QED BY <1>3, <1>4, <1>5, <1>6, <1>7 DEF IInv

LEMMA RetryStep ==
    ASSUME TypeOK, JobNamed, IInv, NEW c \in Clients, Retry(c)
    PROVE  IInv'
<1> DEFINE j == client[c].job
<1>1. /\ j \in Jobs
      /\ CallDrain
      /\ UNCHANGED <<attempts, maxAttempts, recovered, active, done, dbErrors>>
  BY DEF Retry, JobNamed
<1>2. /\ \A k \in Jobs : k # j => status'[k] = status[k] /\ retried'[k] = retried[k]
      /\ InTable(j) => status'[j] = "queued" /\ retried'[j] = retried[j] + 1
      /\ ~InTable(j) => status'[j] = status[j] /\ retried'[j] = retried[j]
  <2>1. /\ SetStatus(j, "queued")
        /\ retried' = [retried EXCEPT ![j] = IF InTable(j) THEN @ + 1 ELSE @]
    BY DEF Retry
  <2>2. QED BY <1>1, <2>1, SetStatusEffect DEF TypeOK
<1> HIDE DEF j
<1>3. /\ ExecutorsKept
      /\ OneRunner' /\ FlagHeld'
  BY <1>1, CallDrainKeeps
<1>4. RunningHasRunner'
  BY <1>1, <1>2, <1>3 DEF IInv, RunningHasRunner, Executes, ExecutorsKept, InTable
<1>5. AttemptsBounded' /\ WorkDoneOnce'
  BY <1>1, <1>2 DEF IInv, AttemptsBounded, WorkDoneOnce, TypeOK
<1>6. TriesRecorded'
  BY <1>1, <1>2, <1>3 DEF IInv, TriesRecorded, ExecutorsKept, JobNamed, InTable
<1>7. Fresh'
  BY <1>1, <1>2 DEF IInv, Fresh, InTable
<1>8. QueuedHasCredit'
  <2>1. QueuedHasCredit /\ AttemptsBounded /\ WorkDoneOnce
    BY DEF IInv
  <2>2. ASSUME NEW k \in Jobs, status'[k] = "queued"
        PROVE  /\ attempts[k] < maxAttempts[k] + retried'[k]
               /\ done[k] <= retried'[k] + dbErrors
    <3>1. CASE k = j /\ InTable(j)
      BY <2>1, <1>2, <3>1 DEF AttemptsBounded, WorkDoneOnce, TypeOK
    <3>2. CASE ~(k = j /\ InTable(j))
      BY <2>1, <2>2, <1>2, <3>2 DEF QueuedHasCredit, TypeOK
    <3>3. QED BY <3>1, <3>2
  <2>3. QED BY <2>2, <1>1 DEF QueuedHasCredit
<1>9. ExecutingHasCredit'
  BY <1>1, <1>2, <1>3
  DEF IInv, ExecutingHasCredit, ExecutorsKept, JobNamed, Executing, TypeOK, InTable
<1>10. QED BY <1>3, <1>4, <1>5, <1>6, <1>7, <1>8, <1>9 DEF IInv

LEMMA RequestInvariant ==
    ASSUME TypeOK, JobNamed, IInv, Request
    PROVE  IInv'
<1>1. ASSUME NEW j \in Jobs, Enqueue(j)
      PROVE  IInv'
  <2>1. ExecutorsKept /\ OneRunner' /\ FlagHeld'
    <3>1. CASE CallDrain
      BY <3>1, <1>1, CallDrainKeeps DEF Enqueue
    <3>2. CASE UNCHANGED drain
      BY <3>2, <1>1 DEF Enqueue, IInv, OneRunner, FlagHeld, ExecutorsKept
    <3>3. QED BY <1>1, <3>1, <3>2 DEF Enqueue
  <2>2. QED BY <1>1, <2>1, InsertStep DEF Enqueue, history
<1>2. ASSUME NEW c \in Clients, NEW j \in Jobs,
             CheckCancel(c, j) \/ CheckRetry(c, j) \/ CheckDelete(c, j)
      PROVE  IInv'
  <2>1. UNCHANGED <<row, process, active, drain, history>>
    BY <1>2 DEF CheckCancel, CheckRetry, CheckDelete, Check
  <2>2. ExecutorsKept /\ OneRunner' /\ FlagHeld'
    BY <2>1 DEF IInv, OneRunner, FlagHeld, ExecutorsKept
  <2>3. QED BY <2>1, <2>2, QuietStep DEF row, process, history
<1>3. QED BY <1>1, <1>2, CancelDeleteStep, RetryStep DEF Request

LEMMA InvariantStep == TypeOK /\ JobNamed /\ IInv /\ [Next]_vars => IInv'
<1> SUFFICES ASSUME TypeOK, JobNamed, IInv, [Next]_vars PROVE IInv'
  OBVIOUS
<1>1. CASE Start \/ Arm \/ UNCHANGED vars \/ \E j \in Jobs : BackoffElapses(j)
  <2>1. /\ UNCHANGED <<status, attempts, maxAttempts, recovered, done, retried, dbErrors>>
        /\ UNCHANGED <<active, drain>>
    BY <1>1 DEF Start, Arm, BackoffElapses, vars, row, process, history
  <2>2. ExecutorsKept /\ OneRunner' /\ FlagHeld'
    BY <2>1 DEF IInv, OneRunner, FlagHeld, ExecutorsKept
  <2>3. QED BY <2>1, <2>2, QuietStep
<1>2. CASE Crash
  <2>1. /\ \A d \in Drains : drain'[d].pc = "idle"
        /\ recovered' = FALSE
        /\ UNCHANGED <<row, done, retried, dbErrors>>
    BY <1>2, IdleType DEF Crash
  <2>2. OneRunner' /\ FlagHeld' /\ RunningHasRunner' /\ TriesRecorded' /\ ExecutingHasCredit'
    BY <2>1 DEF OneRunner, FlagHeld, RunningHasRunner, TriesRecorded, ExecutingHasCredit,
                Draining, Executing
  <2>3. AttemptsBounded' /\ WorkDoneOnce' /\ Fresh' /\ QueuedHasCredit'
    BY <2>1 DEF IInv, AttemptsBounded, WorkDoneOnce, Fresh, QueuedHasCredit, row
  <2>4. QED BY <2>2, <2>3 DEF IInv
<1>3. CASE Recover
  <2>1. /\ \A j \in Jobs : status'[j] # "running"
        /\ \A j \in Jobs : status'[j] = status[j]
                           \/ (status[j] = "running" /\ status'[j] = "failed")
        /\ UNCHANGED <<attempts, maxAttempts, active, drain, done, retried, dbErrors>>
    <3>1. status' = [j \in Jobs |-> IF status[j] = "running" THEN "failed" ELSE status[j]]
      BY <1>3 DEF Recover, Interrupted, RecoveredStatus
    <3>2. UNCHANGED <<attempts, maxAttempts, active, drain, done, retried, dbErrors>>
      BY <1>3 DEF Recover, history
    <3>3. QED BY <3>1, <3>2
  <2>2. OneRunner' /\ FlagHeld' /\ RunningHasRunner'
    BY <2>1 DEF IInv, OneRunner, FlagHeld, RunningHasRunner
  <2>3. AttemptsBounded' /\ WorkDoneOnce' /\ Fresh' /\ QueuedHasCredit'
    BY <2>1 DEF IInv, AttemptsBounded, WorkDoneOnce, Fresh, QueuedHasCredit
  <2>4. TriesRecorded' /\ ExecutingHasCredit'
    BY <2>1 DEF IInv, TriesRecorded, ExecutingHasCredit, JobNamed, Executing
  <2>5. QED BY <2>2, <2>3, <2>4 DEF IInv
<1>4. CASE TimerFires
  <2>1. ExecutorsKept /\ OneRunner' /\ FlagHeld'
    BY <1>4, CallDrainKeeps DEF TimerFires
  <2>2. QED BY <1>4, <2>1, QuietStep DEF TimerFires, row, process, history
<1>5. CASE \E d \in Drains : DrainStep(d)
  BY <1>5, DrainStepInvariant
<1>6. CASE Request
  BY <1>6, RequestInvariant
<1>7. QED BY <1>1, <1>2, <1>3, <1>4, <1>5, <1>6 DEF Next

LEMMA InvariantInit == Init => IInv
BY BoundsAssumption, IdleType
DEF Init, IInv, OneRunner, RunningHasRunner, AttemptsBounded, WorkDoneOnce, FlagHeld,
    TriesRecorded, Fresh, QueuedHasCredit, ExecutingHasCredit, Draining, Executing

LEMMA Invariant == Spec => []IInv
BY TypeCorrect, InvariantInit, InvariantStep, PTL DEF Spec

\* One invocation of drainJobQueue at a time is past the active flag.
THEOREM OneRunnerAlways == Spec => []OneRunner
BY Invariant, PTL DEF IInv

\* No job is left "running" without a runner in a process that has recovered.
THEOREM RunningHasRunnerAlways == Spec => []RunningHasRunner
BY Invariant, PTL DEF IInv

\* Attempts stay within max_attempts plus the user's retries.
THEOREM AttemptsBoundedAlways == Spec => []AttemptsBounded
BY Invariant, PTL DEF IInv

\* The work is repeated only after a retry or a failed statement.
THEOREM WorkDoneOnceAlways == Spec => []WorkDoneOnce
BY Invariant, PTL DEF IInv

\* A job leaves "failed" or "succeeded" for the queue only through a retry, or
\* because the drain that executes it records what it has come to.
LEMMA SettledStep ==
    ASSUME TypeOK, JobNamed, [Next]_vars, NEW j \in Jobs,
           status[j] \in {"succeeded", "failed"}, status'[j] \in {"queued", "running"}
    PROVE  retried'[j] > retried[j] \/ \E d \in Drains : Executes(d, j)
<1>1. ASSUME NEW k \in Jobs, InsertJob(k)
      PROVE  FALSE
  <2>1. status' = [status EXCEPT ![k] = "queued"] /\ status[k] = "none"
    BY <1>1 DEF InsertJob
  <2>2. QED BY <2>1 DEF TypeOK
<1>2. CASE \/ Start \/ Crash \/ Arm \/ TimerFires \/ UNCHANGED vars
           \/ \E k \in Jobs : BackoffElapses(k)
  BY <1>2 DEF Start, Crash, Arm, TimerFires, BackoffElapses, vars, row
<1>3. CASE Recover
  BY <1>3 DEF Recover, Interrupted, RecoveredStatus
<1>4. ASSUME NEW d \in Drains, DrainStep(d)
      PROVE  Executes(d, j)
  <2>1. CASE \E k \in Jobs : DrainClaims(d, k)
    <3>1. PICK k \in Jobs : Claimable(k) /\ status' = [status EXCEPT ![k] = "running"]
      BY <2>1 DEF DrainClaims
    <3>2. QED BY <3>1 DEF Claimable, TypeOK
  <2>2. CASE DrainRecordsSuccess(d) \/ DrainRecordsFailure(d)
    <3>1. drain[d].job \in Jobs /\ drain[d].pc \in Executing
      BY <2>2 DEF DrainRecordsSuccess, DrainRecordsFailure, JobNamed, Executing
    <3>2. PICK s : SetStatus(drain[d].job, s)
      BY <2>2 DEF DrainRecordsSuccess, DrainRecordsFailure
    <3>3. drain[d].job = j
      BY <3>1, <3>2, SetStatusEffect
    <3>4. QED BY <3>1, <3>3 DEF Executes
  <2>3. QED BY <1>1, <1>4, <2>1, <2>2
            DEF DrainStep, DrainReturns, DrainBegins, DrainSchedules, DrainEnds, DrainSucceeds,
                DrainFails, DrainLosesSuccess, DrainAborts, row
<1>5. ASSUME NEW c \in Clients, Cancel(c) \/ Delete(c)
      PROVE  FALSE
  <2>1. client[c].job \in Jobs
    BY <1>5 DEF Cancel, Delete, JobNamed
  <2>2. CASE Cancel(c)
    BY <2>1, <2>2, SetStatusEffect DEF Cancel
  <2>3. CASE Delete(c)
    BY <2>1, <2>3 DEF Delete, TypeOK
  <2>4. QED BY <1>5, <2>2, <2>3
<1>6. ASSUME NEW c \in Clients, Retry(c)
      PROVE  retried'[j] > retried[j]
  <2>1. /\ client[c].job \in Jobs /\ SetStatus(client[c].job, "queued")
        /\ retried' = [retried EXCEPT ![client[c].job] = IF InTable(client[c].job) THEN @ + 1 ELSE @]
    BY <1>6 DEF Retry, JobNamed
  <2>2. client[c].job = j /\ InTable(j)
    BY <2>1, SetStatusEffect DEF InTable
  <2>3. retried[j] \in Nat /\ retried'[j] = retried[j] + 1
    BY <2>1, <2>2 DEF TypeOK
  <2>4. QED BY <2>3
<1>7. CASE Request
  <2>1. ASSUME NEW c \in Clients, NEW k \in Jobs, CheckCancel(c, k) \/ CheckRetry(c, k) \/ CheckDelete(c, k)
        PROVE  FALSE
    BY <2>1 DEF CheckCancel, CheckRetry, CheckDelete, Check, row
  <2>2. QED BY <1>1, <1>5, <1>6, <1>7, <2>1 DEF Request, Enqueue
<1>8. QED BY <1>2, <1>3, <1>4, <1>7 DEF Next

\* A job the user sees as failed or succeeded starts again only after a retry:
\* neither the recovery nor the runner revives it.
THEOREM SettledAlwaysStays == Spec => SettledStaysSettled
<1>1. TypeOK /\ JobNamed /\ [Next]_vars =>
        [\A j \in Jobs :
           status[j] \in {"succeeded", "failed"} /\ status'[j] \in {"queued", "running"}
             => retried'[j] > retried[j] \/ \E d \in Drains : Executes(d, j)]_vars
  BY SettledStep
<1>2. QED BY TypeCorrect, <1>1, PTL DEF Spec, SettledStaysSettled
=============================================================================
