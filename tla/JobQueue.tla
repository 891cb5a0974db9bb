------------------------------ MODULE JobQueue ------------------------------
(***************************************************************************)
(* The background job queue of the web server: the table app_jobs, the     *)
(* single in-process runner that drains it, the user requests that cancel, *)
(* retry and delete a job, and what a crash of the process leaves behind.  *)
(* Source: src/apps/web/src/server/job-service.ts.                         *)
(*                                                                         *)
(* Every database statement is one step: between two awaited statements of *)
(* a request or of the runner, any other request may run.  A row keeps the *)
(* columns the control flow reads: status, attempts, max_attempts and      *)
(* whether run_after has passed.  The order among the due jobs is left     *)
(* open, so the model has every order the ORDER BY clause could give.      *)
(***************************************************************************)
EXTENDS Naturals

CONSTANTS
    Jobs,          \* the ids randomUUID() hands out; an id is used once
    NoJob,         \* the job of a drain or of a request that has none
    Drains,        \* concurrent invocations of drainJobQueue in one process
    Clients,       \* concurrent HTTP requests on /api/jobs/[jobId]
    MaxTries,      \* bound: the largest max_attempts a job is created with
    DrainLimit,    \* the parameter "limit" of drainJobQueue
    MaxRetries,    \* bound: retry requests that reach their UPDATE, per job
    MaxCrashes,    \* bound: crashes of the process
    MaxDbErrors    \* bound: failing statements while a result is recorded

ASSUME JobsAssumption == NoJob \notin Jobs
ASSUME BoundsAssumption ==
    /\ MaxTries \in Nat \ {0}
    /\ DrainLimit \in Nat
    /\ MaxRetries \in Nat
    /\ MaxCrashes \in Nat
    /\ MaxDbErrors \in Nat

VARIABLES
    status,        \* column status, "none" before the INSERT
    attempts,      \* column attempts
    maxAttempts,   \* column max_attempts
    due,           \* run_after <= now()
    up,            \* the server process exists
    armed,         \* globalThis.qgwJobRunnerTimer is set
    recovered,     \* globalThis.qgwJobRecovery has settled
    active,        \* globalThis.qgwJobRunnerActive
    drain,         \* the invocations of drainJobQueueAsSystem
    client,        \* a request whose check passed and whose write is to come
    done,          \* history: how often the work of a job was carried out
    retried,       \* history: how often a retry requeued a job
    crashes,       \* history: crashes so far
    dbErrors       \* history: failed statements so far

row     == <<status, attempts, maxAttempts, due>>
process == <<up, armed, recovered>>
history == <<done, retried, crashes, dbErrors>>
vars    == <<row, process, active, drain, client, history>>

Statuses == {"none", "queued", "running", "succeeded", "failed", "cancelled",
             "deleted"}
Settled  == {"succeeded", "failed", "cancelled"}
InTable(j) == status[j] \notin {"none", "deleted"}

\* "schedule" to "failing" lie between setting and clearing the active flag;
\* in the last three the drain has claimed a job.
DrainPCs  == {"idle", "called", "schedule", "claim", "run", "finish", "failing"}
Draining  == {"schedule", "claim", "run", "finish", "failing"}
Executing == {"run", "finish", "failing"}

IdleDrain  == [pc |-> "idle", job |-> NoJob, tries |-> 0, left |-> 0]
IdleClient == [op |-> "idle", job |-> NoJob]

Init ==
    /\ status      = [j \in Jobs |-> "none"]
    /\ attempts    = [j \in Jobs |-> 0]
    /\ maxAttempts = [j \in Jobs |-> 1]
    /\ due         = [j \in Jobs |-> FALSE]
    /\ up = FALSE
    /\ armed = FALSE
    /\ recovered = FALSE
    /\ active = FALSE
    /\ drain   = [d \in Drains |-> IdleDrain]
    /\ client  = [c \in Clients |-> IdleClient]
    /\ done    = [j \in Jobs |-> 0]
    /\ retried = [j \in Jobs |-> 0]
    /\ crashes = 0
    /\ dbErrors = 0

-----------------------------------------------------------------------------
(* The process *)

\* The server starts: the globals are unset, the table is as it was left.
Start ==
    /\ ~up
    /\ up' = TRUE
    /\ UNCHANGED <<row, armed, recovered, active, drain, client, history>>

\* The server is killed or redeployed: every promise, the timer, the flag and
\* the memoised recovery are gone; the rows stay.
Crash ==
    /\ up
    /\ crashes < MaxCrashes
    /\ up' = FALSE
    /\ armed' = FALSE
    /\ recovered' = FALSE
    /\ active' = FALSE
    /\ drain'  = [d \in Drains |-> IdleDrain]
    /\ client' = [c \in Clients |-> IdleClient]
    /\ crashes' = crashes + 1
    /\ UNCHANGED <<row, done, retried, dbErrors>>

\* GET /api/health and every listing call ensureJobRunner, which sets the
\* interval timer once per process.
Arm ==
    /\ up
    /\ ~armed
    /\ armed' = TRUE
    /\ UNCHANGED <<row, up, recovered, active, drain, client, history>>

\* The rows the recovery fails: those a dead process left running.  Their
\* updated_at lies before the start of this process, because nothing is
\* claimed in this process before the recovery has settled.
InterruptedNone(j) == FALSE
Interrupted(j) == status[j] = "running"

\* What the recovery sets: the job is not run again by itself.
RecoveredStatusRequeue == "queued"
RecoveredStatus == "failed"

\* recoverInterruptedJobs, memoised in qgwJobRecovery.
Recover ==
    /\ up
    /\ ~recovered
    /\ recovered' = TRUE
    /\ status' = [j \in Jobs |-> IF Interrupted(j) THEN RecoveredStatus ELSE status[j]]
    /\ UNCHANGED <<attempts, maxAttempts, due, up, armed, active, drain, client,
                   history>>

-----------------------------------------------------------------------------
(* drainJobQueue *)

\* A call of drainJobQueue starts an invocation that awaits the recovery.
\* Drains bounds the invocations that exist at once: a further call is lost
\* in the model, as one that finds the active flag set would be.
CallDrain ==
    \/ \E d \in Drains :
          /\ drain[d].pc = "idle"
          /\ drain' = [drain EXCEPT ![d].pc = "called"]
    \/ /\ \A d \in Drains : drain[d].pc # "idle"
       /\ UNCHANGED drain

\* The interval timer fires (also: an enqueue that found its idempotency key
\* in the table, which changes no row and calls drainJobQueue).
TimerFires ==
    /\ up
    /\ armed
    /\ CallDrain
    /\ UNCHANGED <<row, process, active, client, history>>

RunnerNeverBusy == FALSE
RunnerBusy == active

\* The finally clause.
KeepFlag == active' = active
ClearFlag == active' = FALSE

\* Past the recovery: another invocation holds the flag, return.
DrainReturns(d) ==
    /\ drain[d].pc = "called"
    /\ recovered
    /\ RunnerBusy
    /\ drain' = [drain EXCEPT ![d] = IdleDrain]
    /\ UNCHANGED <<row, process, active, client, history>>

\* Past the recovery: the flag is free, take it (no await in between).
DrainBegins(d) ==
    /\ drain[d].pc = "called"
    /\ recovered
    /\ ~RunnerBusy
    /\ active' = TRUE
    /\ drain' = [drain EXCEPT ![d] =
          [pc |-> "schedule", job |-> NoJob, tries |-> 0, left |-> DrainLimit]]
    /\ UNCHANGED <<row, process, client, history>>

\* max_attempts is clamped: Math.max(1, Math.min(n, 5)).
UnclampedTries == 0..MaxTries
ClampedTries == 1..MaxTries

\* The INSERT of enqueueJob for a fresh id.
InsertJob(j) ==
    /\ status[j] = "none"
    /\ \E m \in ClampedTries :
          maxAttempts' = [maxAttempts EXCEPT ![j] = m]
    /\ status' = [status EXCEPT ![j] = "queued"]
    /\ due'    = [due EXCEPT ![j] = TRUE]
    /\ UNCHANGED attempts

\* scheduleDueJobs: no automatic backup is due, or one is and is enqueued (the
\* enqueue's own drainJobQueue call finds the flag set and returns); an error
\* is logged and swallowed.
DrainSchedules(d) ==
    /\ drain[d].pc = "schedule"
    /\ drain' = [drain EXCEPT ![d].pc = "claim"]
    /\ \/ UNCHANGED row
       \/ \E j \in Jobs : InsertJob(j)
    /\ UNCHANGED <<process, active, client, history>>

\* The loop ends (limit reached, or nothing claimable): finally, clear the flag.
ClaimableAnyway(j) == status[j] \in {"queued", "failed"} /\ due[j]
Claimable(j) == status[j] = "queued" /\ due[j]

DrainEnds(d) ==
    /\ drain[d].pc = "claim"
    /\ drain[d].left = 0 \/ \A j \in Jobs : ~Claimable(j)
    /\ ClearFlag
    /\ drain' = [drain EXCEPT ![d] = IdleDrain]
    /\ UNCHANGED <<row, process, client, history>>

\* claimNextJob: one UPDATE that selects a due queued row and takes it.
DrainClaims(d, j) ==
    /\ drain[d].pc = "claim"
    /\ drain[d].left > 0
    /\ Claimable(j)
    /\ status'   = [status EXCEPT ![j] = "running"]
    /\ attempts' = [attempts EXCEPT ![j] = @ + 1]
    /\ drain' = [drain EXCEPT ![d] =
          [pc |-> "run", job |-> j, tries |-> attempts[j] + 1, left |-> drain[d].left]]
    /\ UNCHANGED <<maxAttempts, due, process, active, client, history>>

\* executeJob carries the work out and returns.
DrainSucceeds(d) ==
    /\ drain[d].pc = "run"
    /\ drain' = [drain EXCEPT ![d].pc = "finish"]
    /\ done'  = [done EXCEPT ![drain[d].job] = @ + 1]
    /\ UNCHANGED <<row, process, active, client, retried, crashes, dbErrors>>

\* executeJob, or the log line before it, throws before the work is done.
DrainFails(d) ==
    /\ drain[d].pc = "run"
    /\ drain' = [drain EXCEPT ![d].pc = "failing"]
    /\ UNCHANGED <<row, process, active, client, history>>

\* UPDATE app_jobs ... WHERE id = $1: no status is looked at, and a row that
\* was deleted meanwhile stays deleted.
SetStatus(j, s) ==
    status' = [status EXCEPT ![j] = IF InTable(j) THEN s ELSE @]

NextTurn(d) ==
    drain' = [drain EXCEPT ![d] =
        [pc |-> "claim", job |-> NoJob, tries |-> 0, left |-> drain[d].left - 1]]

\* finishJob(job.id, "succeeded", result).
DrainRecordsSuccess(d) ==
    /\ drain[d].pc = "finish"
    /\ SetStatus(drain[d].job, "succeeded")
    /\ NextTurn(d)
    /\ UNCHANGED <<attempts, maxAttempts, due, process, active, client, history>>

\* That UPDATE fails: it stands inside the try block, so the handler treats
\* work that was done as a failed execution.
DrainLosesSuccess(d) ==
    /\ drain[d].pc = "finish"
    /\ dbErrors < MaxDbErrors
    /\ dbErrors' = dbErrors + 1
    /\ drain' = [drain EXCEPT ![d].pc = "failing"]
    /\ UNCHANGED <<row, process, active, client, done, retried, crashes>>

\* The handler decides with the values of the row it claimed.
TriesLeftOffByOne(d) == drain[d].tries <= maxAttempts[drain[d].job]
TriesLeft(d) == drain[d].tries < maxAttempts[drain[d].job]

\* The handler: requeue with a backoff, or finishJob(job.id, "failed").
DrainRecordsFailure(d) ==
    LET j == drain[d].job IN
    /\ drain[d].pc = "failing"
    /\ \/ /\ TriesLeft(d)
          /\ SetStatus(j, "queued")
          /\ due' = [due EXCEPT ![j] = IF InTable(j) THEN FALSE ELSE @]
       \/ /\ ~TriesLeft(d)
          /\ SetStatus(j, "failed")
          /\ UNCHANGED due
    /\ NextTurn(d)
    /\ UNCHANGED <<attempts, maxAttempts, process, active, client, history>>

\* The handler's own UPDATE fails: the error leaves the loop, the flag is
\* cleared, the row stays as it was.
DrainAborts(d) ==
    /\ drain[d].pc = "failing"
    /\ dbErrors < MaxDbErrors
    /\ dbErrors' = dbErrors + 1
    /\ ClearFlag
    /\ drain' = [drain EXCEPT ![d] = IdleDrain]
    /\ UNCHANGED <<row, process, client, done, retried, crashes>>

DrainStep(d) ==
    \/ DrainReturns(d)
    \/ DrainBegins(d)
    \/ DrainSchedules(d)
    \/ DrainEnds(d)
    \/ \E j \in Jobs : DrainClaims(d, j)
    \/ DrainSucceeds(d)
    \/ DrainFails(d)
    \/ DrainRecordsSuccess(d)
    \/ DrainLosesSuccess(d)
    \/ DrainRecordsFailure(d)
    \/ DrainAborts(d)

\* run_after passes.
BackoffElapses(j) ==
    /\ status[j] = "queued"
    /\ ~due[j]
    /\ due' = [due EXCEPT ![j] = TRUE]
    /\ UNCHANGED <<status, attempts, maxAttempts, process, active, drain, client,
                   history>>

-----------------------------------------------------------------------------
(* Requests *)

\* enqueueJob: insert, then start the runner unless deferStart is given.
Enqueue(j) ==
    /\ up
    /\ InsertJob(j)
    /\ \/ /\ armed' = TRUE
          /\ CallDrain
       \/ UNCHANGED <<armed, drain>>
    /\ UNCHANGED <<up, recovered, active, client, history>>

\* The request awaits the recovery (getJob), reads the row and checks it.
Check(c, op, j, allowed) ==
    /\ recovered
    /\ client[c].op = "idle"
    /\ status[j] \in allowed
    /\ client' = [client EXCEPT ![c] = [op |-> op, job |-> j]]
    /\ UNCHANGED <<row, process, active, drain, history>>

CheckCancel(c, j) == Check(c, "cancel", j, {"queued"})
CheckRetry(c, j)  == retried[j] < MaxRetries /\ Check(c, "retry", j, {"failed", "cancelled"})
CheckDelete(c, j) == Check(c, "delete", j, Settled)

Replies(c) == client' = [client EXCEPT ![c] = IdleClient]

\* cancelJob's UPDATE names the row by its id only.  (Without a row it throws.)
Cancel(c) ==
    /\ client[c].op = "cancel"
    /\ SetStatus(client[c].job, "cancelled")
    /\ Replies(c)
    /\ UNCHANGED <<attempts, maxAttempts, due, process, active, drain, history>>

\* retryJob's UPDATE names the row by its id only and keeps attempts; then the
\* runner is started.  (Without a row it throws after starting the runner.)
Retry(c) ==
    LET j == client[c].job IN
    /\ client[c].op = "retry"
    /\ SetStatus(j, "queued")
    /\ due' = [due EXCEPT ![j] = IF InTable(j) THEN TRUE ELSE @]
    /\ retried' = [retried EXCEPT ![j] = IF InTable(j) THEN @ + 1 ELSE @]
    /\ armed' = TRUE
    /\ CallDrain
    /\ Replies(c)
    /\ UNCHANGED <<attempts, maxAttempts, up, recovered, active, done, crashes,
                   dbErrors>>

\* deleteJob's DELETE looks at the status again.
Delete(c) ==
    LET j == client[c].job IN
    /\ client[c].op = "delete"
    /\ status' = [status EXCEPT ![j] = IF @ \in Settled THEN "deleted" ELSE @]
    /\ Replies(c)
    /\ UNCHANGED <<attempts, maxAttempts, due, process, active, drain, history>>

Request ==
    \/ \E j \in Jobs : Enqueue(j)
    \/ \E c \in Clients :
          \/ \E j \in Jobs : CheckCancel(c, j) \/ CheckRetry(c, j) \/ CheckDelete(c, j)
          \/ Cancel(c)
          \/ Retry(c)
          \/ Delete(c)

Next ==
    \/ Start
    \/ Crash
    \/ Arm
    \/ Recover
    \/ TimerFires
    \/ \E d \in Drains : DrainStep(d)
    \/ \E j \in Jobs : BackoffElapses(j)
    \/ Request

\* The container runtime restarts the server and its health check arms the
\* timer; the interval fires again and again; promises of the runner settle;
\* time passes.  Nothing is assumed of the users' requests.
Fairness ==
    /\ WF_vars(Start)
    /\ WF_vars(Arm)
    /\ WF_vars(Recover)
    /\ WF_vars(TimerFires)
    /\ \A d \in Drains : WF_vars(DrainStep(d))
    /\ \A j \in Jobs : WF_vars(BackoffElapses(j))

Spec     == Init /\ [][Next]_vars
FairSpec == Spec /\ Fairness

-----------------------------------------------------------------------------
(* Properties *)

DrainRecord  == [pc : DrainPCs, job : Jobs \cup {NoJob}, tries : Nat, left : 0..DrainLimit]
ClientRecord == [op : {"idle", "cancel", "retry", "delete"}, job : Jobs \cup {NoJob}]

\* The variables keep their types.
TypeOK ==
    /\ status \in [Jobs -> Statuses]
    /\ attempts \in [Jobs -> Nat]
    /\ maxAttempts \in [Jobs -> 1..MaxTries]
    /\ due \in [Jobs -> BOOLEAN]
    /\ up \in BOOLEAN
    /\ armed \in BOOLEAN
    /\ recovered \in BOOLEAN
    /\ active \in BOOLEAN
    /\ drain \in [Drains -> DrainRecord]
    /\ client \in [Clients -> ClientRecord]
    /\ done \in [Jobs -> Nat]
    /\ retried \in [Jobs -> Nat]
    /\ crashes \in Nat
    /\ dbErrors \in Nat

Executes(d, j) == drain[d].pc \in Executing /\ drain[d].job = j

\* However many timers, enqueues and retries call drainJobQueue at once, one
\* invocation at most is past the active flag, so jobs run one after another.
OneRunner ==
    \A d, e \in Drains :
        drain[d].pc \in Draining /\ drain[e].pc \in Draining => d = e

\* Once a process has recovered, a row says "running" only while the runner
\* works on that job: no crash, cancel, retry or failure leaves a job that can
\* be neither cancelled, retried nor deleted.  Only a failed statement does.
RunningHasRunner ==
    recovered /\ dbErrors = 0 =>
        \A j \in Jobs : status[j] = "running" => \E d \in Drains : Executes(d, j)

\* A job is tried max_attempts times, and once more for each retry a user asked
\* for, across crashes and racing requests.
AttemptsBounded ==
    \A j \in Jobs : attempts[j] <= maxAttempts[j] + retried[j]

\* The work of a job (a backup, a restore, an AI action) is carried out again
\* only after a user's retry or a failed statement; a crash between the work
\* and its record fails the job and does not repeat it.
WorkDoneOnce ==
    \A j \in Jobs : done[j] <= 1 + retried[j] + dbErrors

\* The inductive invariant behind the four invariants above.
FlagHeld == \A d \in Drains : drain[d].pc \in Draining => active

JobNamed ==
    /\ \A d \in Drains : drain[d].pc \in Executing =>
          drain[d].job \in Jobs /\ drain[d].left > 0
    /\ \A c \in Clients : client[c].op # "idle" => client[c].job \in Jobs

TriesRecorded ==
    \A d \in Drains : drain[d].pc \in Executing =>
        /\ drain[d].tries = attempts[drain[d].job]
        /\ status[drain[d].job] # "none"

Fresh ==
    \A j \in Jobs : status[j] = "none" =>
        attempts[j] = 0 /\ done[j] = 0 /\ retried[j] = 0

\* A queued job has a try and a piece of work to its credit ...
QueuedHasCredit ==
    \A j \in Jobs : status[j] = "queued" =>
        /\ attempts[j] < maxAttempts[j] + retried[j]
        /\ done[j] <= retried[j] + dbErrors

\* ... which the drain that executes it holds until the work is done; if a
\* racing retry has queued the job meanwhile, there are two of them.
ExecutingHasCredit ==
    \A d \in Drains : drain[d].pc \in {"run", "failing"} =>
        LET j == drain[d].job IN
        /\ done[j] <= retried[j] + dbErrors
        /\ drain[d].pc = "run" /\ status[j] = "queued"
              => done[j] < retried[j] + dbErrors

IInv ==
    /\ OneRunner
    /\ RunningHasRunner
    /\ AttemptsBounded
    /\ WorkDoneOnce
    /\ FlagHeld
    /\ TriesRecorded
    /\ Fresh
    /\ QueuedHasCredit
    /\ ExecutingHasCredit

\* A job the user can see as failed or succeeded starts again only because a
\* user retried it: neither recovery nor the runner revives it.
SettledStaysSettled ==
    [][\A j \in Jobs :
          status[j] \in {"succeeded", "failed"} /\ status'[j] \in {"queued", "running"}
              => retried'[j] > retried[j] \/ \E d \in Drains : Executes(d, j)]_vars

\* A queued job does not wait for ever: it is claimed, or a user cancels it.
QueuedIsTaken ==
    \A j \in Jobs : status[j] = "queued" ~> status[j] # "queued"

\* A running job settles or is requeued, across crashes of the process; only a
\* failed statement may leave its row behind.
RunningIsSettled ==
    \A j \in Jobs : status[j] = "running" ~> status[j] # "running" \/ dbErrors > 0

\* job-service.ts:181 answers "只能重试失败或已取消任务" (only a failed or cancelled job
\* can be retried): a retry takes effect on such a job only.
RetryTakesFailedOnly ==
    [][\A j \in Jobs : retried'[j] > retried[j]
                           => status[j] \in {"failed", "cancelled"}]_vars
=============================================================================
