--------------------------- MODULE SyncScheduler ---------------------------
(***************************************************************************)
(* The background synchronisation of mail (mail-sync-scheduler.ts,         *)
(* imap-sync.ts, exchange-mail-sync.ts) or of calendars                    *)
(* (calendar-sync-scheduler.ts, caldav-sync.ts): the two are alike, and    *)
(* kind says which one a behaviour is about.  A tick walks through the     *)
(* accounts it listed; requests, jobs and Exchange notifications           *)
(* synchronise single accounts meanwhile; users pause accounts and switch  *)
(* synchronisation off; a restore stops the scheduler and replaces the     *)
(* database.  An action is what runs between two awaits; where a step of   *)
(* the code awaits several reads in a row, the one that decides stands for *)
(* them.                                                                   *)
(***************************************************************************)
EXTENDS Integers

CONSTANTS
    Accounts,
    Exchange,   \* those of provider exchange, which send notifications
    Leaky,      \* calendars whose branch of syncCalDavAccount is not awaited
    Callers,    \* requests, jobs and listeners that synchronise one account
    Tick,       \* the one tick of the scheduler
    Visitors,   \* requests that ensure that the scheduler runs
    NoAccount,
    MaxEvents   \* acts of users and of the administrator, and crashes

Runners == Callers \cup {Tick}

ASSUME SchedulerAssumption ==
    /\ Tick \notin Callers
    /\ NoAccount \notin Accounts
    /\ Leaky \subseteq Accounts
    /\ Exchange \subseteq Accounts
    /\ MaxEvents \in Nat

VARIABLES
    kind,       \* "mail" or "calendar"
    settings,   \* sync_settings: is this synchronisation switched on?
    status,     \* sync_status of each account; "ready" stands for "idle" too
    enabled,    \* kalender...SyncEnabled
    timers,     \* the armed ones of "interval" and "initial"
    initial,    \* kalender...SyncInitialTimer is set (a fired one stays set)
    stopping,   \* kalenderCalendarSyncStopping
    ticking,    \* kalender...SyncTickRunning
    left,       \* the accounts before the tick
    waiting,    \* the accounts whose nextAttemptAt lies ahead
    listening,  \* the Exchange accounts with a listener for notifications
    lock,       \* kalenderActiveMailSyncs or kalenderActiveCalendarSyncs
    at, pc,     \* what each runner synchronises and how far it is
    visit,      \* the settings each visitor has read
    restore,    \* how far the restore job is: "off", "stopping", "replacing"
    dump,       \* the statuses in the backup it restores
    events,     \* acts and crashes so far
    quiet,      \* history: stopped, and not ensured since
    interrupted \* history: "syncing" left behind by a crash or a dump

memory == <<enabled, timers, initial, stopping>>
tick == <<ticking, left>>
run == <<lock, at, pc>>
syncing == <<tick, waiting, listening, run>>
aside == <<kind, settings, memory, visit, restore, dump>>
history == <<events, quiet, interrupted>>
schedulerVars == <<status, aside, syncing, history>>

Statuses == {"ready", "syncing", "error", "paused"}
Steps == {"off", "list", "asked", "load", "mark", "work"}
NotRead == "not read"

SchedulerTypeOK ==
    /\ kind \in {"mail", "calendar"}
    /\ settings \in BOOLEAN
    /\ status \in [Accounts -> Statuses]
    /\ enabled \in BOOLEAN
    /\ timers \subseteq {"interval", "initial"}
    /\ initial \in BOOLEAN
    /\ stopping \in BOOLEAN
    /\ ticking \in BOOLEAN
    /\ left \subseteq Accounts
    /\ waiting \subseteq Accounts
    /\ listening \subseteq Exchange
    /\ lock \subseteq Accounts
    /\ at \in [Runners -> Accounts \cup {NoAccount}]
    /\ pc \in [Runners -> Steps]
    /\ visit \in [Visitors -> {"off", "on", NotRead}]
    /\ restore \in {"off", "stopping", "replacing"}
    /\ dump \in [Accounts -> Statuses]
    /\ events \in 0..MaxEvents
    /\ quiet \in BOOLEAN
    /\ interrupted \subseteq Accounts

SchedulerInit ==
    /\ kind \in {"mail", "calendar"}
    /\ settings = TRUE
    /\ status = [a \in Accounts |-> "ready"]
    /\ enabled = FALSE
    /\ timers = {}
    /\ initial = FALSE
    /\ stopping = FALSE
    /\ ticking = FALSE
    /\ left = {}
    /\ waiting = {}
    /\ listening = {}
    /\ lock = {}
    /\ at = [r \in Runners |-> NoAccount]
    /\ pc = [r \in Runners |-> "off"]
    /\ visit = [v \in Visitors |-> NotRead]
    /\ restore = "off"
    /\ dump = status
    /\ events = 0
    /\ quiet = FALSE
    /\ interrupted = {}

-----------------------------------------------------------------------------
(* Ensuring that the scheduler runs.                                       *)

Event == events < MaxEvents /\ events' = events + 1

\* A page's request reads the settings.
ReadSettings(v) ==
    /\ visit[v] = NotRead
    /\ visit' = [visit EXCEPT ![v] = IF settings THEN "on" ELSE "off"]
    /\ UNCHANGED <<syncing, memory, history, kind, settings, status, restore, dump>>

\* The administrator switches the synchronisation on or off.
SaveSettings(v) ==
    /\ Event
    /\ visit[v] = NotRead
    /\ settings' = ~settings
    /\ visit' = [visit EXCEPT ![v] = IF settings' THEN "on" ELSE "off"]
    /\ UNCHANGED <<syncing, memory, kind, status, restore, dump, quiet, interrupted>>

EnsureKeepsStopping(v) ==
    /\ visit[v] # NotRead
    /\ visit' = [visit EXCEPT ![v] = NotRead]
    /\ enabled' = (visit[v] = "on")
    /\ stopping' = stopping
    /\ timers' = (IF visit[v] = "off" THEN {}
                  ELSE timers \cup {"interval"}
                       \cup (IF enabled \/ initial THEN {} ELSE {"initial"}))
    /\ initial' = (visit[v] = "on" /\ (initial \/ ~enabled))
    /\ quiet' = (quiet /\ visit[v] = "off")
    /\ UNCHANGED <<syncing, kind, settings, status, restore, dump, events, interrupted>>

\* The rest of ensure...SyncScheduler, with the settings as they were read.
Ensure(v) ==
    /\ visit[v] # NotRead
    /\ visit' = [visit EXCEPT ![v] = NotRead]
    /\ enabled' = (visit[v] = "on")
    /\ stopping' = FALSE
    /\ timers' = (IF visit[v] = "off" THEN {}
                  ELSE timers \cup {"interval"}
                       \cup (IF enabled \/ initial THEN {} ELSE {"initial"}))
    /\ initial' = (visit[v] = "on" /\ (initial \/ ~enabled))
    /\ quiet' = (quiet /\ visit[v] = "off")
    /\ UNCHANGED <<syncing, kind, settings, status, restore, dump, events, interrupted>>

-----------------------------------------------------------------------------
(* One synchronisation of one account, by a caller or by the tick.         *)

LeakyHere(a) == kind = "calendar" /\ a \in Leaky

Holds(r) ==
    \/ pc[r] = "load"
    \/ pc[r] \in {"mark", "work"} /\ ~LeakyHere(at[r])

\* The runner has nothing to do any more and, if it holds the lock, leaves it.
Leave(r) ==
    /\ at' = [at EXCEPT ![r] = NoAccount]
    /\ pc' = [pc EXCEPT ![r] = "off"]
    /\ lock' = (IF Holds(r) THEN lock \ {at[r]} ELSE lock)

\* The tick remembers an account that failed and forgets one that did not.
Remember(r, failed) ==
    waiting' = (IF r # Tick THEN waiting
                ELSE IF failed THEN waiting \cup {at[r]} ELSE waiting \ {at[r]})

GoTo(r, a, step) ==
    /\ at' = [at EXCEPT ![r] = a]
    /\ pc' = [pc EXCEPT ![r] = step]

\* A user synchronises by hand: the route looks at the status.
AskByHand(c, a) ==
    /\ pc[c] = "off"
    /\ status[a] # "syncing"
    /\ kind = "mail" => status[a] # "paused"
    /\ GoTo(c, a, "asked")
    /\ UNCHANGED <<aside, tick, history, status, waiting, listening, lock>>

\* A job of kind mail.sync, or the sync after a folder was changed.
AskByJob(c, a) ==
    /\ kind = "mail"
    /\ pc[c] = "off"
    /\ GoTo(c, a, "asked")
    /\ UNCHANGED <<aside, tick, history, status, waiting, listening, lock>>

\* An Exchange server tells of a change; check and lock are one stretch.
AskByNotice(c, a) ==
    /\ a \in listening \ lock
    /\ pc[c] = "off"
    /\ GoTo(c, a, "load")
    /\ lock' = lock \cup {a}
    /\ UNCHANGED <<aside, tick, history, status, waiting, listening>>

LockAnyway(r) ==
    /\ pc[r] = "asked"
    /\ GoTo(r, at[r], "load")
    /\ lock' = lock \cup {at[r]}
    /\ UNCHANGED <<aside, tick, history, status, waiting, listening>>

\* ...SyncAlreadyRunningError, or the account is added to the active ones.
Lock(r) ==
    /\ pc[r] = "asked"
    /\ IF at[r] \in lock
       THEN Leave(r)
       ELSE GoTo(r, at[r], "load") /\ lock' = lock \cup {at[r]}
    /\ UNCHANGED <<aside, tick, history, status, waiting, listening>>

LoadPaused(r) ==
    /\ pc[r] = "load"
    /\ GoTo(r, at[r], "mark")
    /\ lock' = (IF LeakyHere(at[r]) THEN lock \ {at[r]} ELSE lock)
    /\ UNCHANGED <<aside, tick, history, status, waiting, listening>>

\* The account is read under the lock. Mail refuses a paused one. The branch
\* of a leaky calendar returns its promise, and the finally leaves the lock.
Load(r) ==
    /\ pc[r] = "load"
    /\ kind = "mail" => status[at[r]] # "paused"
    /\ GoTo(r, at[r], "mark")
    /\ lock' = (IF LeakyHere(at[r]) THEN lock \ {at[r]} ELSE lock)
    /\ UNCHANGED <<aside, tick, history, status, waiting, listening>>

\* The account is paused, or it or its credential cannot be read.
LoadFails(r) ==
    /\ pc[r] \in {"load", "mark"}
    /\ Leave(r)
    /\ Remember(r, TRUE)
    /\ UNCHANGED <<aside, tick, history, status, listening>>

\* setSyncStatus(accountId, "syncing")
Mark(r) ==
    /\ pc[r] = "mark"
    /\ GoTo(r, at[r], "work")
    /\ status' = [status EXCEPT ![at[r]] = "syncing"]
    /\ interrupted' = interrupted \ {at[r]}
    /\ UNCHANGED <<aside, tick, waiting, listening, lock, events, quiet>>

Finish(r) ==
    /\ pc[r] = "work"
    /\ status' = [status EXCEPT ![at[r]] = "ready"]
    /\ Leave(r)
    /\ Remember(r, FALSE)
    /\ UNCHANGED <<aside, tick, history, listening>>

FailSilently(r) ==
    /\ pc[r] = "work"
    /\ Leave(r)
    /\ Remember(r, TRUE)
    /\ UNCHANGED <<aside, tick, history, status, listening>>

\* The server cannot be reached, refuses, or a time limit passes.
Fail(r) ==
    /\ pc[r] = "work"
    /\ status' = [status EXCEPT ![at[r]] = "error"]
    /\ Leave(r)
    /\ Remember(r, TRUE)
    /\ UNCHANGED <<aside, tick, history, listening>>

-----------------------------------------------------------------------------
(* The tick.                                                               *)

\* A timer fires; the flags are looked at and set in one stretch. The back-off
\* is compared with the time at which the tick began.
TickBegin(t) ==
    /\ t \in timers
    /\ timers' = timers \ ({"initial"} \cap {t})
    /\ enabled /\ ~ticking
    /\ ticking' = TRUE
    /\ left' = Accounts \ waiting
    /\ GoTo(Tick, NoAccount, "list")
    /\ UNCHANGED <<history, kind, settings, status, enabled, initial, stopping, waiting,
                   listening, lock, visit, restore, dump>>

\* The accounts are listed with their statuses, and listeners begin.
TickLists ==
    /\ pc[Tick] = "list"
    /\ GoTo(Tick, NoAccount, "off")
    /\ left' = {a \in left : status[a] # "paused"}
    /\ listening' = (IF settings THEN listening \cup {a \in Exchange : status[a] # "paused"}
                     ELSE {})
    /\ UNCHANGED <<aside, history, status, ticking, waiting, lock>>

\* A listener finds its account paused or synchronisation off, and ends.
ListenerEnds(a) ==
    /\ a \in listening
    /\ status[a] = "paused" \/ ~settings
    /\ listening' = listening \ {a}
    /\ UNCHANGED <<aside, tick, run, history, status, waiting>>

\* The initial timer fires while a tick runs (the flag Enabled is set then).
TickRefused ==
    /\ "initial" \in timers /\ ticking
    /\ timers' = timers \ {"initial"}
    /\ UNCHANGED <<syncing, history, kind, settings, status, enabled, initial, stopping,
                   visit, restore, dump>>

\* The next account: passed over when somebody synchronises it already.
\* runMailSync reads the account before it locks, syncCalDavAccount locks at once.
TickTakes(a) ==
    /\ ticking /\ pc[Tick] = "off"
    /\ a \in left
    /\ ~stopping
    /\ left' = left \ {a}
    /\ \/ a \in lock /\ UNCHANGED <<at, pc, lock>>
       \/ a \notin lock /\ kind = "mail" /\ GoTo(Tick, a, "asked") /\ UNCHANGED lock
       \/ /\ a \notin lock /\ kind = "calendar" /\ GoTo(Tick, a, "load")
          /\ lock' = lock \cup {a}
    /\ UNCHANGED <<aside, history, status, ticking, waiting, listening>>

TickNeverEnds ==
    /\ ticking /\ pc[Tick] = "off"
    /\ left = {}
    /\ left' = {}
    /\ UNCHANGED <<aside, run, history, status, ticking, waiting, listening>>

TickEnd ==
    /\ ticking /\ pc[Tick] = "off"
    /\ left = {} \/ stopping
    /\ ticking' = FALSE
    /\ left' = {}
    /\ UNCHANGED <<aside, run, history, status, waiting, listening>>

\* nextAttemptAt passes.
BackoffEnds(a) ==
    /\ a \in waiting
    /\ waiting' = waiting \ {a}
    /\ UNCHANGED <<aside, tick, run, history, status, listening>>

-----------------------------------------------------------------------------
(* Users, the restore job and crashes.                                     *)

\* setAccountPaused; for calendars, the switch of an Exchange connection.
Pausable(a) == kind = "mail" \/ a \in Exchange

Pause(a) ==
    /\ Event
    /\ Pausable(a) /\ status[a] # "paused"
    /\ status' = [status EXCEPT ![a] = "paused"]
    /\ UNCHANGED <<aside, syncing, quiet, interrupted>>

Resume(a) ==
    /\ Event
    /\ Pausable(a) /\ status[a] = "paused"
    /\ status' = [status EXCEPT ![a] = "ready"]
    /\ UNCHANGED <<aside, syncing, quiet, interrupted>>

\* pg_dump of a backup job reads the accounts.
Dump ==
    /\ Event
    /\ restore = "off"
    /\ dump' = status
    /\ UNCHANGED <<syncing, memory, kind, settings, status, visit, restore>>
    /\ UNCHANGED <<quiet, interrupted>>

\* stop...SyncScheduler, up to its first wait.
StopBegin ==
    /\ Event
    /\ restore = "off"
    /\ restore' = "stopping"
    /\ enabled' = FALSE
    /\ timers' = {}
    /\ initial' = FALSE
    /\ stopping' = (kind = "calendar")
    /\ listening' = {}
    /\ UNCHANGED <<tick, waiting, run, kind, settings, status, visit, dump>>
    /\ UNCHANGED <<quiet, interrupted>>

StopAtOnce ==
    /\ restore = "stopping"
    /\ restore' = "replacing"
    /\ waiting' = {}
    /\ stopping' = FALSE
    /\ quiet' = ~enabled
    /\ UNCHANGED <<tick, run, listening, kind, settings, status, enabled, timers, initial,
                   visit, dump, events, interrupted>>

\* No tick runs any more. Ensured in the meantime, the scheduler is not quiet.
StopDone ==
    /\ restore = "stopping"
    /\ ~ticking
    /\ restore' = "replacing"
    /\ waiting' = {}
    /\ stopping' = FALSE
    /\ quiet' = ~enabled
    /\ UNCHANGED <<tick, run, listening, kind, settings, status, enabled, timers, initial,
                   visit, dump, events, interrupted>>

\* The tick outlasts the time limit, and the restore fails.
StopFails ==
    /\ restore = "stopping"
    /\ ticking
    /\ restore' = "off"
    /\ UNCHANGED <<syncing, memory, history, kind, settings, status, visit, dump>>

\* pg_restore replaces the rows of the accounts.
Replace ==
    /\ restore = "replacing"
    /\ restore' = "off"
    /\ status' = dump
    /\ interrupted' = {a \in Accounts : dump[a] = "syncing"}
    /\ UNCHANGED <<syncing, memory, kind, settings, visit, dump, events, quiet>>

\* The process ends and starts again: what is in memory is lost.
Crash ==
    /\ Event
    /\ enabled' = FALSE
    /\ timers' = {}
    /\ initial' = FALSE
    /\ stopping' = FALSE
    /\ ticking' = FALSE
    /\ left' = {}
    /\ waiting' = {}
    /\ listening' = {}
    /\ lock' = {}
    /\ at' = [r \in Runners |-> NoAccount]
    /\ pc' = [r \in Runners |-> "off"]
    /\ visit' = [v \in Visitors |-> NotRead]
    /\ restore' = "off"
    /\ quiet' = FALSE
    /\ interrupted' = {a \in Accounts : status[a] = "syncing"}
    /\ UNCHANGED <<kind, settings, status, dump>>

-----------------------------------------------------------------------------
CallerStep(c) ==
    \/ \E a \in Accounts : AskByHand(c, a) \/ AskByJob(c, a) \/ AskByNotice(c, a)

RunnerStep(r) ==
    Lock(r) \/ Load(r) \/ LoadFails(r) \/ Mark(r) \/ Finish(r) \/ Fail(r)

TickStep ==
    \/ \E t \in {"interval", "initial"} : TickBegin(t)
    \/ TickRefused \/ TickLists
    \/ \E a \in Accounts : TickTakes(a)
    \/ TickEnd

SchedulerNext ==
    \/ \E v \in Visitors : ReadSettings(v) \/ SaveSettings(v) \/ Ensure(v)
    \/ \E c \in Callers : CallerStep(c)
    \/ \E r \in Runners : RunnerStep(r)
    \/ TickStep
    \/ \E a \in Accounts : BackoffEnds(a) \/ ListenerEnds(a) \/ Pause(a) \/ Resume(a)
    \/ Dump \/ StopBegin \/ StopDone \/ StopFails \/ Replace \/ Crash

SchedulerSpec == SchedulerInit /\ [][SchedulerNext]_schedulerVars

\* Pages are open (they poll every ten seconds), timers fire, time passes,
\* and every sync and every stop has a time limit.
Fairness ==
    /\ \A v \in Visitors : WF_schedulerVars(ReadSettings(v)) /\ WF_schedulerVars(Ensure(v))
    /\ \A r \in Runners : WF_schedulerVars(RunnerStep(r))
    /\ WF_schedulerVars(TickStep)
    /\ \A a \in Accounts : WF_schedulerVars(BackoffEnds(a))
    /\ WF_schedulerVars(StopDone \/ StopFails) /\ WF_schedulerVars(Replace)

FairSchedulerSpec == SchedulerSpec /\ Fairness

-----------------------------------------------------------------------------
Syncs(r, a) == at[r] = a /\ pc[r] \in {"mark", "work"}

\* An account is synchronised by one runner at a time, whether a user, a job, a
\* notification or the tick began (storage-and-sync.md:51). For calendars this is
\* the promise of CalendarSyncAlreadyRunningError, which leaky ones do not keep.
OneSyncPerAccount ==
    \A r, s \in Runners : \A a \in Accounts :
        Syncs(r, a) /\ Syncs(s, a) /\ r # s => LeakyHere(a)

\* An account shown as syncing is being synchronised: whoever sets that status
\* also ends it, unless a crash or a restored backup left it behind. Both routes
\* refuse to synchronise an account in this status.
SyncingHasSync ==
    \A a \in Accounts :
        status[a] = "syncing" =>
            a \in interrupted \/ \E r \in Runners : at[r] = a /\ pc[r] = "work"

\* When the stop has succeeded, no tick runs until the scheduler is ensured
\* again, however timers, flags and a running tick met.
StoppedIsQuiet == quiet => ~ticking /\ timers = {}

\* A mail account paused while no sync is past its look at the status is left
\* alone until the user ends the pause, although the tick goes by the statuses it
\* listed, and requests, jobs and notifications by older readings still.
PauseHolds ==
    [][\A a \in Accounts :
          /\ kind = "mail" /\ status[a] = "paused"
          /\ \A r \in Runners : ~Syncs(r, a)
          => /\ \A r \in Runners : ~Syncs(r, a)'
             /\ status'[a] = "paused" \/ events' # events \/ restore = "replacing"]_schedulerVars

\* What a user who pauses an account expects (storage-and-sync.md:38).
PausedStaysPaused ==
    [][\A a \in Accounts :
          status[a] = "paused" /\ restore # "replacing" /\ events' = events
          => status'[a] = "paused"]_schedulerVars

\* While the database is being replaced nothing is synchronised
\* (backup-service.ts:656 and the warning in :1150).
NoSyncWhileReplacing ==
    restore = "replacing" => \A r \in Runners : pc[r] # "work"

\* While synchronisation stays switched on, an account that is not paused is
\* synchronised, or at least tried, again and again: no crash, failed account,
\* back-off, stop or restore leaves the scheduler standing.
AccountsKeepSyncing ==
    \A a \in Accounts :
        <>[](settings /\ status[a] # "paused")
            => []<>(\E r \in Runners : at[r] = a /\ pc[r] # "off")
=============================================================================
