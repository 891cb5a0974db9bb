--------------------------- MODULE MailSyncProofs ---------------------------
(* Proofs about SyncScheduler and ImapSync.  The schedulers, for any number  *)
(* of accounts, callers and visitors and for every bound of the events: one  *)
(* sync of an account at a time, a true status, a quiet stop, a pause that   *)
(* holds.  One sync of an IMAP account, for any folders, UIDs, windows and   *)
(* bounds: its types, that only rows of messages that are gone leave the     *)
(* index, and that the cursors keep their promise.                           *)
EXTENDS SyncScheduler, ImapSync, FiniteSetTheorems, WellFoundedInduction, TLAPS

-----------------------------------------------------------------------------
(* SyncScheduler: what a runner is at.                                       *)

\* A runner that is past asking names an account.
Named == \A r \in Runners : pc[r] \notin {"off", "list"} => at[r] \in Accounts

SchedulerTyped == SchedulerTypeOK /\ Named

-----------------------------------------------------------------------------
(* Types.                                                                  *)

LEMMA InitSchedulerTyped == SchedulerInit => SchedulerTyped
<1> SUFFICES ASSUME SchedulerInit PROVE SchedulerTyped  OBVIOUS
<1>1. /\ pc \in [Runners -> Steps]
      /\ at \in [Runners -> Accounts \cup {NoAccount}]
      /\ status \in [Accounts -> Statuses]
      /\ visit \in [Visitors -> {"off", "on", NotRead}]
  BY DEF SchedulerInit, Steps, Statuses
<1>2. events \in 0..MaxEvents
  BY SchedulerAssumption DEF SchedulerInit
<1>3. QED BY <1>1, <1>2 DEF SchedulerInit, SchedulerTyped, SchedulerTypeOK, Named

LEMMA GoToTyped ==
    ASSUME SchedulerTyped, NEW r \in Runners,
           NEW a \in Accounts \cup {NoAccount}, NEW step \in Steps,
           GoTo(r, a, step), step \notin {"off", "list"} => a \in Accounts
    PROVE  /\ at' \in [Runners -> Accounts \cup {NoAccount}]
           /\ pc' \in [Runners -> Steps]
           /\ Named'
BY DEF SchedulerTyped, SchedulerTypeOK, Named, GoTo

LEMMA LeaveTyped ==
    ASSUME SchedulerTyped, NEW r \in Runners, Leave(r)
    PROVE  /\ at' \in [Runners -> Accounts \cup {NoAccount}]
           /\ pc' \in [Runners -> Steps]
           /\ lock' \subseteq Accounts
           /\ Named'
BY DEF SchedulerTyped, SchedulerTypeOK, Named, Leave, Steps

LEMMA RememberTyped ==
    ASSUME SchedulerTyped, NEW r \in Runners, NEW failed \in BOOLEAN, Remember(r, failed),
           at[r] \in Accounts
    PROVE  waiting' \subseteq Accounts
BY DEF SchedulerTyped, SchedulerTypeOK, Remember

LEMMA RunnerStepTyped ==
    ASSUME SchedulerTyped, NEW r \in Runners, RunnerStep(r)
    PROVE  SchedulerTyped'
<1> USE DEF memory, tick, run, syncing, aside, history
<1>0. at[r] \in Accounts
  BY DEF RunnerStep, Lock, Load, LoadFails, Mark, Finish, Fail, SchedulerTyped, Named
<1>1. CASE Lock(r)
  <2>1. lock' \subseteq Accounts
    BY <1>0, <1>1, LeaveTyped DEF Lock, SchedulerTyped, SchedulerTypeOK
  <2>2. /\ at' \in [Runners -> Accounts \cup {NoAccount}] /\ pc' \in [Runners -> Steps]
        /\ Named'
    BY <1>0, <1>1, LeaveTyped, GoToTyped DEF Lock, Steps
  <2>3. QED BY <1>1, <2>1, <2>2 DEF Lock, SchedulerTyped, SchedulerTypeOK
<1>2. CASE Load(r)
  <2>1. lock' \subseteq Accounts
    BY <1>2 DEF Load, SchedulerTyped, SchedulerTypeOK
  <2>2. /\ at' \in [Runners -> Accounts \cup {NoAccount}] /\ pc' \in [Runners -> Steps]
        /\ Named'
    BY <1>0, <1>2, GoToTyped DEF Load, Steps
  <2>3. QED BY <1>2, <2>1, <2>2 DEF Load, SchedulerTyped, SchedulerTypeOK
<1>3. CASE LoadFails(r)
  BY <1>0, <1>3, LeaveTyped, RememberTyped DEF LoadFails, SchedulerTyped, SchedulerTypeOK
<1>4. CASE Mark(r)
  <2>1. status' \in [Accounts -> Statuses] /\ interrupted' \subseteq Accounts
    BY <1>4 DEF Mark, SchedulerTyped, SchedulerTypeOK, Statuses
  <2>2. /\ at' \in [Runners -> Accounts \cup {NoAccount}] /\ pc' \in [Runners -> Steps]
        /\ Named'
    BY <1>0, <1>4, GoToTyped DEF Mark, Steps
  <2>3. QED BY <1>4, <2>1, <2>2 DEF Mark, SchedulerTyped, SchedulerTypeOK
<1>5. CASE Finish(r) \/ Fail(r)
  <2>1. status' \in [Accounts -> Statuses]
    BY <1>5 DEF Finish, Fail, SchedulerTyped, SchedulerTypeOK, Statuses
  <2>2. waiting' \subseteq Accounts
    BY <1>0, <1>5, RememberTyped DEF Finish, Fail
  <2>3. QED BY <1>5, <2>1, <2>2, LeaveTyped DEF Finish, Fail, SchedulerTyped, SchedulerTypeOK
<1>6. QED BY <1>1, <1>2, <1>3, <1>4, <1>5 DEF RunnerStep

LEMMA TickStepTyped ==
    ASSUME SchedulerTyped, TickStep
    PROVE  SchedulerTyped'
<1> USE DEF memory, tick, run, syncing, aside, history
<1>0. Tick \in Runners
  BY DEF Runners
<1>1. CASE \E t \in {"interval", "initial"} : TickBegin(t)
  <2>1. PICK t \in {"interval", "initial"} : TickBegin(t)  BY <1>1
  <2>2. /\ at' \in [Runners -> Accounts \cup {NoAccount}] /\ pc' \in [Runners -> Steps]
        /\ Named'
    BY <1>0, <2>1, GoToTyped DEF TickBegin, Steps
  <2>3. QED BY <2>1, <2>2 DEF TickBegin, SchedulerTyped, SchedulerTypeOK
<1>2. CASE TickRefused
  BY <1>2 DEF TickRefused, SchedulerTyped, SchedulerTypeOK, Named
<1>3. CASE TickLists
  <2>1. /\ at' \in [Runners -> Accounts \cup {NoAccount}] /\ pc' \in [Runners -> Steps]
        /\ Named'
    BY <1>0, <1>3, GoToTyped DEF TickLists, Steps
  <2>2. listening' \subseteq Exchange /\ left' \subseteq Accounts
    BY <1>3 DEF TickLists, SchedulerTyped, SchedulerTypeOK
  <2>3. QED BY <1>3, <2>1, <2>2 DEF TickLists, SchedulerTyped, SchedulerTypeOK
<1>4. CASE \E a \in Accounts : TickTakes(a)
  <2>1. PICK a \in Accounts : TickTakes(a)  BY <1>4
  <2>2. /\ at' \in [Runners -> Accounts \cup {NoAccount}] /\ pc' \in [Runners -> Steps]
        /\ Named'
    BY <1>0, <2>1, GoToTyped DEF TickTakes, Steps, SchedulerTyped, SchedulerTypeOK, Named
  <2>3. lock' \subseteq Accounts
    BY <2>1 DEF TickTakes, SchedulerTyped, SchedulerTypeOK
  <2>4. QED BY <2>1, <2>2, <2>3 DEF TickTakes, SchedulerTyped, SchedulerTypeOK
<1>5. CASE TickEnd
  BY <1>5 DEF TickEnd, SchedulerTyped, SchedulerTypeOK, Named
<1>6. QED BY <1>1, <1>2, <1>3, <1>4, <1>5 DEF TickStep

LEMMA CallerTyped ==
    ASSUME SchedulerTyped, NEW c \in Callers, CallerStep(c)
    PROVE  SchedulerTyped'
<1> USE DEF memory, tick, run, syncing, aside, history
<1>1. PICK a \in Accounts : AskByHand(c, a) \/ AskByJob(c, a) \/ AskByNotice(c, a)
  BY DEF CallerStep
<1>2. /\ at' \in [Runners -> Accounts \cup {NoAccount}] /\ pc' \in [Runners -> Steps]
      /\ Named'
  <2>1. c \in Runners  BY DEF Runners
  <2>2. QED BY <1>1, <2>1, GoToTyped DEF AskByHand, AskByJob, AskByNotice, Steps
<1>3. lock' \subseteq Accounts
  BY <1>1 DEF AskByHand, AskByJob, AskByNotice, SchedulerTyped, SchedulerTypeOK
<1>4. QED BY <1>1, <1>2, <1>3
  DEF AskByHand, AskByJob, AskByNotice, SchedulerTyped, SchedulerTypeOK

LEMMA SchedulerStepTyped ==
    ASSUME SchedulerTyped, [SchedulerNext]_schedulerVars
    PROVE  SchedulerTyped'
<1> USE SchedulerAssumption DEF memory, tick, run, syncing, aside, history, Event
<1>1. CASE \E v \in Visitors : ReadSettings(v) \/ SaveSettings(v) \/ Ensure(v)
  <2>1. PICK v \in Visitors : ReadSettings(v) \/ SaveSettings(v) \/ Ensure(v)  BY <1>1
  <2>2. visit' \in [Visitors -> {"off", "on", NotRead}]
    BY <2>1 DEF ReadSettings, SaveSettings, Ensure, SchedulerTyped, SchedulerTypeOK
  <2>3. timers' \subseteq {"interval", "initial"}
    BY <2>1 DEF ReadSettings, SaveSettings, Ensure, SchedulerTyped, SchedulerTypeOK
  <2>4. /\ enabled' \in BOOLEAN /\ initial' \in BOOLEAN /\ quiet' \in BOOLEAN
        /\ stopping' \in BOOLEAN /\ settings' \in BOOLEAN
    BY <2>1 DEF ReadSettings, SaveSettings, Ensure, SchedulerTyped, SchedulerTypeOK
  <2>5. events' \in 0..MaxEvents
    BY <2>1 DEF ReadSettings, SaveSettings, Ensure, SchedulerTyped, SchedulerTypeOK
  <2>6. UNCHANGED <<kind, status, ticking, left, waiting, listening, lock, at, pc, restore,
                    dump, interrupted>>
    BY <2>1 DEF ReadSettings, SaveSettings, Ensure
  <2>7. QED BY <2>2, <2>3, <2>4, <2>5, <2>6 DEF SchedulerTyped, SchedulerTypeOK, Named
<1>2. CASE \E a \in Accounts : BackoffEnds(a) \/ ListenerEnds(a)
  BY <1>2 DEF BackoffEnds, ListenerEnds, SchedulerTyped, SchedulerTypeOK, Named
<1>3. CASE \E a \in Accounts : Pause(a) \/ Resume(a)
  <2>1. status' \in [Accounts -> Statuses] /\ events' \in 0..MaxEvents
    BY <1>3 DEF Pause, Resume, SchedulerTyped, SchedulerTypeOK, Statuses
  <2>2. UNCHANGED <<kind, settings, enabled, timers, initial, stopping, ticking, left, waiting,
                    listening, lock, at, pc, visit, restore, dump, quiet, interrupted>>
    BY <1>3 DEF Pause, Resume
  <2>3. QED BY <2>1, <2>2 DEF SchedulerTyped, SchedulerTypeOK, Named
<1>4. CASE Dump
  BY <1>4 DEF Dump, SchedulerTyped, SchedulerTypeOK, Named
<1>5. CASE StopBegin
  <2>1. events' \in 0..MaxEvents /\ stopping' \in BOOLEAN
    BY <1>5 DEF StopBegin, SchedulerTyped, SchedulerTypeOK
  <2>2. UNCHANGED <<kind, settings, status, ticking, left, waiting, lock, at, pc, visit, dump,
                    quiet, interrupted>>
    BY <1>5 DEF StopBegin
  <2>3. QED BY <1>5, <2>1, <2>2 DEF StopBegin, SchedulerTyped, SchedulerTypeOK, Named
<1>6. CASE StopDone
  BY <1>6 DEF StopDone, SchedulerTyped, SchedulerTypeOK, Named
<1>7. CASE StopFails \/ Replace
  BY <1>7 DEF StopFails, Replace, SchedulerTyped, SchedulerTypeOK, Named
<1>8. CASE Crash
  <2>1. events' \in 0..MaxEvents
    BY <1>8 DEF Crash, SchedulerTyped, SchedulerTypeOK
  <2>2. pc' \in [Runners -> Steps] /\ \A r \in Runners : pc'[r] = "off"
    BY <1>8 DEF Crash, Steps
  <2>3. QED BY <1>8, <2>1, <2>2 DEF Crash, SchedulerTyped, SchedulerTypeOK, Named
<1>9. CASE UNCHANGED schedulerVars
  BY <1>9 DEF schedulerVars, SchedulerTyped, SchedulerTypeOK, Named
<1>10. QED
  BY <1>1, <1>2, <1>3, <1>4, <1>5, <1>6, <1>7, <1>8, <1>9,
     RunnerStepTyped, TickStepTyped, CallerTyped DEF SchedulerNext

LEMMA SchedulerAlwaysTyped == SchedulerSpec => []SchedulerTyped
BY InitSchedulerTyped, SchedulerStepTyped, PTL DEF SchedulerSpec

\* Flags, locks and statuses keep their types, whoever syncs, stops or restores.
THEOREM SchedulerTypeCorrect == SchedulerSpec => []SchedulerTypeOK
<1>1. SchedulerTyped => SchedulerTypeOK
  BY DEF SchedulerTyped
<1>2. QED BY <1>1, SchedulerAlwaysTyped, PTL
-----------------------------------------------------------------------------
(* Locks.                                                                  *)

\* Who holds the lock of an account is in the set of the active ones, alone.
LockHeld == \A r \in Runners : Holds(r) => at[r] \in lock

LockSingle ==
    \A r, s \in Runners : Holds(r) /\ Holds(s) /\ at[r] = at[s] => r = s

Locked == LockHeld /\ LockSingle

\* Every runner but r stays where it is, and kind is fixed.
Alone(r) ==
    /\ kind' = kind
    /\ \A s \in Runners : s # r => at'[s] = at[s] /\ pc'[s] = pc[s]

LEMMA KeepsLock ==
    ASSUME SchedulerTyped, Locked, NEW r \in Runners, Alone(r),
           \/ /\ Holds(r)' => Holds(r) /\ at'[r] = at[r]
              /\ lock' \in {lock, IF Holds(r) THEN lock \ {at[r]} ELSE lock}
              /\ Holds(r)' => lock' = lock
           \/ /\ at'[r] \notin lock
              /\ lock' = lock \cup {at'[r]}
              /\ ~Holds(r)
    PROVE  Locked'
<1>1. \A s \in Runners : s # r => (Holds(s)' <=> Holds(s)) /\ at'[s] = at[s]
  BY DEF Alone, Holds, LeakyHere
<1>2. QED BY <1>1 DEF Locked, LockHeld, LockSingle

LEMMA MoveAlone ==
    ASSUME SchedulerTyped, NEW r \in Runners, kind' = kind, NEW a, NEW step,
           GoTo(r, a, step) \/ Leave(r)
    PROVE  Alone(r)
BY DEF SchedulerTyped, SchedulerTypeOK, GoTo, Leave, Alone

LEMMA MovedTo ==
    ASSUME SchedulerTyped, NEW r \in Runners, NEW a, NEW step, GoTo(r, a, step)
    PROVE  at'[r] = a /\ pc'[r] = step
BY DEF SchedulerTyped, SchedulerTypeOK, GoTo

LEMMA LeftNothing ==
    ASSUME SchedulerTyped, NEW r \in Runners, Leave(r)
    PROVE  pc'[r] = "off" /\ ~Holds(r)'
BY DEF SchedulerTyped, SchedulerTypeOK, Leave, Holds

LEMMA RunnerStepLocked ==
    ASSUME SchedulerTyped, Locked, NEW r \in Runners, RunnerStep(r)
    PROVE  Locked'
<1> USE DEF memory, tick, run, syncing, aside, history
<1>0. kind' = kind
  BY DEF RunnerStep, Lock, Load, LoadFails, Mark, Finish, Fail
<1>1. CASE Leave(r)
  <2>1. Alone(r)
    BY <1>0, <1>1, MoveAlone
  <2>2. ~Holds(r)'
    BY <1>1, LeftNothing
  <2>3. lock' = IF Holds(r) THEN lock \ {at[r]} ELSE lock
    BY <1>1 DEF Leave
  <2>4. QED BY <2>1, <2>2, <2>3, KeepsLock
<1>2. CASE Lock(r) /\ ~Leave(r)
  <2>1. /\ at[r] \notin lock /\ GoTo(r, at[r], "load") /\ pc[r] = "asked"
        /\ lock' = lock \cup {at[r]}
    BY <1>2 DEF Lock
  <2>2. Alone(r) /\ at'[r] = at[r]
    BY <1>0, <2>1, MoveAlone, MovedTo
  <2>3. ~Holds(r)
    BY <2>1 DEF Holds
  <2>4. QED BY <2>1, <2>2, <2>3, KeepsLock
<1>3. CASE Load(r)
  <2>1. /\ GoTo(r, at[r], "mark") /\ pc[r] = "load"
        /\ lock' = IF LeakyHere(at[r]) THEN lock \ {at[r]} ELSE lock
    BY <1>3 DEF Load
  <2>2. Alone(r) /\ at'[r] = at[r] /\ pc'[r] = "mark"
    BY <1>0, <2>1, MoveAlone, MovedTo
  <2>3. Holds(r) /\ (Holds(r)' => lock' = lock)
    BY <1>0, <2>1, <2>2 DEF Holds, LeakyHere
  <2>4. QED BY <2>1, <2>2, <2>3, KeepsLock
<1>4. CASE Mark(r)
  <2>1. GoTo(r, at[r], "work") /\ pc[r] = "mark" /\ lock' = lock
    BY <1>4 DEF Mark
  <2>2. Alone(r) /\ at'[r] = at[r] /\ pc'[r] = "work"
    BY <1>0, <2>1, MoveAlone, MovedTo
  <2>3. Holds(r)' => Holds(r)
    BY <1>0, <2>1, <2>2 DEF Holds, LeakyHere
  <2>4. QED BY <2>1, <2>2, <2>3, KeepsLock
<1>5. QED BY <1>1, <1>2, <1>3, <1>4 DEF RunnerStep, LoadFails, Finish, Fail

\* Where no runner moves the locks stay as they are.
LEMMA StillLocked ==
    ASSUME Locked, UNCHANGED <<kind, lock, at, pc>>
    PROVE  Locked'
BY DEF Locked, LockHeld, LockSingle, Holds, LeakyHere

\* A runner that holds nothing moves to where it needs no lock, or takes a free one.
LEMMA TakesLock ==
    ASSUME SchedulerTyped, Locked, NEW r \in Runners, NEW a, NEW step, kind' = kind,
           GoTo(r, a, step), pc[r] = "off" \/ pc[r] = "list",
           \/ step \in {"off", "list", "asked"} /\ lock' = lock
           \/ a \notin lock /\ lock' = lock \cup {a}
    PROVE  Locked'
<1>1. Alone(r) /\ at'[r] = a /\ pc'[r] = step
  BY MoveAlone, MovedTo
<1>2. ~Holds(r)
  BY DEF Holds
<1>3. step \in {"off", "list", "asked"} => ~Holds(r)'
  BY <1>1 DEF Holds
<1>4. QED BY <1>1, <1>2, <1>3, KeepsLock

\* The tick is nowhere unless its flag is set.
TickIdle == ~ticking => pc[Tick] = "off"

LEMMA NextTickIdle ==
    ASSUME SchedulerTyped, TickIdle, [SchedulerNext]_schedulerVars
    PROVE  TickIdle'
<1> USE SchedulerAssumption DEF memory, tick, run, syncing, aside, history, Event
<1>0. Tick \in Runners /\ Callers \subseteq Runners
  BY DEF Runners
<1>1. CASE UNCHANGED <<ticking, pc>>
  BY <1>1 DEF TickIdle
<1>2. CASE \E c \in Callers : CallerStep(c)
  BY <1>0, <1>2
  DEF CallerStep, AskByHand, AskByJob, AskByNotice, GoTo, SchedulerTyped, SchedulerTypeOK,
      TickIdle
<1>3. CASE \E r \in Runners : RunnerStep(r)
  <2>1. PICK r \in Runners : RunnerStep(r)  BY <1>3
  <2>2. ticking' = ticking /\ pc[r] # "off"
    BY <2>1 DEF RunnerStep, Lock, Load, LoadFails, Mark, Finish, Fail
  <2>3. r # Tick => pc'[Tick] = pc[Tick]
    BY <1>0, <2>1
    DEF RunnerStep, Lock, Load, LoadFails, Mark, Finish, Fail, GoTo, Leave, SchedulerTyped,
        SchedulerTypeOK
  <2>4. QED BY <2>2, <2>3 DEF TickIdle
<1>4. CASE TickStep
  BY <1>0, <1>4
  DEF TickStep, TickBegin, TickRefused, TickLists, TickTakes, TickEnd, GoTo, SchedulerTyped,
      SchedulerTypeOK,
      TickIdle
<1>5. CASE Crash
  BY <1>0, <1>5 DEF Crash, TickIdle
<1>6. QED
  BY <1>1, <1>2, <1>3, <1>4, <1>5
  DEF SchedulerNext, schedulerVars, ReadSettings, SaveSettings, Ensure, BackoffEnds,
      ListenerEnds, Pause, Resume,
      Dump, StopBegin, StopDone, StopFails, Replace

LEMMA NextLocked ==
    ASSUME SchedulerTyped, TickIdle, Locked, [SchedulerNext]_schedulerVars
    PROVE  Locked'
<1> USE DEF memory, tick, run, syncing, aside, history, Event
<1>0. Tick \in Runners /\ Callers \subseteq Runners
  BY DEF Runners
<1>1. CASE \E v \in Visitors : ReadSettings(v) \/ SaveSettings(v) \/ Ensure(v)
  BY <1>1, StillLocked DEF ReadSettings, SaveSettings, Ensure
<1>2. CASE \E c \in Callers : CallerStep(c)
  <2>1. PICK c \in Callers, a \in Accounts :
           AskByHand(c, a) \/ AskByJob(c, a) \/ AskByNotice(c, a)
    BY <1>2 DEF CallerStep
  <2>2. QED BY <1>0, <2>1, TakesLock DEF AskByHand, AskByJob, AskByNotice
<1>3. CASE \E r \in Runners : RunnerStep(r)
  BY <1>3, RunnerStepLocked
<1>4. CASE TickStep
  <2>1. CASE \E t \in {"interval", "initial"} : TickBegin(t)
    <3>1. PICK t \in {"interval", "initial"} : TickBegin(t)  BY <2>1
    <3>2. pc[Tick] = "off"
      BY <3>1 DEF TickBegin, TickIdle
    <3>3. QED BY <1>0, <3>1, <3>2, TakesLock DEF TickBegin
  <2>2. CASE TickRefused \/ TickEnd
    BY <2>2, StillLocked DEF TickRefused, TickEnd
  <2>3. CASE TickLists
    BY <1>0, <2>3, TakesLock DEF TickLists
  <2>4. CASE \E a \in Accounts : TickTakes(a)
    <3>1. PICK a \in Accounts : TickTakes(a)  BY <2>4
    <3>2. CASE UNCHANGED <<at, pc, lock>>
      BY <3>1, <3>2, StillLocked DEF TickTakes
    <3>3. CASE ~UNCHANGED <<at, pc, lock>>
      BY <1>0, <3>1, <3>3, TakesLock DEF TickTakes
    <3>4. QED BY <3>2, <3>3
  <2>5. QED BY <1>4, <2>1, <2>2, <2>3, <2>4 DEF TickStep
<1>5. CASE Crash
  BY <1>5 DEF Crash, Locked, LockHeld, LockSingle, Holds
<1>6. CASE \E a \in Accounts : BackoffEnds(a) \/ ListenerEnds(a) \/ Pause(a) \/ Resume(a)
  BY <1>6, StillLocked DEF BackoffEnds, ListenerEnds, Pause, Resume
<1>7. CASE Dump \/ StopBegin \/ StopDone \/ StopFails \/ Replace \/ UNCHANGED schedulerVars
  BY <1>7, StillLocked DEF Dump, StopBegin, StopDone, StopFails, Replace, schedulerVars
<1>8. QED BY <1>1, <1>2, <1>3, <1>4, <1>5, <1>6, <1>7 DEF SchedulerNext

\* No two runners synchronise one account, except for calendars whose lock leaks.
THEOREM OneSyncAlways == SchedulerSpec => []OneSyncPerAccount
<1>1. SchedulerInit => Locked /\ TickIdle
  <2> SUFFICES ASSUME SchedulerInit PROVE Locked /\ TickIdle  OBVIOUS
  <2>2. \A r \in Runners : pc[r] = "off"
    BY DEF SchedulerInit
  <2>3. QED BY <2>2 DEF Locked, LockHeld, LockSingle, Holds, TickIdle, Runners
<1>2. Locked => OneSyncPerAccount
  BY DEF Locked, LockSingle, OneSyncPerAccount, Syncs, Holds
<1>3. QED BY <1>1, <1>2, NextLocked, NextTickIdle, SchedulerAlwaysTyped, PTL DEF SchedulerSpec

-----------------------------------------------------------------------------
(* Statuses.                                                               *)

LEMMA NextHasSync ==
    ASSUME SchedulerTyped, TickIdle, SyncingHasSync, [SchedulerNext]_schedulerVars
    PROVE  SyncingHasSync'
<1> USE DEF memory, tick, run, syncing, aside, history, Event
<1>1. SUFFICES ASSUME NEW b \in Accounts, status'[b] = "syncing", b \notin interrupted'
              PROVE  \E r \in Runners : at'[r] = b /\ pc'[r] = "work"
  BY DEF SyncingHasSync
<1>2. ASSUME status[b] = "syncing", b \notin interrupted,
             \A r \in Runners : at[r] = b /\ pc[r] = "work" => at'[r] = b /\ pc'[r] = "work"
      PROVE  \E r \in Runners : at'[r] = b /\ pc'[r] = "work"
  BY <1>2 DEF SyncingHasSync
<1>3. ASSUME status' = status, interrupted' = interrupted,
             NEW r \in Runners, pc[r] # "work", NEW a, NEW step, GoTo(r, a, step) \/ Leave(r)
      PROVE  \E s \in Runners : at'[s] = b /\ pc'[s] = "work"
  BY <1>1, <1>2, <1>3 DEF GoTo, Leave, SchedulerTyped, SchedulerTypeOK
<1>4. ASSUME status' = status, interrupted' = interrupted, UNCHANGED <<at, pc>>
      PROVE  \E s \in Runners : at'[s] = b /\ pc'[s] = "work"
  BY <1>1, <1>2, <1>4
<1>5. CASE \E v \in Visitors : ReadSettings(v) \/ SaveSettings(v) \/ Ensure(v)
  BY <1>4, <1>5 DEF ReadSettings, SaveSettings, Ensure
<1>6. CASE \E c \in Callers : CallerStep(c)
  BY <1>3, <1>6 DEF CallerStep, AskByHand, AskByJob, AskByNotice, Runners
<1>7. CASE \E r \in Runners : RunnerStep(r)
  <2>1. PICK r \in Runners : RunnerStep(r)  BY <1>7
  <2>2. at[r] \in Accounts
    BY <2>1 DEF RunnerStep, Lock, Load, LoadFails, Mark, Finish, Fail, SchedulerTyped, Named
  <2>3. CASE Lock(r) \/ Load(r) \/ LoadFails(r)
    BY <1>3, <2>3 DEF Lock, Load, LoadFails
  <2>4. CASE Mark(r)
    <3>1. CASE b = at[r]
      BY <2>4, <3>1 DEF Mark, GoTo, SchedulerTyped, SchedulerTypeOK
    <3>2. CASE b # at[r]
      BY <1>1, <1>2, <2>4, <3>2 DEF Mark, GoTo, SchedulerTyped, SchedulerTypeOK
    <3>3. QED BY <3>1, <3>2
  <2>5. CASE Finish(r) \/ Fail(r)
    <3>1. b # at[r]
      BY <1>1, <2>2, <2>5 DEF Finish, Fail, SchedulerTyped, SchedulerTypeOK
    <3>2. status[b] = "syncing" /\ interrupted' = interrupted
      BY <1>1, <2>5, <3>1 DEF Finish, Fail, SchedulerTyped, SchedulerTypeOK
    <3>3. QED BY <1>1, <1>2, <2>5, <3>1, <3>2
      DEF Finish, Fail, Leave, SchedulerTyped, SchedulerTypeOK
  <2>6. QED BY <2>1, <2>3, <2>4, <2>5 DEF RunnerStep
<1>8. CASE TickStep
  <2>1. Tick \in Runners  BY DEF Runners
  <2>2. CASE \E t \in {"interval", "initial"} : TickBegin(t)
    BY <1>1, <1>3, <2>1, <2>2 DEF TickBegin, TickIdle
  <2>3. CASE TickRefused \/ TickEnd
    BY <1>4, <2>3 DEF TickRefused, TickEnd
  <2>4. CASE TickLists
    BY <1>3, <2>1, <2>4 DEF TickLists
  <2>5. CASE \E a \in Accounts : TickTakes(a)
    BY <1>3, <1>4, <2>1, <2>5 DEF TickTakes
  <2>6. QED BY <1>8, <2>2, <2>3, <2>4, <2>5 DEF TickStep
<1>9. CASE \E a \in Accounts : Pause(a) \/ Resume(a)
  BY <1>1, <1>2, <1>9 DEF Pause, Resume, SchedulerTyped, SchedulerTypeOK
<1>10. CASE \E a \in Accounts : BackoffEnds(a) \/ ListenerEnds(a)
  BY <1>4, <1>10 DEF BackoffEnds, ListenerEnds
<1>11. CASE Dump \/ StopBegin \/ StopDone \/ StopFails \/ UNCHANGED schedulerVars
  BY <1>4, <1>11 DEF Dump, StopBegin, StopDone, StopFails, schedulerVars
<1>12. CASE Replace \/ Crash
  BY <1>1, <1>12 DEF Replace, Crash
<1>13. QED BY <1>5, <1>6, <1>7, <1>8, <1>9, <1>10, <1>11, <1>12 DEF SchedulerNext
\* An account shown as syncing is being synchronised, unless a crash or a restored
\* backup left that status behind.
THEOREM SyncingAlwaysHasSync == SchedulerSpec => []SyncingHasSync
<1>1. SchedulerInit => SyncingHasSync /\ TickIdle
  BY DEF SchedulerInit, SyncingHasSync, TickIdle, Runners
<1>2. QED BY <1>1, NextHasSync, NextTickIdle, SchedulerAlwaysTyped, PTL DEF SchedulerSpec

-----------------------------------------------------------------------------
(* Stops.                                                                  *)

\* Timers are armed only while the scheduler is enabled.
Stopped == StoppedIsQuiet /\ (~enabled => timers = {})

LEMMA NextStopped ==
    ASSUME SchedulerTyped, Stopped, [SchedulerNext]_schedulerVars
    PROVE  Stopped'
<1> USE DEF memory, tick, run, syncing, aside, history, Event, Stopped, StoppedIsQuiet
<1>1. CASE UNCHANGED <<quiet, ticking, timers, enabled>>
  BY <1>1
<1>2. CASE \E v \in Visitors : ReadSettings(v) \/ SaveSettings(v) \/ Ensure(v)
  <2>1. CASE \E v \in Visitors : ReadSettings(v) \/ SaveSettings(v)
    BY <2>1 DEF ReadSettings, SaveSettings
  <2>2. CASE \E v \in Visitors : Ensure(v)
    <3>1. PICK v \in Visitors : Ensure(v)  BY <2>2
    <3>2. ticking' = ticking /\ (enabled' <=> visit[v] = "on")
      BY <3>1 DEF Ensure
    <3>3. visit[v] = "off" => timers' = {}
      BY <3>1 DEF Ensure
    <3>4. quiet' => quiet /\ visit[v] = "off"
      BY <3>1 DEF Ensure
    <3>5. visit[v] \in {"off", "on"}
      BY <3>1 DEF Ensure, SchedulerTyped, SchedulerTypeOK
    <3>6. QED BY <3>2, <3>3, <3>4, <3>5
  <2>3. QED BY <1>2, <2>1, <2>2
<1>3. CASE TickStep
  BY <1>3 DEF TickStep, TickBegin, TickRefused, TickLists, TickTakes, TickEnd
<1>4. CASE StopBegin \/ StopDone \/ Crash
  <2>1. CASE StopBegin
    BY <2>1 DEF StopBegin
  <2>2. CASE StopDone
    <3>1. timers' = timers /\ ticking' = ticking /\ ~ticking /\ enabled' = enabled
      BY <2>2 DEF StopDone
    <3>2. quiet' => ~enabled
      BY <2>2 DEF StopDone
    <3>3. QED BY <3>1, <3>2
  <2>3. CASE Crash
    BY <2>3 DEF Crash
  <2>4. QED BY <1>4, <2>1, <2>2, <2>3
<1>5. QED
  BY <1>1, <1>2, <1>3, <1>4
  DEF SchedulerNext, schedulerVars, CallerStep, AskByHand, AskByJob, AskByNotice, RunnerStep,
      Lock, Load, LoadFails,
      Mark, Finish, Fail, BackoffEnds, ListenerEnds, Pause, Resume, Dump, StopFails, Replace

\* After a stop has succeeded no tick runs and no timer is armed until somebody
\* ensures the scheduler again.
THEOREM StoppedIsAlwaysQuiet == SchedulerSpec => []StoppedIsQuiet
<1>1. SchedulerInit => Stopped
  BY DEF SchedulerInit, Stopped, StoppedIsQuiet
<1>2. Stopped => StoppedIsQuiet
  BY DEF Stopped
<1>3. QED BY <1>1, <1>2, NextStopped, SchedulerAlwaysTyped, PTL DEF SchedulerSpec

-----------------------------------------------------------------------------
(* Pauses.                                                                 *)

\* What PauseHolds says of one step and one account.
PausedAlone(a) ==
    kind = "mail" /\ status[a] = "paused" /\ \A r \in Runners : ~Syncs(r, a)

LeftAlone(a) ==
    /\ \A r \in Runners : ~Syncs(r, a)'
    /\ status'[a] = "paused" \/ events' # events \/ restore = "replacing"

LEMMA StepLeavesPaused ==
    ASSUME SchedulerTyped, SchedulerNext, NEW b \in Accounts, PausedAlone(b)
    PROVE  LeftAlone(b)
<1> USE SchedulerAssumption DEF memory, tick, run, syncing, aside, history
<1>0. \A r \in Runners : at[r] = b => pc[r] \notin {"mark", "work"}
  BY DEF PausedAlone, Syncs
<1>1. ASSUME status' = status, UNCHANGED <<at, pc>>
      PROVE  LeftAlone(b)
  BY <1>0, <1>1 DEF PausedAlone, LeftAlone, Syncs
<1>2. ASSUME status' = status, NEW r \in Runners, NEW a, NEW step,
             \/ Leave(r)
             \/ GoTo(r, a, step) /\ (a # b \/ step \notin {"mark", "work"})
      PROVE  LeftAlone(b)
  BY <1>0, <1>2 DEF GoTo, Leave, PausedAlone, LeftAlone, Syncs, SchedulerTyped, SchedulerTypeOK
<1>3. CASE \E r \in Runners : RunnerStep(r)
  <2>1. PICK r \in Runners : RunnerStep(r)  BY <1>3
  <2>2. CASE Lock(r) \/ LoadFails(r)
    <3>1. status' = status /\ (Leave(r) \/ GoTo(r, at[r], "load"))
      BY <2>2 DEF Lock, LoadFails
    <3>2. QED BY <1>2, <3>1
  <2>3. CASE Load(r)
    <3>1. at[r] # b
      BY <2>3 DEF Load, PausedAlone
    <3>2. QED BY <1>2, <2>3, <3>1 DEF Load
  <2>4. CASE Mark(r) \/ Finish(r) \/ Fail(r)
    <3>1. at[r] # b
      BY <1>0, <2>4 DEF Mark, Finish, Fail
    <3>2. status'[b] = "paused"
      BY <2>4, <3>1 DEF Mark, Finish, Fail, PausedAlone, SchedulerTyped, SchedulerTypeOK
    <3>3. \A s \in Runners : at'[s] = b => pc'[s] \notin {"mark", "work"}
      BY <1>0, <2>4, <3>1 DEF Mark, Finish, Fail, GoTo, Leave, SchedulerTyped, SchedulerTypeOK
    <3>4. QED BY <3>2, <3>3 DEF LeftAlone, Syncs
  <2>5. QED BY <2>1, <2>2, <2>3, <2>4 DEF RunnerStep
<1>4. CASE \E c \in Callers : CallerStep(c)
  BY <1>2, <1>4 DEF CallerStep, AskByHand, AskByJob, AskByNotice, Runners
<1>5. CASE TickStep
  <2>1. Tick \in Runners  BY DEF Runners
  <2>2. CASE (\E t \in {"interval", "initial"} : TickBegin(t)) \/ TickLists
    BY <1>2, <2>1, <2>2 DEF TickBegin, TickLists
  <2>3. CASE TickRefused \/ TickEnd
    BY <1>1, <2>3 DEF TickRefused, TickEnd
  <2>4. CASE \E a \in Accounts : TickTakes(a)
    BY <1>1, <1>2, <2>1, <2>4 DEF TickTakes
  <2>5. QED BY <1>5, <2>2, <2>3, <2>4 DEF TickStep
<1>6. CASE \E v \in Visitors : ReadSettings(v) \/ SaveSettings(v) \/ Ensure(v)
  BY <1>1, <1>6 DEF ReadSettings, SaveSettings, Ensure
<1>7. CASE \E a \in Accounts : BackoffEnds(a) \/ ListenerEnds(a)
  BY <1>1, <1>7 DEF BackoffEnds, ListenerEnds
<1>8. CASE Dump \/ StopBegin \/ StopDone \/ StopFails
  BY <1>1, <1>8 DEF Dump, StopBegin, StopDone, StopFails
<1>9. CASE \E a \in Accounts : Pause(a) \/ Resume(a)
  <2>1. events' # events /\ UNCHANGED <<at, pc>>
    BY <1>9 DEF Pause, Resume, Event, SchedulerTyped, SchedulerTypeOK
  <2>2. QED BY <1>0, <2>1 DEF LeftAlone, Syncs
<1>10. CASE Replace
  BY <1>0, <1>10 DEF Replace, LeftAlone, Syncs
<1>11. CASE Crash
  BY <1>11 DEF Crash, LeftAlone, Syncs, PausedAlone
<1>12. QED BY <1>3, <1>4, <1>5, <1>6, <1>7, <1>8, <1>9, <1>10, <1>11 DEF SchedulerNext

\* A paused mail account that no sync is past looking at is left alone until the
\* pause is ended, whatever older statuses ticks, jobs and notifications go by.
THEOREM PauseAlwaysHolds == SchedulerSpec => PauseHolds
<1>1. SchedulerTyped /\ [SchedulerNext]_schedulerVars
        => [\A a \in Accounts :
              /\ kind = "mail" /\ status[a] = "paused"
              /\ \A r \in Runners : ~Syncs(r, a)
              => /\ \A r \in Runners : ~Syncs(r, a)'
                 /\ status'[a] = "paused" \/ events' # events
                    \/ restore = "replacing"]_schedulerVars
  BY StepLeavesPaused DEF PausedAlone, LeftAlone
<1>2. QED BY <1>1, SchedulerAlwaysTyped, PTL DEF SchedulerSpec, PauseHolds

-----------------------------------------------------------------------------
(* ImapSync.                                                                 *)

(* The types, with what a session keeps to while a folder is open.           *)

Pcs == {"idle", "folder", "initial", "new", "history", "store", "save", "recent", "drop",
        "deep", "saveDeep"}

RemoteRecords == [valid : 1..MaxValidity, next : MinNext..(MaxUid + 1), uids : SUBSET Uids]

SyncRecords ==
  [pc : Pcs, then : Pcs, folder : Folders \cup {0}, left : SUBSET Folders,
   budget : 0..Batch, full : BOOLEAN, valid : 0..MaxValidity, next : 1..(MaxUid + 1),
   cur : CursorRecord, last : 0..MaxUid, back : 0..(MaxUid + 1), complete : BOOLEAN,
   found : SUBSET Uids, range : SUBSET Uids, audited : BOOLEAN, before : 0..MaxUid]

\* A message is below the next number; rows and cursors are of numbers given out.
Numbers(f) ==
  /\ \A u \in remote[f].uids : u < remote[f].next
  /\ \A u \in Uids : local[f][u] <= remote[f].valid
  /\ cursor[f].valid <= remote[f].valid
  /\ cursor[f].valid = 0 => cursor[f].last = 0
  /\ cursor[f].valid = remote[f].valid => cursor[f].last < remote[f].next

\* The folder a session has open is not renumbered, and it is at a step that follows
\* from the one before.
Session ==
  /\ sync.pc \notin {"idle", "folder"} =>
       /\ sync.folder \in Folders
       /\ sync.valid = remote[sync.folder].valid
       /\ sync.next <= remote[sync.folder].next
       /\ MinNext <= sync.next
       /\ sync.last < remote[sync.folder].next
       /\ cursor[sync.folder].valid \in {0, sync.valid}
  /\ sync.pc = "store" => sync.then \in {"history", "save"}
  /\ sync.pc = "drop" => sync.then \in {"deep", "saveDeep"}
  /\ sync.pc \notin {"store", "drop"} => sync.found = {}

Typed ==
  /\ remote \in [Folders -> RemoteRecords]
  /\ local \in [Folders -> [Uids -> 0..MaxValidity]]
  /\ cursor \in [Folders -> CursorRecord]
  /\ full \in BOOLEAN /\ widening \in BOOLEAN
  /\ aborts \in 0..MaxAborts /\ refusals \in 0..MaxRefusals
  /\ sync \in SyncRecords

TypeInv == Typed /\ Session /\ \A f \in Folders : Numbers(f)

\* What a session is about to delete has no message any more.
DropsAreGone ==
  refusals = 0 /\ sync.pc = "drop" =>
    /\ \A u \in sync.range : u < sync.next
    /\ \A u \in sync.range \ sync.found : u \notin remote[sync.folder].uids

\* A folder whose cursor is for other numbers has no row of its present ones.
ResetsAreOld ==
  \A f \in Folders : cursor[f].valid \notin {0, remote[f].valid} =>
    \A u \in Uids : local[f][u] # remote[f].valid

DropInv == DropsAreGone /\ ResetsAreOld

\* What the cursor will promise when it is saved with the values of the session, and
\* that the new mail of this session is there.
Promised(u) ==
  /\ u <= sync.last
  /\ \/ u \notin OldUids /\ (sync.complete \/ (sync.back # 0 /\ sync.back <= u))
     \/ sync.cur.valid # 0 /\ sync.cur.last < u

Working ==
  sync.pc \in {"new", "history", "store", "save"} =>
    \A u \in remote[sync.folder].uids :
      Promised(u) => local[sync.folder][u] = sync.valid \/ u \in sync.found

\* A position of 0 never stands for an empty folder.
Positions ==
  /\ \A f \in Folders : cursor[f].valid # 0 => cursor[f].last > 0
  /\ sync.pc \in {"store", "save"} => sync.last > 0
  /\ sync.pc = "initial" => sync.cur.valid = 0
  /\ sync.pc = "new" => sync.last = sync.cur.last
  /\ sync.pc = "new" \/ sync.pc = "history" \/ (sync.pc = "store" /\ sync.then = "history") =>
       sync.cur.valid # 0 /\ sync.cur.last > 0 /\ sync.last > 0
  /\ sync.pc = "history" \/ (sync.pc = "store" /\ sync.then = "history") => ~sync.complete

CoverInv == Positions /\ (refusals = 0 => Working) /\ CursorCoversIndex

-----------------------------------------------------------------------------
(* Sets of UIDs.                                                             *)

LEMMA MinOf ==
  ASSUME NEW S \in SUBSET Nat, S # {}
  PROVE  Min(S) \in S /\ \A x \in S : Min(S) <= x
<1>1. PICK n \in S : \A m \in S : <<m, n>> \notin OpToRel(<, Nat)
  BY NatLessThanWellFounded, WFMin
<1>2. \A m \in S : ~(m < n)
  BY <1>1 DEF OpToRel
<1>3. \A m \in S : n =< m
  BY <1>2
<1>4. QED BY <1>3 DEF Min

LEMMA MaxOf ==
  ASSUME NEW n \in Nat, NEW S \in SUBSET (0..n), S # {}
  PROVE  Max(S) \in S /\ \A x \in S : x <= Max(S)
<1> DEFINE T == {n - x : x \in S}
<1>0. \A x \in S : x \in Nat /\ x <= n /\ n - x \in Nat
  OBVIOUS
<1>1. T \in SUBSET Nat /\ T # {}
  BY <1>0
<1>2. PICK t \in T : \A y \in T : <<y, t>> \notin OpToRel(<, Nat)
  BY <1>1, NatLessThanWellFounded, WFMin
<1>3. \A y \in T : ~(y < t)
  BY <1>1, <1>2 DEF OpToRel
<1>4. PICK m \in S : t = n - m
  OBVIOUS
<1>5. \A x \in S : m >= x
  <2>1. TAKE x \in S
  <2>2. ~(n - x < n - m)
    BY <1>3, <1>4
  <2>3. QED BY <1>0, <2>2
<1>6. QED BY <1>5 DEF Max

LEMMA UidSets ==
  ASSUME NEW S \in SUBSET Uids
  PROVE  IsFiniteSet(S) /\ Cardinality(S) \in Nat
<1>1. IsFiniteSet(Uids)
  BY SyncAssumption, FS_Interval DEF Uids
<1>2. QED BY <1>1, FS_Subset, FS_CardinalityType

LEMMA SmallerSets ==
  ASSUME NEW S \in SUBSET Uids, NEW T \in SUBSET S
  PROVE  Cardinality(T) <= Cardinality(S)
BY UidSets, FS_Subset

\* The n newest are no more than n, and nothing newer than one of them is left out.
LEMMA NewestOf ==
  ASSUME NEW S \in SUBSET Uids, NEW n \in Nat
  PROVE  /\ Newest(S, n) \in SUBSET S
         /\ Cardinality(Newest(S, n)) \in 0..n
         /\ \A u \in S, w \in Newest(S, n) : w <= u => u \in Newest(S, n)
<1> DEFINE N == Newest(S, n)
           Above(u) == {v \in S : v > u}
<1>1. N \in SUBSET S /\ S \subseteq Nat
  BY SyncAssumption DEF Newest, Uids
<1>2. \A u \in S : Above(u) \in SUBSET Uids /\ Cardinality(Above(u)) \in Nat
  <2>1. TAKE u \in S
  <2>2. Above(u) \in SUBSET Uids
    OBVIOUS
  <2> HIDE DEF Above
  <2>3. QED BY <2>2, UidSets
<1>3. \A u \in S : u \in N <=> Cardinality(Above(u)) < n
  BY DEF Newest
<1> HIDE DEF N
<1>4. ASSUME NEW u \in S, NEW w \in N, w <= u
      PROVE  u \in N
  <2>1. w \in S
    BY <1>1
  <2>2. Above(u) \in SUBSET Above(w)
    <3>1. \A v \in S : v \in Nat /\ (v > u => v > w)
      BY <1>1, <1>4, <2>1
    <3>2. QED BY <3>1
  <2> HIDE DEF Above
  <2>3. Cardinality(Above(u)) <= Cardinality(Above(w))
    BY <1>2, <2>1, <2>2, SmallerSets
  <2>4. QED BY <1>2, <1>3, <2>1, <2>3
<1>5. Cardinality(N) \in 0..n
  <2>1. IsFiniteSet(N) /\ Cardinality(N) \in Nat
    BY <1>1, UidSets
  <2>2. CASE N = {}
    BY <2>2, FS_EmptySet
  <2>3. CASE N # {}
    <3>1. PICK m \in N : \A x \in N : m <= x
      BY <1>1, <2>3, MinOf
    <3>2. N \ {m} \in SUBSET Above(m)
      BY <1>1, <3>1
    <3>3. Cardinality(N \ {m}) = Cardinality(N) - 1
      BY <2>1, FS_RemoveElement
    <3>4. m \in S /\ Cardinality(Above(m)) < n
      BY <1>1, <1>3
    <3> HIDE DEF Above
    <3>5. Cardinality(N \ {m}) <= Cardinality(Above(m))
      BY <1>2, <3>2, <3>4, SmallerSets
    <3>6. QED BY <1>2, <2>1, <3>3, <3>4, <3>5
  <2>4. QED BY <2>2, <2>3
<1>6. QED BY <1>1, <1>4, <1>5 DEF N

\* The same of the n oldest.
LEMMA OldestOf ==
  ASSUME NEW S \in SUBSET Uids, NEW n \in Nat
  PROVE  /\ Oldest(S, n) \in SUBSET S
         /\ Cardinality(Oldest(S, n)) \in 0..n
         /\ \A u \in S, w \in Oldest(S, n) : u <= w => u \in Oldest(S, n)
<1> DEFINE N == Oldest(S, n)
           Below(u) == {v \in S : v < u}
<1>1. N \in SUBSET S /\ S \subseteq 0..MaxUid /\ MaxUid \in Nat
  BY SyncAssumption DEF Oldest, Uids
<1>2. \A u \in S : Below(u) \in SUBSET Uids /\ Cardinality(Below(u)) \in Nat
  <2>1. TAKE u \in S
  <2>2. Below(u) \in SUBSET Uids
    OBVIOUS
  <2> HIDE DEF Below
  <2>3. QED BY <2>2, UidSets
<1>3. \A u \in S : u \in N <=> Cardinality(Below(u)) < n
  BY DEF Oldest
<1> HIDE DEF N
<1>4. ASSUME NEW u \in S, NEW w \in N, u <= w
      PROVE  u \in N
  <2>1. w \in S
    BY <1>1
  <2>2. Below(u) \in SUBSET Below(w)
    <3>1. \A v \in S : v \in Nat /\ (v < u => v < w)
      BY <1>1, <1>4, <2>1
    <3>2. QED BY <3>1
  <2> HIDE DEF Below
  <2>3. Cardinality(Below(u)) <= Cardinality(Below(w))
    BY <1>2, <2>1, <2>2, SmallerSets
  <2>4. QED BY <1>2, <1>3, <2>1, <2>3
<1>5. Cardinality(N) \in 0..n
  <2>1. IsFiniteSet(N) /\ Cardinality(N) \in Nat
    BY <1>1, UidSets
  <2>2. CASE N = {}
    BY <2>2, FS_EmptySet
  <2>3. CASE N # {}
    <3>1. PICK m \in N : \A x \in N : x <= m
      BY <1>1, <2>3, MaxOf
    <3>2. N \ {m} \in SUBSET Below(m)
      BY <1>1, <3>1
    <3>3. Cardinality(N \ {m}) = Cardinality(N) - 1
      BY <2>1, FS_RemoveElement
    <3>4. m \in S /\ Cardinality(Below(m)) < n
      BY <1>1, <1>3
    <3> HIDE DEF Below
    <3>5. Cardinality(N \ {m}) <= Cardinality(Below(m))
      BY <1>2, <3>2, <3>4, SmallerSets
    <3>6. QED BY <1>2, <2>1, <3>3, <3>4, <3>5
  <2>4. QED BY <2>2, <2>3
<1>6. QED BY <1>1, <1>4, <1>5 DEF N

-----------------------------------------------------------------------------
(* What each step of a sync does to the session.                             *)

LEMMA Consts ==
  /\ MaxUid \in Nat /\ MinNext \in 1..MaxUid /\ MaxValidity \in Nat /\ MaxValidity >= 1
  /\ Batch \in Nat /\ RecentWindow \in Nat /\ DeepWindow \in Nat /\ AuditEvery \in Nat
  /\ RecentWindow >= 1 /\ DeepWindow >= 1 /\ AuditEvery >= 1
  /\ Folders \subseteq Nat /\ MaxAborts \in Nat /\ MaxRefusals \in Nat
BY SyncAssumption

LEMMA FirstRecords == IdleSync \in SyncRecords /\ NoCursor \in CursorRecord
<1>1. NoCursor \in CursorRecord
  BY Consts DEF NoCursor, CursorRecord
<1>2. IdleSync \in SyncRecords
  BY <1>1, Consts DEF IdleSync, SyncRecords, Pcs
<1>3. QED BY <1>1, <1>2

LEMMA BeginSession ==
  ASSUME Typed, Begin
  PROVE  /\ sync' \in SyncRecords /\ sync'.pc = "folder" /\ sync'.found = {}
         /\ cursor' \in [Folders -> CursorRecord]
         /\ \A f \in Folders : /\ cursor'[f].valid = cursor[f].valid
                               /\ cursor'[f].last = cursor[f].last
                               /\ cursor'[f].back = cursor[f].back
                               /\ cursor'[f].complete = cursor[f].complete
<1>1. PICK s : s = IdleSync
  OBVIOUS
<1>2. s \in SyncRecords /\ s.found = {}
  BY <1>1, FirstRecords DEF IdleSync
<1>3. sync' = [s EXCEPT !.pc = "folder", !.left = Folders, !.budget = Batch, !.full = full]
  BY <1>1 DEF Begin
<1>4. sync' \in SyncRecords /\ sync'.pc = "folder" /\ sync'.found = {}
  <2>1. full \in BOOLEAN /\ Batch \in 0..Batch /\ Folders \in SUBSET Folders
    BY Consts DEF Typed
  <2>2. "folder" \in Pcs
    BY DEF Pcs
  <2>3. QED BY <1>2, <1>3, <2>1, <2>2 DEF SyncRecords
<1>5. ASSUME NEW c \in CursorRecord
      PROVE  LET d == [c EXCEPT !.wait = IF @ = 0 THEN 0 ELSE @ - 1]
             IN  /\ d \in CursorRecord /\ d.valid = c.valid /\ d.last = c.last
                 /\ d.back = c.back /\ d.complete = c.complete
  BY Consts DEF CursorRecord
<1>6. \A f \in Folders : cursor[f] \in CursorRecord
  BY DEF Typed
<1>7. cursor' = [f \in Folders |-> [cursor[f] EXCEPT !.wait = IF @ = 0 THEN 0 ELSE @ - 1]]
  BY DEF Begin
<1>8. QED BY <1>4, <1>5, <1>6, <1>7

LEMMA OpenSession ==
  ASSUME Typed, Open
  PROVE  \E f \in sync.left, cur \in CursorRecord :
           /\ f \in Folders
           /\ \/ /\ cursor[f].valid \notin {0, remote[f].valid} /\ cur = NoCursor /\ Reset(f)
              \/ /\ cursor[f].valid \in {0, remote[f].valid} /\ cur = cursor[f]
                 /\ UNCHANGED <<local, cursor>>
           /\ sync' \in SyncRecords
           /\ sync'.pc = IF cur.valid = 0 THEN "initial" ELSE "new"
           /\ sync'.folder = f /\ sync'.valid = remote[f].valid /\ sync'.next = remote[f].next
           /\ sync'.cur = cur
           /\ sync'.last = IF cur.last = 0 /\ cur.complete THEN remote[f].next - 1 ELSE cur.last
           /\ sync'.back = cur.back /\ sync'.complete = cur.complete
           /\ sync'.found = sync.found
<1> DEFINE f == Min(sync.left)
           stale == Renumbered(cursor[f], remote[f].valid)
<1>0. sync \in SyncRecords
  BY DEF Typed
<1>1. sync.left \subseteq Folders /\ sync.left # {}
  BY <1>0 DEF Open, SyncRecords
<1>2. f \in sync.left /\ f \in Folders
  BY <1>1, Consts, MinOf
<1> HIDE DEF f
<1>3. PICK r : r = remote[f]
  OBVIOUS
<1>4. r.valid \in 1..MaxValidity /\ r.next \in MinNext..(MaxUid + 1)
  BY <1>2, <1>3 DEF Typed, RemoteRecords
<1>5. PICK cur : cur = IF stale THEN NoCursor ELSE cursor[f]
  OBVIOUS
<1>6. cur \in CursorRecord
  BY <1>2, <1>5, FirstRecords DEF Typed
<1>7. PICK last : last = IF cur.last = 0 /\ cur.complete THEN r.next - 1 ELSE cur.last
  OBVIOUS
<1>8. last \in 0..MaxUid
  BY <1>4, <1>6, <1>7, Consts DEF CursorRecord
<1>9. sync' = [sync EXCEPT
          !.pc = IF cur.valid = 0 THEN "initial" ELSE "new",
          !.folder = f, !.left = @ \ {f},
          !.valid = r.valid, !.next = r.next, !.cur = cur, !.last = last,
          !.back = cur.back, !.complete = cur.complete]
  BY <1>3, <1>5, <1>7 DEF Open, f
<1>10. cur.back \in 0..(MaxUid + 1) /\ cur.complete \in BOOLEAN
  BY <1>6 DEF CursorRecord
<1>11. /\ sync' \in SyncRecords
       /\ sync'.pc = IF cur.valid = 0 THEN "initial" ELSE "new"
       /\ sync'.folder = f /\ sync'.valid = r.valid /\ sync'.next = r.next
       /\ sync'.cur = cur /\ sync'.last = last
       /\ sync'.back = cur.back /\ sync'.complete = cur.complete
       /\ sync'.found = sync.found
  <2>1. PICK step : step = IF cur.valid = 0 THEN "initial" ELSE "new"
    OBVIOUS
  <2>2. step \in Pcs
    BY <2>1 DEF Pcs
  <2>3. r.valid \in 0..MaxValidity /\ r.next \in 1..(MaxUid + 1)
    BY <1>4, Consts
  <2>4. PICK rest : rest = sync.left \ {f}
    OBVIOUS
  <2>5. rest \in SUBSET Folders
    BY <1>1, <2>4
  <2>6. PICK s : s = [sync EXCEPT !.pc = step, !.folder = f, !.left = rest, !.valid = r.valid,
                                  !.next = r.next]
    OBVIOUS
  <2>7. /\ s \in SyncRecords /\ s.pc = step /\ s.folder = f /\ s.valid = r.valid
        /\ s.next = r.next /\ s.found = sync.found
    BY <1>0, <1>2, <2>2, <2>3, <2>5, <2>6 DEF SyncRecords
  <2>8. sync' = [s EXCEPT !.cur = cur, !.last = last, !.back = cur.back,
                          !.complete = cur.complete]
    BY <1>0, <1>9, <2>1, <2>4, <2>6 DEF SyncRecords
  <2>9. sync' \in SyncRecords
    BY <1>6, <1>8, <1>10, <2>7, <2>8 DEF SyncRecords
  <2>10. QED BY <2>1, <2>7, <2>8, <2>9 DEF SyncRecords
<1>12. IF stale THEN Reset(f) ELSE UNCHANGED <<local, cursor>>
  BY <1>3 DEF Open, f
<1>13. stale <=> cursor[f].valid \notin {0, remote[f].valid}
  BY DEF Renumbered
<1>14. QED BY <1>2, <1>3, <1>5, <1>6, <1>7, <1>11, <1>12, <1>13

LEMMA InitialSession ==
  ASSUME Typed, Initial
  PROVE  \E matching \in SUBSET Uids :
           /\ Search({u \in Uids : InRange(u)}, matching)
           /\ sync' \in SyncRecords
           /\ sync'.pc = "store" /\ sync'.then = "save"
           /\ sync'.found = Newest(matching, sync.budget)
           /\ sync'.last = sync.next - 1
           /\ sync'.back = IF sync'.found = {} THEN 0 ELSE Min(sync'.found)
           /\ sync'.complete = (sync'.found = matching)
           /\ sync'.folder = sync.folder /\ sync'.valid = sync.valid /\ sync'.next = sync.next
           /\ sync'.cur = sync.cur
<1>0. sync \in SyncRecords
  BY DEF Typed
<1>1. PICK matching \in SUBSET Uids :
        /\ Search({u \in Uids : InRange(u)}, matching)
        /\ sync' = [sync EXCEPT
             !.pc = "store", !.then = "save", !.found = Newest(matching, sync.budget),
             !.budget = @ - Cardinality(Newest(matching, sync.budget)),
             !.last = sync.next - 1,
             !.back = IF Newest(matching, sync.budget) = {} THEN 0
                      ELSE Min(Newest(matching, sync.budget)),
             !.complete = (Newest(matching, sync.budget) = matching)]
  BY DEF Initial
<1>2. PICK selected : selected = Newest(matching, sync.budget)
  OBVIOUS
<1>3. sync.budget \in 0..Batch /\ sync.next \in 1..(MaxUid + 1)
  BY <1>0 DEF SyncRecords
<1>4. selected \in SUBSET Uids /\ Cardinality(selected) \in 0..sync.budget
  <2>1. sync.budget \in Nat
    BY <1>3, Consts
  <2>2. QED BY <1>2, <2>1, NewestOf
<1>5. PICK budget : budget = sync.budget - Cardinality(selected)
  OBVIOUS
<1>6. budget \in 0..Batch
  BY <1>3, <1>4, <1>5, Consts
<1>7. PICK back : back = IF selected = {} THEN 0 ELSE Min(selected)
  OBVIOUS
<1>8. back \in 0..(MaxUid + 1)
  BY <1>4, <1>7, Consts, MinOf DEF Uids
<1>9. PICK complete : complete = (selected = matching)
  OBVIOUS
<1>10. sync' = [sync EXCEPT !.pc = "store", !.then = "save", !.found = selected,
                  !.budget = budget, !.last = sync.next - 1, !.back = back,
                  !.complete = complete]
  BY <1>0, <1>1, <1>2, <1>5, <1>7, <1>9 DEF SyncRecords
<1>11. sync.next - 1 \in 0..MaxUid /\ complete \in BOOLEAN
  BY <1>3, <1>9, Consts
<1>12. sync' \in SyncRecords
  BY <1>0, <1>4, <1>6, <1>8, <1>10, <1>11 DEF SyncRecords, Pcs
<1>13. /\ sync'.pc = "store" /\ sync'.then = "save" /\ sync'.found = selected
       /\ sync'.last = sync.next - 1 /\ sync'.back = back /\ sync'.complete = complete
       /\ sync'.folder = sync.folder /\ sync'.valid = sync.valid /\ sync'.next = sync.next
       /\ sync'.cur = sync.cur
  BY <1>0, <1>10 DEF SyncRecords
<1>14. QED BY <1>1, <1>2, <1>7, <1>9, <1>12, <1>13

LEMMA NewSession ==
  ASSUME Typed, New
  PROVE  \E fresh \in SUBSET Uids :
           /\ Search({u \in Uids : u > sync.last}, fresh)
           /\ sync' \in SyncRecords
           /\ sync'.pc = "store" /\ sync'.then \in {"history", "save"}
           /\ sync'.then = "history" => ~sync'.complete
           /\ sync'.found = Oldest(fresh, sync.budget)
           /\ sync'.last = Max(sync'.found \cup {sync.last})
           /\ sync'.back = sync.back /\ sync'.complete = sync.complete
           /\ sync'.folder = sync.folder /\ sync'.valid = sync.valid /\ sync'.next = sync.next
           /\ sync'.cur = sync.cur
<1>0. sync \in SyncRecords
  BY DEF Typed
<1>1. PICK fresh \in SUBSET Uids :
        /\ Search({u \in Uids : u > sync.last}, fresh)
        /\ sync' = [sync EXCEPT
             !.pc = "store",
             !.then = IF Oldest(fresh, sync.budget) = fresh /\ ~sync.complete
                         /\ sync.budget - Cardinality(Oldest(fresh, sync.budget)) > 0
                      THEN "history" ELSE "save",
             !.found = Oldest(fresh, sync.budget),
             !.budget = sync.budget - Cardinality(Oldest(fresh, sync.budget)),
             !.last = AdvanceToSelected(Oldest(fresh, sync.budget))]
  BY DEF New
<1>2. PICK selected : selected = Oldest(fresh, sync.budget)
  OBVIOUS
<1>3. sync.budget \in 0..Batch /\ sync.budget \in Nat /\ sync.last \in 0..MaxUid
  BY <1>0, Consts DEF SyncRecords
<1>4. selected \in SUBSET Uids /\ Cardinality(selected) \in 0..sync.budget
  BY <1>2, <1>3, OldestOf
<1>5. PICK budget : budget = sync.budget - Cardinality(selected)
  OBVIOUS
<1>6. budget \in 0..Batch
  BY <1>3, <1>4, <1>5, Consts
<1>7. PICK last : last = Max(selected \cup {sync.last})
  OBVIOUS
<1>8. last \in 0..MaxUid
  <2>1. \A u \in Uids : u \in 0..MaxUid
    BY Consts DEF Uids
  <2>2. PICK S : S = selected \cup {sync.last}
    OBVIOUS
  <2>3. S \in SUBSET (0..MaxUid) /\ S # {}
    BY <1>3, <1>4, <2>1, <2>2
  <2>4. Max(S) \in S
    BY <2>3, Consts, MaxOf
  <2>5. QED BY <1>7, <2>2, <2>3, <2>4
<1>9. PICK then : then = IF selected = fresh /\ ~sync.complete /\ budget > 0
                         THEN "history" ELSE "save"
  OBVIOUS
<1>10. then \in {"history", "save"} /\ (then = "history" => ~sync.complete)
  BY <1>9
<1>11. sync' = [sync EXCEPT !.pc = "store", !.then = then, !.found = selected,
                  !.budget = budget, !.last = last]
  BY <1>1, <1>2, <1>5, <1>7, <1>9 DEF AdvanceToSelected
<1>12. sync' \in SyncRecords
  <2>1. then \in Pcs /\ "store" \in Pcs
    BY <1>10 DEF Pcs
  <2>2. QED BY <1>0, <1>4, <1>6, <1>8, <1>11, <2>1 DEF SyncRecords
<1>13. /\ sync'.pc = "store" /\ sync'.then = then /\ sync'.found = selected
       /\ sync'.last = last /\ sync'.back = sync.back /\ sync'.complete = sync.complete
       /\ sync'.folder = sync.folder /\ sync'.valid = sync.valid /\ sync'.next = sync.next
       /\ sync'.cur = sync.cur
  BY <1>0, <1>11 DEF SyncRecords
<1>14. QED BY <1>1, <1>2, <1>7, <1>10, <1>12, <1>13

LEMMA HistorySession ==
  ASSUME Typed, History
  PROVE  \E older \in SUBSET Uids :
           /\ Search({u \in Uids : u < BackfillBefore /\ InRange(u)}, older)
           /\ sync' \in SyncRecords
           /\ sync'.pc = "store" /\ sync'.then = "save"
           /\ sync'.found = Newest(older, sync.budget)
           /\ sync'.last = sync.last
           /\ sync'.back = IF sync'.found = {} THEN sync.back ELSE Min(sync'.found)
           /\ sync'.complete = (sync'.found = older)
           /\ sync'.folder = sync.folder /\ sync'.valid = sync.valid /\ sync'.next = sync.next
           /\ sync'.cur = sync.cur
<1>0. sync \in SyncRecords
  BY DEF Typed
<1>1. PICK older \in SUBSET Uids :
        /\ Search({u \in Uids : u < BackfillBefore /\ InRange(u)}, older)
        /\ sync' = [sync EXCEPT
             !.pc = "store", !.then = "save", !.found = Newest(older, sync.budget),
             !.budget = @ - Cardinality(Newest(older, sync.budget)),
             !.back = IF Newest(older, sync.budget) = {} THEN @
                      ELSE Min(Newest(older, sync.budget)),
             !.complete = (Newest(older, sync.budget) = older)]
  BY DEF History
<1>2. PICK selected : selected = Newest(older, sync.budget)
  OBVIOUS
<1>3. sync.budget \in 0..Batch /\ sync.budget \in Nat /\ sync.back \in 0..(MaxUid + 1)
  BY <1>0, Consts DEF SyncRecords
<1>4. selected \in SUBSET Uids /\ Cardinality(selected) \in 0..sync.budget
  BY <1>2, <1>3, NewestOf
<1>5. PICK budget : budget = sync.budget - Cardinality(selected)
  OBVIOUS
<1>6. budget \in 0..Batch
  BY <1>3, <1>4, <1>5, Consts
<1>7. PICK back : back = IF selected = {} THEN sync.back ELSE Min(selected)
  OBVIOUS
<1>8. back \in 0..(MaxUid + 1)
  <2>1. CASE selected = {}
    BY <1>3, <1>7, <2>1
  <2>2. CASE selected # {}
    <3>1. selected \in SUBSET Nat
      BY <1>4, Consts DEF Uids
    <3>2. back \in Uids
      BY <1>4, <1>7, <2>2, <3>1, MinOf
    <3>3. QED BY <3>2, Consts DEF Uids
  <2>3. QED BY <2>1, <2>2
<1>9. PICK complete : complete = (selected = older)
  OBVIOUS
<1>10. complete \in BOOLEAN
  BY <1>9
<1>11. sync' = [sync EXCEPT !.pc = "store", !.then = "save", !.found = selected,
                  !.budget = budget, !.back = back, !.complete = complete]
  BY <1>0, <1>1, <1>2, <1>5, <1>7, <1>9 DEF SyncRecords
<1>12. sync' \in SyncRecords
  BY <1>0, <1>4, <1>6, <1>8, <1>10, <1>11 DEF SyncRecords, Pcs
<1>13. /\ sync'.pc = "store" /\ sync'.then = "save" /\ sync'.found = selected
       /\ sync'.last = sync.last /\ sync'.back = back /\ sync'.complete = complete
       /\ sync'.folder = sync.folder /\ sync'.valid = sync.valid /\ sync'.next = sync.next
       /\ sync'.cur = sync.cur
  BY <1>0, <1>11 DEF SyncRecords
<1>14. QED BY <1>1, <1>2, <1>7, <1>9, <1>12, <1>13

\* What stays the same when only the step, what was found and the range change.
SameWork ==
  /\ sync'.last = sync.last /\ sync'.back = sync.back /\ sync'.complete = sync.complete
  /\ sync'.folder = sync.folder /\ sync'.valid = sync.valid /\ sync'.next = sync.next
  /\ sync'.cur = sync.cur

LEMMA StoreSession ==
  ASSUME Typed, Store
  PROVE  /\ sync' \in SyncRecords /\ sync'.pc = sync.then /\ sync'.then = sync.then
         /\ sync'.found = {} /\ SameWork
<1>1. sync \in SyncRecords /\ sync.then \in Pcs
  BY DEF Typed, SyncRecords
<1>2. sync' = [sync EXCEPT !.pc = sync.then, !.found = {}]
  BY DEF Store
<1>3. sync' \in SyncRecords
  BY <1>1, <1>2 DEF SyncRecords
<1>4. QED BY <1>1, <1>2, <1>3 DEF SyncRecords, SameWork

LEMMA DropSession ==
  ASSUME Typed, Drop
  PROVE  /\ sync' \in SyncRecords /\ sync'.pc = sync.then /\ sync'.then = sync.then
         /\ sync'.found = {} /\ SameWork
<1>1. sync \in SyncRecords /\ sync.then \in Pcs
  BY DEF Typed, SyncRecords
<1>2. sync' = [sync EXCEPT !.pc = sync.then, !.found = {}, !.range = {}]
  BY DEF Drop
<1>3. sync' \in SyncRecords
  BY <1>1, <1>2 DEF SyncRecords
<1>4. QED BY <1>1, <1>2, <1>3 DEF SyncRecords, SameWork

LEMMA SaveSession ==
  ASSUME Typed, Save, sync.folder \in Folders
  PROVE  /\ sync' \in SyncRecords /\ sync'.pc = "recent" /\ sync'.found = sync.found /\ SameWork
         /\ cursor' \in [Folders -> CursorRecord]
         /\ \A f \in Folders : f # sync.folder => cursor'[f] = cursor[f]
         /\ cursor'[sync.folder].valid = sync.valid /\ cursor'[sync.folder].last = sync.last
         /\ cursor'[sync.folder].back = sync.back
         /\ cursor'[sync.folder].complete = sync.complete
<1>1. sync \in SyncRecords /\ cursor[sync.folder] \in CursorRecord
      /\ cursor \in [Folders -> CursorRecord]
  BY DEF Typed
<1>2. PICK c : c = [valid |-> sync.valid, last |-> sync.last, back |-> sync.back,
                    complete |-> sync.complete, deep |-> cursor[sync.folder].deep,
                    wait |-> cursor[sync.folder].wait]
  OBVIOUS
<1>3. /\ c \in CursorRecord /\ c.valid = sync.valid /\ c.last = sync.last
      /\ c.back = sync.back /\ c.complete = sync.complete
  BY <1>1, <1>2 DEF SyncRecords, CursorRecord
<1>4. cursor' = [cursor EXCEPT ![sync.folder] = c]
  BY <1>1, <1>2 DEF Save
<1>5. sync' = [sync EXCEPT !.pc = "recent"]
  BY DEF Save
<1>6. sync' \in SyncRecords
  BY <1>1, <1>5 DEF SyncRecords, Pcs
<1>7. sync'.pc = "recent" /\ sync'.found = sync.found /\ SameWork
  BY <1>1, <1>5 DEF SyncRecords, SameWork
<1>8. QED BY <1>1, <1>3, <1>4, <1>6, <1>7

LEMMA RecentSession ==
  ASSUME Typed, Recent
  PROVE  \E range \in SUBSET Uids, found \in SUBSET Uids :
           /\ range = RecentRange(sync.next - 1) /\ Search(range, found)
           /\ sync' \in SyncRecords /\ sync'.pc = "drop" /\ sync'.then = "deep"
           /\ sync'.range = range /\ sync'.found = found /\ SameWork
<1>0. sync \in SyncRecords
  BY DEF Typed
<1>1. PICK range : range = RecentRange(sync.next - 1)
  OBVIOUS
<1>2. range \in SUBSET Uids
  BY <1>1 DEF RecentRange
<1>3. PICK found \in SUBSET range :
        /\ Search(range, found)
        /\ sync' = [sync EXCEPT
             !.pc = "drop", !.then = "deep", !.range = range, !.found = found]
  BY <1>1 DEF Recent
<1>4. sync' \in SyncRecords
  BY <1>0, <1>2, <1>3 DEF SyncRecords, Pcs
<1>5. /\ sync'.pc = "drop" /\ sync'.then = "deep" /\ sync'.range = range
      /\ sync'.found = found /\ SameWork
  BY <1>0, <1>3 DEF SyncRecords, SameWork
<1>6. QED BY <1>1, <1>2, <1>3, <1>4, <1>5

\* The audit stays below the recent window.
LEMMA DeepPlanIsBelow ==
  ASSUME Typed
  PROVE  /\ DeepPlan.uids \in SUBSET Uids /\ DeepPlan.before \in 0..MaxUid
         /\ \A u \in DeepPlan.uids : u < sync.next
<1> DEFINE latest == sync.next - 1
           before == sync.cur.deep
           lowest == Min(Rows(sync.folder))
           oldestRecent == IF latest >= RecentWindow THEN latest - RecentWindow + 1 ELSE 1
           top == oldestRecent - 1
           max == AuditTop(before, lowest, top)
           min == IF max >= DeepWindow THEN Larger(lowest, max - DeepWindow + 1) ELSE lowest
<1>0. sync.next \in 1..(MaxUid + 1) /\ before \in 0..MaxUid
  BY DEF Typed, SyncRecords, CursorRecord
<1>1. latest \in 0..MaxUid
  BY <1>0, Consts
<1>2. top \in 0..MaxUid /\ top <= latest
  BY <1>1, Consts
<1>3. CASE DeepPlan = [uids |-> {}, before |-> 0]
  BY <1>3, Consts
<1>4. CASE DeepPlan # [uids |-> {}, before |-> 0]
  <2>1. Rows(sync.folder) # {} /\ ~(top < lowest)
        /\ DeepPlan = [uids |-> min..max, before |-> IF min > lowest THEN min - 1 ELSE top]
    BY <1>4 DEF DeepPlan, DeepRange
  <2>2. lowest \in Uids
    <3>1. Rows(sync.folder) \in SUBSET Nat /\ Rows(sync.folder) \subseteq Uids
      BY Consts DEF Rows, Uids
    <3>2. QED BY <2>1, <3>1, MinOf
  <2>3. lowest \in 1..MaxUid
    BY <2>2 DEF Uids
  <2> HIDE DEF lowest, top, latest
  <2>4. max \in lowest..top
    BY <1>0, <1>2, <2>1, <2>3, Consts DEF AuditTop
  <2> HIDE DEF max
  <2>5. min \in lowest..MaxUid /\ min <= max
    BY <1>2, <2>3, <2>4, Consts DEF Larger
  <2> HIDE DEF min
  <2>6. min..max \in SUBSET Uids /\ \A u \in min..max : u <= latest
    BY <1>1, <1>2, <2>3, <2>4, <2>5, Consts DEF Uids
  <2>7. (IF min > lowest THEN min - 1 ELSE top) \in 0..MaxUid
    BY <1>2, <2>3, <2>5, Consts
  <2>8. \A u \in min..max : u < sync.next
    BY <1>0, <2>4, <2>5, <2>6, <2>3, <1>2, Consts DEF latest
  <2>9. QED BY <2>1, <2>6, <2>7, <2>8
<1>5. QED BY <1>3, <1>4

LEMMA DeepSession ==
  ASSUME Typed, Deep
  PROVE  \/ /\ sync' \in SyncRecords /\ sync'.pc = "folder" /\ sync'.found = sync.found
            /\ UNCHANGED refusals
         \/ \E range \in SUBSET Uids, found \in SUBSET Uids :
              /\ range = DeepPlan.uids /\ Search(range, found)
              /\ sync' \in SyncRecords /\ sync'.pc = "drop" /\ sync'.then = "saveDeep"
              /\ sync'.range = range /\ sync'.found = found /\ SameWork
<1>0. sync \in SyncRecords
  BY DEF Typed
<1>1. CASE /\ sync' = [sync EXCEPT !.pc = "folder"]
           /\ UNCHANGED refusals
  <2>1. sync' \in SyncRecords /\ sync'.pc = "folder" /\ sync'.found = sync.found
    BY <1>0, <1>1 DEF SyncRecords, Pcs
  <2>2. QED BY <1>1, <2>1
<1>2. ASSUME NEW found \in SUBSET DeepPlan.uids,
             Search(DeepPlan.uids, found),
             sync' = [sync EXCEPT
               !.pc = "drop", !.then = "saveDeep", !.range = DeepPlan.uids,
               !.before = DeepPlan.before, !.found = found]
      PROVE  \E range \in SUBSET Uids, fnd \in SUBSET Uids :
              /\ range = DeepPlan.uids /\ Search(range, fnd)
              /\ sync' \in SyncRecords /\ sync'.pc = "drop" /\ sync'.then = "saveDeep"
              /\ sync'.range = range /\ sync'.found = fnd /\ SameWork
  <2>1. PICK range, before : range = DeepPlan.uids /\ before = DeepPlan.before
    OBVIOUS
  <2>2. range \in SUBSET Uids /\ before \in 0..MaxUid /\ found \in SUBSET Uids
    BY <2>1, DeepPlanIsBelow
  <2>3. sync' = [sync EXCEPT
               !.pc = "drop", !.then = "saveDeep", !.range = range,
               !.before = before, !.found = found]
    BY <1>2, <2>1
  <2>4. sync' \in SyncRecords
    BY <1>0, <2>2, <2>3 DEF SyncRecords, Pcs
  <2>5. /\ sync'.pc = "drop" /\ sync'.then = "saveDeep" /\ sync'.range = range
        /\ sync'.found = found /\ SameWork
    BY <1>0, <2>3 DEF SyncRecords, SameWork
  <2>6. QED BY <1>2, <2>1, <2>2, <2>4, <2>5
<1>3. QED BY <1>1, <1>2 DEF Deep

LEMMA SaveDeepSession ==
  ASSUME Typed, SaveDeep, sync.folder \in Folders
  PROVE  /\ sync' \in SyncRecords /\ sync'.pc = "folder" /\ sync'.found = sync.found
         /\ cursor' \in [Folders -> CursorRecord]
         /\ \A f \in Folders : /\ cursor'[f].valid = cursor[f].valid
                               /\ cursor'[f].last = cursor[f].last
                               /\ cursor'[f].back = cursor[f].back
                               /\ cursor'[f].complete = cursor[f].complete
<1>1. /\ sync \in SyncRecords /\ sync.before \in 0..MaxUid
      /\ cursor[sync.folder] \in CursorRecord /\ cursor \in [Folders -> CursorRecord]
  BY DEF Typed, SyncRecords
<1>2. PICK d \in CursorRecord : d = cursor[sync.folder]
  BY <1>1
<1>3. PICK c : c = [d EXCEPT !.deep = sync.before, !.wait = AuditEvery]
  OBVIOUS
<1>4. /\ c \in CursorRecord /\ c.valid = d.valid /\ c.last = d.last /\ c.back = d.back
      /\ c.complete = d.complete
  <2>1. AuditEvery \in 0..AuditEvery
    BY Consts
  <2>2. QED BY <1>1, <1>3, <2>1 DEF CursorRecord
<1>5. cursor' = [cursor EXCEPT ![sync.folder] = c]
  BY <1>1, <1>2, <1>3 DEF SaveDeep
<1>6. sync' = [sync EXCEPT !.pc = "folder", !.audited = TRUE]
  BY DEF SaveDeep
<1>7. sync' \in SyncRecords /\ sync'.pc = "folder" /\ sync'.found = sync.found
  BY <1>1, <1>6 DEF SyncRecords, Pcs
<1>8. QED BY <1>1, <1>2, <1>4, <1>5, <1>7

-----------------------------------------------------------------------------
(* The types hold at the start and after every step.                         *)

LEMMA FolderRecords ==
  ASSUME NEW v, NEW r \in RemoteFolders(v)
  PROVE  /\ r.valid = v /\ r.next \in MinNext..(MaxUid + 1) /\ r.uids \in SUBSET Uids
         /\ \A u \in r.uids : u < r.next
         /\ v \in 1..MaxValidity => r \in RemoteRecords
<1>1. PICK n \in MinNext..(MaxUid + 1) :
        r \in [valid : {v}, next : {n}, uids : SUBSET (1..(n - 1))]
  BY DEF RemoteFolders
<1>2. r = [valid |-> r.valid, next |-> r.next, uids |-> r.uids]
      /\ r.valid = v /\ r.next = n /\ r.uids \in SUBSET (1..(n - 1))
  BY <1>1
<1>3. 1..(n - 1) \subseteq Uids /\ \A u \in 1..(n - 1) : u < n
  BY Consts DEF Uids
<1>4. QED BY <1>2, <1>3 DEF RemoteRecords

LEMMA RecordsOfFolder ==
  ASSUME NEW r \in RemoteRecords, \A u \in r.uids : u < r.next
  PROVE  r \in RemoteFolders(r.valid)
<1>1. /\ r = [valid |-> r.valid, next |-> r.next, uids |-> r.uids]
      /\ r.next \in MinNext..(MaxUid + 1) /\ r.uids \in SUBSET Uids
  BY DEF RemoteRecords
<1>2. \A u \in r.uids : u \in 1..(r.next - 1)
  BY <1>1, Consts DEF Uids
<1>3. r.uids \in SUBSET (1..(r.next - 1))
  BY <1>2
<1>4. r \in [valid : {r.valid}, next : {r.next}, uids : SUBSET (1..(r.next - 1))]
  BY <1>1, <1>3
<1>5. QED BY <1>1, <1>4 DEF RemoteFolders

LEMMA InitTyped == Init => TypeInv
<1> SUFFICES ASSUME Init PROVE TypeInv
  OBVIOUS
<1>1. \A f \in Folders : remote[f] \in RemoteFolders(1)
  BY DEF Init
<1>2. 1 \in 1..MaxValidity
  BY Consts
<1>3. \A f \in Folders : /\ remote[f] \in RemoteRecords /\ remote[f].valid = 1
                         /\ \A u \in remote[f].uids : u < remote[f].next
  BY <1>1, <1>2, FolderRecords
<1>4. remote \in [Folders -> RemoteRecords]
  BY <1>3 DEF Init
<1>5. /\ local = [f \in Folders |-> [u \in Uids |-> 0]] /\ cursor = [f \in Folders |-> NoCursor]
      /\ sync = IdleSync
  BY DEF Init
<1>6. 0 \in 0..MaxValidity /\ 0 \in 0..MaxAborts /\ 0 \in 0..MaxRefusals
  BY Consts
<1>7. full \in BOOLEAN /\ widening = FALSE /\ aborts = 0 /\ refusals = 0
  BY DEF Init
<1>8. Typed
  BY <1>4, <1>5, <1>6, <1>7, FirstRecords DEF Typed
<1>9. Session
  BY <1>5 DEF Session, IdleSync
<1>10. ASSUME NEW f \in Folders
       PROVE  Numbers(f)
  <2>1. cursor[f].valid = 0 /\ cursor[f].last = 0 /\ \A u \in Uids : local[f][u] = 0
    BY <1>5 DEF NoCursor
  <2>2. remote[f].valid = 1
    BY <1>3
  <2>3. QED BY <1>3, <2>1, <2>2 DEF Numbers
<1>11. QED BY <1>8, <1>9, <1>10 DEF TypeInv

\* What of a state the types of a folder of the server are.
LEMMA FolderTypes ==
  ASSUME TypeInv, NEW f \in Folders
  PROVE  /\ remote[f] \in RemoteRecords
         /\ remote[f].valid \in 1..MaxValidity /\ remote[f].next \in MinNext..(MaxUid + 1)
         /\ remote[f].uids \in SUBSET Uids /\ \A u \in remote[f].uids : u < remote[f].next
         /\ local[f] \in [Uids -> 0..MaxValidity]
         /\ cursor[f] \in CursorRecord
         /\ remote[f].valid \in Nat /\ remote[f].next \in Nat
         /\ cursor[f].valid \in Nat /\ cursor[f].last \in Nat
BY Consts DEF TypeInv, Typed, Numbers, RemoteRecords, CursorRecord

\* A step of the server: new mail, a message gone, a folder renumbered.
LEMMA RemoteTyped ==
  ASSUME TypeInv, NEW f \in Folders, NEW y \in RemoteRecords,
         remote' = [remote EXCEPT ![f] = y], \A u \in y.uids : u < y.next,
         \/ y.valid = remote[f].valid /\ remote[f].next <= y.next
         \/ y.valid = remote[f].valid + 1 /\ ~OpenFolder(f),
         UNCHANGED <<local, cursor, full, widening, sync, aborts, refusals>>
  PROVE  TypeInv'
<1>1. Typed'
  BY DEF TypeInv, Typed
<1>2. \A g \in Folders : remote'[g] = IF g = f THEN y ELSE remote[g]
  BY DEF TypeInv, Typed
<1>3. Session'
  <2>1. CASE sync.pc \in {"idle", "folder"}
    BY <2>1 DEF TypeInv, Session
  <2>2. CASE sync.pc \notin {"idle", "folder"}
    <3>1. sync.folder \in Folders
      BY <2>2 DEF TypeInv, Session
    <3>2. remote'[sync.folder].valid = remote[sync.folder].valid
      BY <1>2, <2>2, <3>1 DEF OpenFolder
    <3>3. remote[sync.folder].next <= remote'[sync.folder].next
      <4>1. remote[sync.folder].next \in Nat
        BY <3>1, FolderTypes
      <4>2. y.valid \in Nat /\ remote[f].valid \in Nat /\ y.next \in Nat
        BY FolderTypes, Consts DEF RemoteRecords
      <4>3. QED BY <1>2, <2>2, <3>1, <4>1, <4>2 DEF OpenFolder
    <3>4. /\ remote[sync.folder].next \in Nat /\ remote'[sync.folder].next \in Nat
          /\ sync.next \in Nat /\ sync.last \in Nat
      <4>1. sync.next \in Nat /\ sync.last \in Nat
        BY Consts DEF TypeInv, Typed, SyncRecords
      <4>2. remote'[sync.folder] \in RemoteRecords
        BY <1>1, <3>1 DEF Typed
      <4>3. QED BY <3>1, <4>1, <4>2, FolderTypes, Consts DEF RemoteRecords
    <3>5. /\ sync.valid = remote[sync.folder].valid
          /\ sync.next <= remote[sync.folder].next /\ MinNext <= sync.next
          /\ sync.last < remote[sync.folder].next
          /\ cursor[sync.folder].valid \in {0, sync.valid}
          /\ sync.pc = "store" => sync.then \in {"history", "save"}
          /\ sync.pc = "drop" => sync.then \in {"deep", "saveDeep"}
          /\ sync.pc \notin {"store", "drop"} => sync.found = {}
      BY <2>2 DEF TypeInv, Session
    <3>6. sync.next <= remote'[sync.folder].next /\ sync.last < remote'[sync.folder].next
      BY <3>3, <3>4, <3>5
    <3>7. QED BY <3>1, <3>2, <3>5, <3>6 DEF Session
  <2>3. QED BY <2>1, <2>2
<1>4. ASSUME NEW g \in Folders
      PROVE  Numbers(g)'
  <2>1. Numbers(g)
    BY DEF TypeInv
  <2>2. CASE g # f
    BY <1>2, <2>1, <2>2 DEF Numbers
  <2>3. CASE g = f
    <3>1. /\ y.valid \in Nat /\ remote[f].valid \in Nat /\ y.next \in Nat /\ remote[f].next \in Nat
          /\ cursor[f].valid \in Nat /\ cursor[f].last \in Nat
          /\ \A u \in Uids : local[f][u] \in Nat
      BY FolderTypes, Consts DEF RemoteRecords
    <3>2. \A u \in Uids : local[f][u] <= y.valid
      BY <2>1, <2>3, <3>1 DEF Numbers
    <3>3. cursor[f].valid <= y.valid /\ (cursor[f].valid = y.valid => cursor[f].last < y.next)
      BY <2>1, <2>3, <3>1 DEF Numbers
    <3>4. QED BY <1>2, <2>1, <2>3, <3>2, <3>3 DEF Numbers
  <2>4. QED BY <2>2, <2>3
<1>5. QED BY <1>1, <1>3, <1>4 DEF TypeInv

LEMMA ServerTyped ==
  ASSUME TypeInv, NEW f \in Folders,
         Mail(f) \/ Renew(f) \/ \E u \in Uids : Expunge(f, u)
  PROVE  TypeInv'
<1>0. /\ remote[f] \in RemoteRecords /\ remote \in [Folders -> RemoteRecords]
      /\ remote[f].next \in Nat /\ remote[f].next \in MinNext..(MaxUid + 1)
      /\ remote[f].uids \in SUBSET Uids /\ \A u \in remote[f].uids : u < remote[f].next
  BY FolderTypes, Consts DEF TypeInv, Typed
<1>1. CASE Mail(f)
  <2>1. PICK y : y = [remote[f] EXCEPT !.uids = @ \cup {remote[f].next}, !.next = @ + 1]
    OBVIOUS
  <2>2. /\ remote[f].next \in Uids /\ remote[f].next + 1 \in MinNext..(MaxUid + 1)
    BY <1>0, <1>1, Consts DEF Mail, Uids
  <2>3. /\ y \in RemoteRecords /\ y.valid = remote[f].valid /\ y.next = remote[f].next + 1
        /\ y.uids = remote[f].uids \cup {remote[f].next}
    BY <1>0, <2>1, <2>2 DEF RemoteRecords
  <2>4. remote' = [remote EXCEPT ![f] = y]
    BY <1>0, <1>1, <2>1 DEF Mail
  <2>5. \A u \in y.uids : u < y.next
    <3>1. \A u \in Uids : u \in Nat
      BY Consts DEF Uids
    <3>2. QED BY <1>0, <2>3, <3>1
  <2>6. UNCHANGED <<local, cursor, full, widening, sync, aborts, refusals>>
    BY <1>1 DEF Mail, faults
  <2>7. remote[f].next <= y.next
    BY <1>0, <2>3
  <2>8. QED BY <2>3, <2>4, <2>5, <2>6, <2>7, RemoteTyped
<1>2. CASE Renew(f)
  <2>1. PICK y \in RemoteFolders(remote[f].valid + 1) : remote' = [remote EXCEPT ![f] = y]
    BY <1>2 DEF Renew
  <2>2. remote[f].valid + 1 \in 1..MaxValidity
    BY <1>2, FolderTypes, Consts DEF Renew
  <2>3. y \in RemoteRecords /\ y.valid = remote[f].valid + 1 /\ \A u \in y.uids : u < y.next
    BY <2>2, FolderRecords
  <2>4. ~OpenFolder(f) /\ UNCHANGED <<local, cursor, full, widening, sync, aborts, refusals>>
    BY <1>2 DEF Renew, faults
  <2>5. QED BY <2>1, <2>3, <2>4, RemoteTyped
<1>3. CASE \E u \in Uids : Expunge(f, u)
  <2>1. PICK u \in Uids : Expunge(f, u)
    BY <1>3
  <2>2. PICK y : y = [remote[f] EXCEPT !.uids = @ \ {u}]
    OBVIOUS
  <2>3. /\ y \in RemoteRecords /\ y.valid = remote[f].valid /\ y.next = remote[f].next
        /\ y.uids = remote[f].uids \ {u}
    BY <1>0, <2>2 DEF RemoteRecords
  <2>4. remote' = [remote EXCEPT ![f] = y]
    BY <1>0, <2>1, <2>2 DEF Expunge
  <2>5. \A v \in y.uids : v < y.next
    BY <1>0, <2>3
  <2>6. UNCHANGED <<local, cursor, full, widening, sync, aborts, refusals>>
    BY <2>1 DEF Expunge, faults
  <2>7. remote[f].next <= y.next
    BY <1>0, <2>3
  <2>8. QED BY <2>3, <2>4, <2>5, <2>6, <2>7, RemoteTyped
<1>4. QED BY <1>1, <1>2, <1>3

LEMMA WidenReopenTyped ==
  ASSUME TypeInv, Widen \/ Reopen
  PROVE  TypeInv'
<1>1. CASE Widen
  <2>1. /\ UNCHANGED <<remote, local, cursor, sync, aborts, refusals>>
        /\ full' = TRUE /\ widening' = TRUE
    BY <1>1 DEF Widen, faults
  <2>2. Typed' /\ Session' /\ \A f \in Folders : Numbers(f)'
    BY <2>1 DEF TypeInv, Typed, Session, Numbers
  <2>3. QED BY <2>2 DEF TypeInv
<1>2. CASE Reopen
  <2>1. UNCHANGED <<remote, local, full, sync, aborts, refusals>> /\ widening' = FALSE
    BY <1>2 DEF Reopen, faults
  <2>2. ASSUME NEW f \in Folders
        PROVE  /\ cursor'[f] \in CursorRecord /\ cursor'[f].valid = cursor[f].valid
               /\ cursor'[f].last = cursor[f].last
    <3>1. PICK c \in CursorRecord : c = cursor[f]
      BY FolderTypes
    <3>2. cursor'[f] = IF c.valid = 0 THEN c
            ELSE [c EXCEPT !.complete = FALSE, !.back = IF @ # 0 THEN @ ELSE c.last + 1]
      BY <1>2, <3>1 DEF Reopen
    <3>3. PICK b : b = IF c.back # 0 THEN c.back ELSE c.last + 1
      OBVIOUS
    <3>4. b \in 0..(MaxUid + 1)
      BY <3>3, Consts DEF CursorRecord
    <3>5. cursor'[f] = IF c.valid = 0 THEN c ELSE [c EXCEPT !.complete = FALSE, !.back = b]
      BY <3>2, <3>3 DEF CursorRecord
    <3>6. QED BY <3>1, <3>4, <3>5 DEF CursorRecord
  <2>3. cursor' \in [Folders -> CursorRecord]
    <3>1. cursor' = [f \in Folders |-> cursor'[f]]
      BY <1>2 DEF Reopen
    <3> HIDE DEF Reopen
    <3>2. QED BY <2>2, <3>1
  <2>4. Typed'
    BY <2>1, <2>3 DEF TypeInv, Typed
  <2>5. Session'
    BY <2>1, <2>2 DEF TypeInv, Session
  <2>6. \A f \in Folders : Numbers(f)'
    BY <2>1, <2>2 DEF TypeInv, Numbers
  <2>7. QED BY <2>4, <2>5, <2>6 DEF TypeInv
<1>3. QED BY <1>1, <1>2

\* What a session knows of the folder it has open.
LEMMA OpenTypes ==
  ASSUME TypeInv, sync.pc \notin {"idle", "folder"}
  PROVE  /\ sync.folder \in Folders /\ sync \in SyncRecords
         /\ sync.valid = remote[sync.folder].valid /\ sync.valid \in 1..MaxValidity
         /\ sync.next <= remote[sync.folder].next /\ MinNext <= sync.next
         /\ sync.last < remote[sync.folder].next
         /\ sync.next \in Nat /\ sync.last \in Nat /\ remote[sync.folder].next \in Nat
         /\ sync.found \in SUBSET Uids /\ sync.range \in SUBSET Uids
         /\ cursor[sync.folder].valid \in {0, sync.valid}
<1>1. /\ sync.folder \in Folders /\ sync.valid = remote[sync.folder].valid
      /\ sync.next <= remote[sync.folder].next /\ MinNext <= sync.next
      /\ sync.last < remote[sync.folder].next /\ cursor[sync.folder].valid \in {0, sync.valid}
  BY DEF TypeInv, Session
<1>2. /\ sync \in SyncRecords /\ sync.next \in Nat /\ sync.last \in Nat
      /\ sync.found \in SUBSET Uids /\ sync.range \in SUBSET Uids
  BY Consts DEF TypeInv, Typed, SyncRecords
<1>3. remote[sync.folder].next \in Nat /\ remote[sync.folder].valid \in 1..MaxValidity
  BY <1>1, FolderTypes
<1>4. QED BY <1>1, <1>2, <1>3

\* A search leaves the count of refused searches within its bound, and finds what is there.
LEMMA SearchFinds ==
  ASSUME TypeInv, NEW asked, NEW found, Search(asked, found)
  PROVE  /\ refusals' \in 0..MaxRefusals
         /\ found \subseteq remote[sync.folder].uids \cap asked
         /\ refusals' = 0 => refusals = 0 /\ found = remote[sync.folder].uids \cap asked
<1>1. refusals \in 0..MaxRefusals
  BY DEF TypeInv, Typed
<1>2. QED BY <1>1, Consts DEF Search

\* A step of a session that changes neither rows nor cursors.
LEMMA SearchTyped ==
  ASSUME TypeInv, UNCHANGED <<remote, local, cursor, full, widening, aborts>>,
         refusals' \in 0..MaxRefusals, sync' \in SyncRecords, Session'
  PROVE  TypeInv'
<1>1. Typed'
  BY DEF TypeInv, Typed
<1>2. \A f \in Folders : Numbers(f)'
  BY DEF TypeInv, Numbers
<1>3. QED BY <1>1, <1>2 DEF TypeInv

LEMMA InitialTyped ==
  ASSUME TypeInv, Initial
  PROVE  TypeInv'
<1>0. Typed /\ sync.pc \notin {"idle", "folder"}
  BY DEF TypeInv, Initial
<1>1. PICK matching \in SUBSET Uids :
           /\ Search({u \in Uids : InRange(u)}, matching)
           /\ sync' \in SyncRecords
           /\ sync'.pc = "store" /\ sync'.then = "save"
           /\ sync'.last = sync.next - 1
           /\ sync'.folder = sync.folder /\ sync'.valid = sync.valid /\ sync'.next = sync.next
  BY <1>0, InitialSession
<1>2. UNCHANGED <<remote, local, cursor, full, widening, aborts>>
  BY DEF Initial
<1>3. refusals' \in 0..MaxRefusals
  BY <1>1, SearchFinds
<1>4. sync.next - 1 < remote[sync.folder].next
  BY <1>0, OpenTypes
<1>5. Session'
  BY <1>0, <1>1, <1>2, <1>4, OpenTypes DEF Session
<1>6. QED BY <1>1, <1>2, <1>3, <1>5, SearchTyped

LEMMA NewTyped ==
  ASSUME TypeInv, New
  PROVE  TypeInv'
<1>0. Typed /\ sync.pc \notin {"idle", "folder"}
  BY DEF TypeInv, New
<1>1. PICK fresh \in SUBSET Uids :
           /\ Search({u \in Uids : u > sync.last}, fresh)
           /\ sync' \in SyncRecords
           /\ sync'.pc = "store" /\ sync'.then \in {"history", "save"}
           /\ sync'.found = Oldest(fresh, sync.budget)
           /\ sync'.last = Max(sync'.found \cup {sync.last})
           /\ sync'.folder = sync.folder /\ sync'.valid = sync.valid /\ sync'.next = sync.next
  BY <1>0, NewSession
<1>2. UNCHANGED <<remote, local, cursor, full, widening, aborts>>
  BY DEF New
<1>3. refusals' \in 0..MaxRefusals /\ fresh \subseteq remote[sync.folder].uids
  BY <1>1, SearchFinds
<1>4. sync'.last < remote[sync.folder].next
  <2>1. PICK S : S = sync'.found \cup {sync.last}
    OBVIOUS
  <2>2. sync'.found \subseteq fresh
    BY <1>1 DEF Oldest
  <2>3. \A u \in S : u < remote[sync.folder].next
    BY <1>0, <1>3, <2>1, <2>2, OpenTypes, FolderTypes
  <2>4. S \in SUBSET (0..MaxUid) /\ S # {}
    <3>1. \A u \in Uids : u \in 0..MaxUid
      BY Consts DEF Uids
    <3>2. sync.last \in 0..MaxUid /\ sync'.found \in SUBSET Uids
      BY <1>0, <1>1 DEF Typed, SyncRecords
    <3>3. QED BY <2>1, <3>1, <3>2
  <2>5. Max(S) \in S
    BY <2>4, Consts, MaxOf
  <2>6. QED BY <1>1, <2>1, <2>3, <2>5
<1>5. Session'
  BY <1>0, <1>1, <1>2, <1>4, OpenTypes DEF Session
<1>6. QED BY <1>1, <1>2, <1>3, <1>5, SearchTyped

LEMMA HistoryTyped ==
  ASSUME TypeInv, History
  PROVE  TypeInv'
<1>0. Typed /\ sync.pc \notin {"idle", "folder"}
  BY DEF TypeInv, History
<1>1. PICK older \in SUBSET Uids :
           /\ Search({u \in Uids : u < BackfillBefore /\ InRange(u)}, older)
           /\ sync' \in SyncRecords
           /\ sync'.pc = "store" /\ sync'.then = "save" /\ sync'.last = sync.last
           /\ sync'.folder = sync.folder /\ sync'.valid = sync.valid /\ sync'.next = sync.next
  BY <1>0, HistorySession
<1>2. UNCHANGED <<remote, local, cursor, full, widening, aborts>>
  BY DEF History
<1>3. refusals' \in 0..MaxRefusals
  BY <1>1, SearchFinds
<1>4. Session'
  BY <1>0, <1>1, <1>2, OpenTypes DEF Session
<1>5. QED BY <1>1, <1>2, <1>3, <1>4, SearchTyped

LEMMA RecentTyped ==
  ASSUME TypeInv, Recent
  PROVE  TypeInv'
<1>0. Typed /\ sync.pc \notin {"idle", "folder"}
  BY DEF TypeInv, Recent
<1>1. PICK range \in SUBSET Uids, found \in SUBSET Uids :
           /\ Search(range, found)
           /\ sync' \in SyncRecords /\ sync'.pc = "drop" /\ sync'.then = "deep" /\ SameWork
  BY <1>0, RecentSession
<1>2. UNCHANGED <<remote, local, cursor, full, widening, aborts>>
  BY DEF Recent
<1>3. refusals' \in 0..MaxRefusals
  BY <1>1, SearchFinds
<1>4. Session'
  BY <1>0, <1>1, <1>2, OpenTypes DEF Session, SameWork
<1>5. QED BY <1>1, <1>2, <1>3, <1>4, SearchTyped

LEMMA DeepTyped ==
  ASSUME TypeInv, Deep
  PROVE  TypeInv'
<1>0. Typed /\ sync.pc \notin {"idle", "folder"} /\ sync.found = {}
  BY DEF TypeInv, Deep, Session
<1>1. UNCHANGED <<remote, local, cursor, full, widening, aborts>>
  BY DEF Deep
<1>2. CASE /\ sync' \in SyncRecords /\ sync'.pc = "folder" /\ sync'.found = sync.found
           /\ UNCHANGED refusals
  <2>1. Session'
    BY <1>0, <1>2 DEF Session
  <2>2. refusals' \in 0..MaxRefusals
    BY <1>0, <1>2 DEF Typed
  <2>3. QED BY <1>1, <1>2, <2>1, <2>2, SearchTyped
<1>3. CASE \E range \in SUBSET Uids, found \in SUBSET Uids :
              /\ range = DeepPlan.uids /\ Search(range, found)
              /\ sync' \in SyncRecords /\ sync'.pc = "drop" /\ sync'.then = "saveDeep"
              /\ sync'.range = range /\ sync'.found = found /\ SameWork
  <2>1. PICK range \in SUBSET Uids, found \in SUBSET Uids :
              /\ Search(range, found)
              /\ sync' \in SyncRecords /\ sync'.pc = "drop" /\ sync'.then = "saveDeep" /\ SameWork
    BY <1>3
  <2>2. refusals' \in 0..MaxRefusals
    BY <2>1, SearchFinds
  <2>3. Session'
    BY <1>0, <1>1, <2>1, OpenTypes DEF Session, SameWork
  <2>4. QED BY <1>1, <2>1, <2>2, <2>3, SearchTyped
<1>4. QED BY <1>0, <1>2, <1>3, DeepSession

LEMMA RestTyped ==
  ASSUME TypeInv, Begin \/ End \/ Abort
  PROVE  TypeInv'
<1>0. Typed
  BY DEF TypeInv
<1>1. CASE Begin
  <2>1. /\ sync' \in SyncRecords /\ sync'.pc = "folder" /\ sync'.found = {}
        /\ cursor' \in [Folders -> CursorRecord]
        /\ \A f \in Folders : cursor'[f].valid = cursor[f].valid /\ cursor'[f].last = cursor[f].last
    BY <1>0, <1>1, BeginSession
  <2>2. UNCHANGED <<remote, local, full, widening, aborts, refusals>>
    BY <1>1 DEF Begin, faults
  <2>3. Typed'
    BY <1>0, <2>1, <2>2 DEF Typed
  <2>4. Session'
    BY <2>1 DEF Session
  <2>5. \A f \in Folders : Numbers(f)'
    BY <2>1, <2>2 DEF TypeInv, Numbers
  <2>6. QED BY <2>3, <2>4, <2>5 DEF TypeInv
<1>2. CASE End \/ Abort
  <2>1. sync' \in SyncRecords /\ sync'.pc = "idle" /\ sync'.found = {}
    <3>1. sync' = IdleSync
      BY <1>2 DEF End, Abort
    <3>2. QED BY <3>1, FirstRecords DEF IdleSync
  <2>2. UNCHANGED <<remote, local, cursor, full, widening, refusals>>
    BY <1>2 DEF End, Abort, faults
  <2>3. aborts' \in 0..MaxAborts
    BY <1>0, <1>2, Consts DEF Typed, End, Abort, faults
  <2>4. Typed'
    BY <1>0, <2>1, <2>2, <2>3 DEF Typed
  <2>5. Session'
    BY <2>1 DEF Session
  <2>6. \A f \in Folders : Numbers(f)'
    BY <2>2 DEF TypeInv, Numbers
  <2>7. QED BY <2>4, <2>5, <2>6 DEF TypeInv
<1>3. QED BY <1>1, <1>2

\* What of a reset leaves: rows stay or go, and the cursor of the folder is gone.
LEMMA ResetLeaves ==
  ASSUME TypeInv, NEW f \in Folders, Reset(f)
  PROVE  /\ local' \in [Folders -> [Uids -> 0..MaxValidity]]
         /\ \A g \in Folders, u \in Uids : local'[g][u] \in {0, local[g][u]}
         /\ \A u \in Uids : local'[f][u] = 0
         /\ ~Threaded => \A g \in Folders \ {f} : \A u \in Uids : local'[g][u] = local[g][u]
         /\ cursor' \in [Folders -> CursorRecord] /\ cursor'[f] = NoCursor
         /\ \A g \in Folders \ {f} : cursor'[g] = cursor[g]
<1>1. \A g \in Folders, u \in Uids : local[g][u] \in 0..MaxValidity
  BY DEF TypeInv, Typed
<1>2. local' = [g \in Folders |-> [u \in Uids |->
         IF g = f \/ (Threaded /\ u \in Rows(f)) THEN 0 ELSE local[g][u]]]
  BY DEF Reset
<1>3. 0 \in 0..MaxValidity
  BY Consts
<1>4. local' \in [Folders -> [Uids -> 0..MaxValidity]]
  BY <1>1, <1>2, <1>3
<1>5. /\ \A g \in Folders, u \in Uids : local'[g][u] \in {0, local[g][u]}
      /\ \A u \in Uids : local'[f][u] = 0
      /\ ~Threaded => \A g \in Folders \ {f} : \A u \in Uids : local'[g][u] = local[g][u]
  BY <1>2
<1>6. /\ cursor' \in [Folders -> CursorRecord] /\ cursor'[f] = NoCursor
      /\ \A g \in Folders \ {f} : cursor'[g] = cursor[g]
  BY FirstRecords DEF TypeInv, Typed, Reset
<1>7. QED BY <1>4, <1>5, <1>6

LEMMA OpenTyped ==
  ASSUME TypeInv, Open
  PROVE  TypeInv'
<1>0. Typed
  BY DEF TypeInv
<1>1. PICK f \in sync.left, cur \in CursorRecord :
           /\ f \in Folders
           /\ \/ /\ cursor[f].valid \notin {0, remote[f].valid} /\ cur = NoCursor /\ Reset(f)
              \/ /\ cursor[f].valid \in {0, remote[f].valid} /\ cur = cursor[f]
                 /\ UNCHANGED <<local, cursor>>
           /\ sync' \in SyncRecords
           /\ sync'.pc = IF cur.valid = 0 THEN "initial" ELSE "new"
           /\ sync'.folder = f /\ sync'.valid = remote[f].valid /\ sync'.next = remote[f].next
           /\ sync'.last = IF cur.last = 0 /\ cur.complete THEN remote[f].next - 1 ELSE cur.last
           /\ sync'.found = sync.found
  BY <1>0, OpenSession
<1>2. UNCHANGED <<remote, full, widening, aborts, refusals>> /\ sync.pc = "folder"
  BY DEF Open, faults
<1>3. PICK r \in RemoteRecords : r = remote[f]
  BY <1>1, FolderTypes
<1>4. r.valid \in 1..MaxValidity /\ r.next \in MinNext..(MaxUid + 1) /\ r.next \in Nat
      /\ MinNext \in Nat /\ r.next > 0
  BY Consts DEF RemoteRecords
<1>5. /\ local' \in [Folders -> [Uids -> 0..MaxValidity]]
      /\ \A g \in Folders, u \in Uids : local'[g][u] \in {0, local[g][u]}
      /\ cursor' \in [Folders -> CursorRecord]
      /\ \A g \in Folders : cursor'[g] \in {NoCursor, cursor[g]}
      /\ cursor'[f].valid \in {0, r.valid}
      /\ cur.valid \in {0, r.valid} /\ cur.last < r.next
  <2>1. CASE cursor[f].valid \notin {0, remote[f].valid} /\ cur = NoCursor /\ Reset(f)
    <3>1. NoCursor.valid = 0 /\ NoCursor.last = 0
      BY DEF NoCursor
    <3>2. QED BY <1>1, <1>4, <2>1, <3>1, ResetLeaves
  <2>2. CASE cursor[f].valid \in {0, remote[f].valid} /\ cur = cursor[f]
             /\ UNCHANGED <<local, cursor>>
    <3>1. local' \in [Folders -> [Uids -> 0..MaxValidity]] /\ cursor' \in [Folders -> CursorRecord]
      BY <1>0, <2>2 DEF Typed
    <3>2. cur.last < r.next
      BY <1>1, <1>3, <1>4, <2>2 DEF TypeInv, Numbers
    <3>3. QED BY <1>3, <2>2, <3>1, <3>2
  <2>3. QED BY <1>1, <2>1, <2>2
<1>6. Typed'
  BY <1>0, <1>1, <1>2, <1>5 DEF Typed
<1>7. Session'
  <2>1. sync'.pc \in {"initial", "new"}
    BY <1>1
  <2>2. sync'.found = {}
    BY <1>1, <1>2 DEF TypeInv, Session
  <2>3. sync'.last < r.next
    BY <1>1, <1>3, <1>4, <1>5
  <2>4. sync'.next <= r.next /\ MinNext <= sync'.next
    BY <1>1, <1>3, <1>4
  <2>5. QED BY <1>1, <1>2, <1>3, <1>5, <2>1, <2>2, <2>3, <2>4 DEF Session
<1>8. ASSUME NEW g \in Folders
      PROVE  Numbers(g)'
  <2>1. Numbers(g)
    BY DEF TypeInv
  <2>2. \A u \in Uids : local'[g][u] <= remote[g].valid
    <3>1. remote[g].valid \in Nat
      BY FolderTypes
    <3>2. QED BY <1>5, <2>1, <3>1 DEF Numbers
  <2>3. /\ cursor'[g].valid <= remote[g].valid
        /\ cursor'[g].valid = 0 => cursor'[g].last = 0
        /\ cursor'[g].valid = remote[g].valid => cursor'[g].last < remote[g].next
    <3>1. remote[g].valid \in Nat /\ remote[g].next \in Nat /\ remote[g].valid # 0
      BY FolderTypes
    <3>2. CASE cursor'[g] = cursor[g]
      BY <2>1, <3>2 DEF Numbers
    <3>3. CASE cursor'[g] = NoCursor
      BY <3>1, <3>3 DEF NoCursor
    <3>4. QED BY <1>5, <3>2, <3>3
  <2>4. QED BY <1>2, <2>1, <2>2, <2>3 DEF Numbers
<1>9. QED BY <1>6, <1>7, <1>8 DEF TypeInv

LEMMA StoreTyped ==
  ASSUME TypeInv, Store
  PROVE  TypeInv'
<1>0. Typed /\ sync.pc = "store" /\ sync.pc \notin {"idle", "folder"}
  BY DEF TypeInv, Store
<1>1. /\ sync' \in SyncRecords /\ sync'.pc = sync.then /\ sync'.then = sync.then
      /\ sync'.found = {} /\ SameWork
  BY <1>0, StoreSession
<1>2. UNCHANGED <<remote, cursor, full, widening, aborts, refusals>>
  BY DEF Store, faults
<1>3. \A g \in Folders, u \in Uids :
        local'[g][u] = IF g = sync.folder /\ u \in sync.found THEN sync.valid ELSE local[g][u]
  BY <1>0, OpenTypes DEF Typed, Store
<1>4. local' \in [Folders -> [Uids -> 0..MaxValidity]]
  <2>1. sync.valid \in 0..MaxValidity
    BY <1>0, OpenTypes, Consts
  <2>2. sync.folder \in Folders
    BY <1>0, OpenTypes
  <2>3. PICK row : row = [u \in Uids |-> IF u \in sync.found THEN sync.valid
                                         ELSE local[sync.folder][u]]
    OBVIOUS
  <2>4. row \in [Uids -> 0..MaxValidity]
    BY <1>0, <2>1, <2>2, <2>3 DEF Typed
  <2>5. local' = [local EXCEPT ![sync.folder] = row]
    BY <1>0, <2>2, <2>3 DEF Typed, Store
  <2>6. QED BY <1>0, <2>4, <2>5 DEF Typed
<1>5. Typed'
  BY <1>0, <1>1, <1>2, <1>4 DEF Typed
<1>6. Session'
  <2>1. sync.then \in {"history", "save"}
    BY <1>0 DEF TypeInv, Session
  <2>2. QED BY <1>0, <1>1, <1>2, <2>1, OpenTypes DEF Session, SameWork
<1>7. ASSUME NEW g \in Folders
      PROVE  Numbers(g)'
  <2>1. Numbers(g)
    BY DEF TypeInv
  <2>2. \A u \in Uids : local'[g][u] <= remote[g].valid
    <3>1. sync.valid = remote[sync.folder].valid /\ remote[g].valid \in Nat
      BY <1>0, OpenTypes, FolderTypes
    <3>2. QED BY <1>3, <2>1, <3>1 DEF Numbers
  <2>3. QED BY <1>2, <2>1, <2>2 DEF Numbers
<1>8. QED BY <1>5, <1>6, <1>7 DEF TypeInv

LEMMA SaveTyped ==
  ASSUME TypeInv, Save
  PROVE  TypeInv'
<1>0. Typed /\ sync.pc = "save" /\ sync.pc \notin {"idle", "folder"}
  BY DEF TypeInv, Save
<1>1. /\ sync' \in SyncRecords /\ sync'.pc = "recent" /\ sync'.found = sync.found /\ SameWork
      /\ cursor' \in [Folders -> CursorRecord]
      /\ \A f \in Folders : f # sync.folder => cursor'[f] = cursor[f]
      /\ cursor'[sync.folder].valid = sync.valid /\ cursor'[sync.folder].last = sync.last
  BY <1>0, OpenTypes, SaveSession
<1>2. UNCHANGED <<remote, local, full, widening, aborts, refusals>>
  BY DEF Save, faults
<1>3. Typed'
  BY <1>0, <1>1, <1>2 DEF Typed
<1>4. Session'
  <2>1. sync.found = {}
    BY <1>0 DEF TypeInv, Session
  <2>2. QED BY <1>0, <1>1, <1>2, <2>1, OpenTypes DEF Session, SameWork
<1>5. ASSUME NEW g \in Folders
      PROVE  Numbers(g)'
  <2>1. Numbers(g)
    BY DEF TypeInv
  <2>2. CASE g # sync.folder
    BY <1>1, <1>2, <2>1, <2>2 DEF Numbers
  <2>3. CASE g = sync.folder
    <3>1. cursor'[g].valid = remote[g].valid /\ cursor'[g].last < remote[g].next
          /\ remote[g].valid \in Nat /\ remote[g].valid # 0
      BY <1>0, <1>1, <2>3, OpenTypes, FolderTypes
    <3>2. QED BY <1>2, <2>1, <3>1 DEF Numbers
  <2>4. QED BY <2>2, <2>3
<1>6. QED BY <1>3, <1>4, <1>5 DEF TypeInv

LEMMA DropTyped ==
  ASSUME TypeInv, Drop
  PROVE  TypeInv'
<1>0. Typed /\ sync.pc = "drop" /\ sync.pc \notin {"idle", "folder"}
  BY DEF TypeInv, Drop
<1>1. /\ sync' \in SyncRecords /\ sync'.pc = sync.then /\ sync'.then = sync.then
      /\ sync'.found = {} /\ SameWork
  BY <1>0, DropSession
<1>2. UNCHANGED <<remote, cursor, full, widening, aborts, refusals>>
  BY DEF Drop, faults
<1>3. \A g \in Folders, u \in Uids : local'[g][u] \in {0, local[g][u]}
  BY <1>0, OpenTypes DEF Typed, Drop
<1>4. local' \in [Folders -> [Uids -> 0..MaxValidity]]
  <2>1. sync.folder \in Folders /\ 0 \in 0..MaxValidity
    BY <1>0, OpenTypes, Consts
  <2>2. PICK row : row = [u \in Uids |-> IF u \in Missing THEN 0 ELSE local[sync.folder][u]]
    OBVIOUS
  <2>3. row \in [Uids -> 0..MaxValidity]
    BY <1>0, <2>1, <2>2 DEF Typed
  <2>4. local' = [local EXCEPT ![sync.folder] = row]
    BY <1>0, <2>1, <2>2 DEF Typed, Drop
  <2>5. QED BY <1>0, <2>3, <2>4 DEF Typed
<1>5. Typed'
  BY <1>0, <1>1, <1>2, <1>4 DEF Typed
<1>6. Session'
  <2>1. sync.then \in {"deep", "saveDeep"}
    BY <1>0 DEF TypeInv, Session
  <2>2. QED BY <1>0, <1>1, <1>2, <2>1, OpenTypes DEF Session, SameWork
<1>7. ASSUME NEW g \in Folders
      PROVE  Numbers(g)'
  <2>1. Numbers(g)
    BY DEF TypeInv
  <2>2. \A u \in Uids : local'[g][u] <= remote[g].valid
    <3>1. remote[g].valid \in Nat
      BY FolderTypes
    <3>2. QED BY <1>3, <2>1, <3>1 DEF Numbers
  <2>3. QED BY <1>2, <2>1, <2>2 DEF Numbers
<1>8. QED BY <1>5, <1>6, <1>7 DEF TypeInv

LEMMA SaveDeepTyped ==
  ASSUME TypeInv, SaveDeep
  PROVE  TypeInv'
<1>0. Typed /\ sync.pc = "saveDeep" /\ sync.pc \notin {"idle", "folder"} /\ sync.found = {}
  BY DEF TypeInv, SaveDeep, Session
<1>1. /\ sync' \in SyncRecords /\ sync'.pc = "folder" /\ sync'.found = sync.found
      /\ cursor' \in [Folders -> CursorRecord]
      /\ \A f \in Folders : cursor'[f].valid = cursor[f].valid /\ cursor'[f].last = cursor[f].last
  BY <1>0, OpenTypes, SaveDeepSession
<1>2. UNCHANGED <<remote, local, full, widening, aborts, refusals>>
  BY DEF SaveDeep, faults
<1>3. Typed'
  BY <1>0, <1>1, <1>2 DEF Typed
<1>4. Session'
  BY <1>0, <1>1 DEF Session
<1>5. \A f \in Folders : Numbers(f)'
  BY <1>1, <1>2 DEF TypeInv, Numbers
<1>6. QED BY <1>3, <1>4, <1>5 DEF TypeInv

LEMMA StepTyped ==
  ASSUME TypeInv, [Next]_vars
  PROVE  TypeInv'
<1>1. CASE UNCHANGED vars
  <2>1. UNCHANGED <<remote, local, cursor, full, widening, sync, aborts, refusals>>
    BY <1>1 DEF vars, faults
  <2>2. Typed' /\ Session' /\ \A f \in Folders : Numbers(f)'
    BY <2>1 DEF TypeInv, Typed, Session, Numbers
  <2>3. QED BY <2>2 DEF TypeInv
<1>2. CASE \E f \in Folders : Mail(f) \/ Renew(f) \/ \E u \in Uids : Expunge(f, u)
  BY <1>2, ServerTyped
<1>3. CASE Widen \/ Reopen
  BY <1>3, WidenReopenTyped
<1>4. CASE Begin \/ End \/ Abort
  BY <1>4, RestTyped
<1>5. CASE Open \/ Initial \/ New \/ History \/ Store
  BY <1>5, OpenTyped, InitialTyped, NewTyped, HistoryTyped, StoreTyped
<1>6. CASE Save \/ Recent \/ Drop \/ Deep \/ SaveDeep
  BY <1>6, SaveTyped, RecentTyped, DropTyped, DeepTyped, SaveDeepTyped
<1>7. QED BY <1>1, <1>2, <1>3, <1>4, <1>5, <1>6 DEF Next, SyncStep

LEMMA TypedIsOK == TypeInv => TypeOK
<1> SUFFICES ASSUME TypeInv PROVE TypeOK
  OBVIOUS
<1>1. ASSUME NEW f \in Folders
      PROVE  /\ remote[f] \in RemoteFolders(remote[f].valid)
             /\ remote[f].valid \in 1..MaxValidity
             /\ cursor[f].valid = remote[f].valid => cursor[f].last < remote[f].next
  <2>1. cursor[f].valid = remote[f].valid => cursor[f].last < remote[f].next
    BY DEF TypeInv, Numbers
  <2>2. QED BY <2>1, FolderTypes, RecordsOfFolder
<1>2. sync.folder \in Folders \cup {0} /\ sync.left \subseteq Folders /\ sync.budget \in 0..Batch
  BY DEF TypeInv, Typed, SyncRecords
<1>3. QED BY <1>1, <1>2 DEF TypeInv, Typed, TypeOK

\* Every variable keeps its type, and a cursor stays below the next UID of the numbers it
\* is for: a position is taken from what the server has just said, the folder that is
\* open is not renumbered, and UIDs are only given out, never taken back.
THEOREM TypeCorrect == Spec => []TypeOK
<1>1. Init => TypeInv
  BY InitTyped
<1>2. TypeInv /\ [Next]_vars => TypeInv'
  BY StepTyped
<1>3. TypeInv => TypeOK
  BY TypedIsOK
<1>4. QED BY <1>1, <1>2, <1>3, PTL DEF Spec

-----------------------------------------------------------------------------
(* Only rows of messages that are gone leave the index.                      *)

\* The steps of a sync that leave rows, server and UIDVALIDITY of the cursors alone.
QuietStep ==
  /\ UNCHANGED <<remote, local>> /\ sync'.pc # "drop"
  /\ \A f \in Folders : cursor'[f].valid = cursor[f].valid

LEMMA QuietSteps ==
  ASSUME TypeInv, Begin \/ End \/ Abort \/ Initial \/ New \/ History \/ SaveDeep
  PROVE  QuietStep
<1>0. Typed
  BY DEF TypeInv
<1>1. CASE Begin
  BY <1>0, <1>1, BeginSession DEF Begin, QuietStep
<1>2. CASE End \/ Abort
  BY <1>2 DEF End, Abort, IdleSync, QuietStep
<1>3. CASE Initial
  BY <1>0, <1>3, InitialSession DEF Initial, QuietStep
<1>4. CASE New
  BY <1>0, <1>4, NewSession DEF New, QuietStep
<1>5. CASE History
  BY <1>0, <1>5, HistorySession DEF History, QuietStep
<1>6. CASE SaveDeep
  <2>1. sync.folder \in Folders
    BY <1>6, OpenTypes DEF SaveDeep
  <2>2. QED BY <1>0, <1>6, <2>1, SaveDeepSession DEF SaveDeep, QuietStep
<1>7. QED BY <1>1, <1>2, <1>3, <1>4, <1>5, <1>6

\* What a step of the server does: only one folder changes, and unless it is renumbered
\* what it gains is its next UID.
LEMMA ServerChange ==
  ASSUME TypeInv, NEW f \in Folders,
         Mail(f) \/ Renew(f) \/ \E u \in Uids : Expunge(f, u)
  PROVE  /\ UNCHANGED <<local, cursor, sync, refusals>>
         /\ \A g \in Folders \ {f} : remote'[g] = remote[g]
         /\ \/ /\ remote'[f].valid = remote[f].valid
               /\ \A u \in remote'[f].uids : u \in remote[f].uids \/ u = remote[f].next
            \/ /\ ~OpenFolder(f) /\ remote'[f].valid = remote[f].valid + 1
<1>0. UNCHANGED <<local, cursor, sync, refusals>>
  BY DEF Mail, Renew, Expunge, faults
<1>1. \A g \in Folders \ {f} : remote'[g] = remote[g]
  BY DEF Mail, Renew, Expunge, TypeInv, Typed
<1>2. \/ /\ remote'[f].valid = remote[f].valid
         /\ \A u \in remote'[f].uids : u \in remote[f].uids \/ u = remote[f].next
      \/ /\ ~OpenFolder(f) /\ remote'[f].valid = remote[f].valid + 1
  <2>1. remote \in [Folders -> RemoteRecords] /\ remote[f] \in RemoteRecords
    BY FolderTypes DEF TypeInv, Typed
  <2>2. CASE Mail(f)
    <3>1. PICK y : y = [remote[f] EXCEPT !.uids = @ \cup {remote[f].next}, !.next = @ + 1]
      OBVIOUS
    <3>2. remote'[f] = y
      BY <2>1, <2>2, <3>1 DEF Mail
    <3>3. QED BY <2>1, <3>1, <3>2 DEF RemoteRecords
  <2>3. CASE Renew(f)
    <3>1. PICK y \in RemoteFolders(remote[f].valid + 1) : remote' = [remote EXCEPT ![f] = y]
      BY <2>3 DEF Renew
    <3>2. QED BY <2>1, <2>3, <3>1, FolderRecords DEF Renew
  <2>4. CASE \E u \in Uids : Expunge(f, u)
    <3>1. PICK u \in Uids : Expunge(f, u)
      BY <2>4
    <3>2. PICK y : y = [remote[f] EXCEPT !.uids = @ \ {u}]
      OBVIOUS
    <3>3. remote'[f] = y
      BY <2>1, <3>1, <3>2 DEF Expunge
    <3>4. QED BY <2>1, <3>2, <3>3 DEF RemoteRecords
  <2>5. QED BY <2>2, <2>3, <2>4
<1>3. QED BY <1>0, <1>1, <1>2

LEMMA InitDrops == Init => DropInv
<1> SUFFICES ASSUME Init PROVE DropInv
  OBVIOUS
<1>1. \A f \in Folders : cursor[f].valid = 0
  BY DEF Init, NoCursor
<1>2. sync.pc = "idle"
  BY DEF Init, IdleSync
<1>3. QED BY <1>1, <1>2 DEF DropInv, DropsAreGone, ResetsAreOld

LEMMA ServerKeepsDrops ==
  ASSUME TypeInv, DropInv, NEW f \in Folders,
         Mail(f) \/ Renew(f) \/ \E u \in Uids : Expunge(f, u)
  PROVE  DropInv'
<1>0. UNCHANGED <<local, cursor, sync, refusals>> /\ Typed
  BY ServerChange DEF TypeInv
<1>1. \A g \in Folders \ {f} : remote'[g] = remote[g]
  BY ServerChange
<1>2. \/ /\ remote'[f].valid = remote[f].valid
         /\ \A u \in remote'[f].uids : u \in remote[f].uids \/ u = remote[f].next
      \/ /\ ~OpenFolder(f) /\ remote'[f].valid = remote[f].valid + 1
  BY ServerChange
<1>3. DropsAreGone'
  <2> SUFFICES ASSUME refusals = 0, sync.pc = "drop"
               PROVE  /\ \A u \in sync.range : u < sync.next
                      /\ \A u \in sync.range \ sync.found : u \notin remote'[sync.folder].uids
    BY <1>0 DEF DropsAreGone
  <2>1. /\ \A u \in sync.range : u < sync.next
        /\ \A u \in sync.range \ sync.found : u \notin remote[sync.folder].uids
    BY DEF DropInv, DropsAreGone
  <2>2. CASE sync.folder = f
    <3>1. OpenFolder(f)
      BY <2>2 DEF OpenFolder
    <3>2. \A u \in sync.range : u \in Nat /\ u < sync.next
      BY <2>1, OpenTypes, Consts DEF Uids
    <3>3. \A u \in sync.range : u # remote[f].next
      BY <2>2, <3>2, OpenTypes
    <3>4. QED BY <1>2, <2>1, <2>2, <3>1, <3>3
  <2>3. CASE sync.folder # f
    <3>1. remote'[sync.folder] = remote[sync.folder]
      BY <1>1, <2>3, OpenTypes
    <3>2. QED BY <2>1, <3>1
  <2>4. QED BY <2>2, <2>3
<1>4. ASSUME NEW g \in Folders, cursor[g].valid \notin {0, remote'[g].valid}, NEW u \in Uids
      PROVE  local[g][u] # remote'[g].valid
  <2>1. CASE remote'[g].valid = remote[g].valid
    BY <1>4, <2>1 DEF DropInv, ResetsAreOld
  <2>2. CASE remote'[g].valid = remote[g].valid + 1
    <3>1. local[g][u] <= remote[g].valid /\ local[g][u] \in Nat /\ remote[g].valid \in Nat
      BY FolderTypes, Consts DEF TypeInv, Numbers
    <3>2. QED BY <2>2, <3>1
  <2>3. QED BY <1>1, <1>2, <2>1, <2>2
<1>5. QED BY <1>0, <1>3, <1>4 DEF DropInv, ResetsAreOld

\* What of the rows a store and a delete change.
LEMMA StoreRows ==
  ASSUME TypeInv, Store
  PROVE  \A g \in Folders, u \in Uids :
           local'[g][u] = IF g = sync.folder /\ u \in sync.found THEN sync.valid ELSE local[g][u]
<1>1. sync.folder \in Folders
  BY OpenTypes DEF Store
<1>2. QED BY <1>1 DEF TypeInv, Typed, Store

LEMMA DropRows ==
  ASSUME TypeInv, Drop
  PROVE  \A g \in Folders, u \in Uids :
           local'[g][u] = IF g = sync.folder /\ u \in Missing THEN 0 ELSE local[g][u]
<1>1. sync.folder \in Folders
  BY OpenTypes DEF Drop
<1>2. QED BY <1>1 DEF TypeInv, Typed, Drop

LEMMA SearchKeepsDrops ==
  ASSUME TypeInv, DropInv, Recent \/ Deep
  PROVE  DropInv'
<1>0. UNCHANGED <<remote, local, cursor>> /\ sync.pc \notin {"idle", "folder"} /\ Typed
  BY DEF Recent, Deep, TypeInv
<1>1. ResetsAreOld'
  BY <1>0 DEF DropInv, ResetsAreOld
<1>2. ASSUME NEW range \in SUBSET Uids, NEW found, Search(range, found),
             \A u \in range : u < sync.next,
             sync'.range = range, sync'.found = found, SameWork
      PROVE  DropsAreGone'
  <2>1. sync'.next = sync.next /\ sync'.folder = sync.folder
    BY <1>2 DEF SameWork
  <2>2. refusals' = 0 => found = remote[sync.folder].uids \cap range
    BY <1>2, SearchFinds
  <2>3. QED BY <1>0, <1>2, <2>1, <2>2 DEF DropsAreGone
<1>3. CASE Recent
  <2>1. PICK range \in SUBSET Uids, found \in SUBSET Uids :
           /\ range = RecentRange(sync.next - 1) /\ Search(range, found)
           /\ sync'.range = range /\ sync'.found = found /\ SameWork
    BY <1>0, <1>3, RecentSession
  <2>2. \A u \in range : u < sync.next
    <3>1. \A u \in range : u \in Nat /\ u <= sync.next - 1
      BY <2>1, Consts DEF RecentRange, Uids
    <3>2. QED BY <1>0, <3>1, OpenTypes
  <2>3. QED BY <1>1, <1>2, <2>1, <2>2 DEF DropInv
<1>4. CASE Deep
  <2>1. CASE sync'.pc = "folder"
    BY <1>1, <2>1 DEF DropInv, DropsAreGone
  <2>2. CASE sync'.pc # "folder"
    <3>1. PICK range \in SUBSET Uids, found \in SUBSET Uids :
              /\ range = DeepPlan.uids /\ Search(range, found)
              /\ sync'.range = range /\ sync'.found = found /\ SameWork
      BY <1>0, <1>4, <2>2, DeepSession
    <3>2. \A u \in range : u < sync.next
      BY <1>0, <3>1, DeepPlanIsBelow
    <3>3. QED BY <1>1, <1>2, <3>1, <3>2 DEF DropInv
  <2>3. QED BY <2>1, <2>2
<1>5. QED BY <1>3, <1>4

LEMMA StepKeepsDrops ==
  ASSUME TypeInv, DropInv, [Next]_vars
  PROVE  DropInv'
<1>0. Typed /\ \A g \in Folders : remote[g].valid # 0
  BY FolderTypes, Consts DEF TypeInv
<1>1. CASE UNCHANGED vars
  BY <1>1 DEF vars, faults, DropInv, DropsAreGone, ResetsAreOld
<1>2. CASE \E f \in Folders : Mail(f) \/ Renew(f) \/ \E u \in Uids : Expunge(f, u)
  BY <1>2, ServerKeepsDrops
<1>3. CASE Widen \/ Reopen
  <2>1. UNCHANGED <<remote, local, sync, refusals>>
    BY <1>3 DEF Widen, Reopen, faults
  <2>2. \A f \in Folders : cursor'[f].valid = cursor[f].valid
    <3>1. CASE Widen
      BY <3>1 DEF Widen
    <3>2. CASE Reopen
      <4>1. TAKE f \in Folders
      <4>2. PICK c \in CursorRecord : c = cursor[f]
        BY FolderTypes
      <4>3. cursor'[f] = IF c.valid = 0 THEN c
            ELSE [c EXCEPT !.complete = FALSE, !.back = IF @ # 0 THEN @ ELSE c.last + 1]
        BY <3>2, <4>2 DEF Reopen
      <4>4. QED BY <4>2, <4>3 DEF CursorRecord
    <3>3. QED BY <1>3, <3>1, <3>2
  <2>3. QED BY <2>1, <2>2 DEF DropInv, DropsAreGone, ResetsAreOld
<1>4. CASE Begin \/ End \/ Abort \/ Initial \/ New \/ History \/ SaveDeep
  <2>1. QuietStep
    BY <1>4, QuietSteps
  <2>2. QED BY <2>1 DEF QuietStep, DropInv, DropsAreGone, ResetsAreOld
<1>5. CASE Open
  <2>1. PICK f \in sync.left, cur \in CursorRecord :
           /\ f \in Folders
           /\ \/ /\ cursor[f].valid \notin {0, remote[f].valid} /\ Reset(f)
              \/ UNCHANGED <<local, cursor>>
           /\ sync'.pc = IF cur.valid = 0 THEN "initial" ELSE "new"
    BY <1>0, <1>5, OpenSession
  <2>2. DropsAreGone' /\ UNCHANGED remote
    BY <1>5, <2>1 DEF Open, DropsAreGone
  <2>3. CASE Reset(f)
    <3>1. NoCursor.valid = 0
      BY DEF NoCursor
    <3>2. /\ \A g \in Folders, u \in Uids : local'[g][u] \in {0, local[g][u]}
          /\ \A g \in Folders : cursor'[g] \in {NoCursor, cursor[g]}
      BY <2>1, <2>3, ResetLeaves
    <3>3. QED BY <1>0, <2>2, <3>1, <3>2 DEF DropInv, ResetsAreOld
  <2>4. CASE UNCHANGED <<local, cursor>>
    BY <2>2, <2>4 DEF DropInv, ResetsAreOld
  <2>5. QED BY <2>1, <2>3, <2>4
<1>6. CASE Store
  <2>1. sync'.pc # "drop"
    <3>1. sync'.pc = sync.then
      BY <1>0, <1>6, StoreSession
    <3>2. QED BY <1>6, <3>1 DEF Store, TypeInv, Session
  <2>2. cursor[sync.folder].valid \in {0, remote[sync.folder].valid}
    BY <1>6, OpenTypes DEF Store
  <2>3. QED BY <1>6, <2>1, <2>2, StoreRows DEF Store, DropInv, DropsAreGone, ResetsAreOld
<1>7. CASE Save
  <2>1. sync.folder \in Folders /\ sync.valid = remote[sync.folder].valid
    BY <1>7, OpenTypes DEF Save
  <2>2. /\ sync'.pc = "recent" /\ cursor'[sync.folder].valid = sync.valid
        /\ \A f \in Folders : f # sync.folder => cursor'[f] = cursor[f]
    BY <1>0, <1>7, <2>1, SaveSession
  <2>3. QED BY <1>7, <2>1, <2>2 DEF Save, DropInv, DropsAreGone, ResetsAreOld
<1>8. CASE Drop
  <2>1. sync'.pc # "drop"
    <3>1. sync'.pc = sync.then
      BY <1>0, <1>8, DropSession
    <3>2. QED BY <1>8, <3>1 DEF Drop, TypeInv, Session
  <2>2. QED BY <1>0, <1>8, <2>1, DropRows DEF Drop, DropInv, DropsAreGone, ResetsAreOld
<1>9. CASE Recent \/ Deep
  BY <1>9, SearchKeepsDrops
<1>10. QED BY <1>1, <1>2, <1>3, <1>4, <1>5, <1>6, <1>7, <1>8, <1>9 DEF Next, SyncStep

LEMMA StepDropsOnlyTheGone ==
  ASSUME TypeInv, DropInv, ~Threaded, [Next]_vars, refusals = 0
  PROVE  DroppedAreGone
<1> SUFFICES ASSUME NEW f \in Folders, NEW u \in Uids, local[f][u] # 0, local'[f][u] = 0
             PROVE  u \notin remote[f].uids \/ local[f][u] # remote[f].valid
  BY DEF DroppedAreGone
<1>0. Typed
  BY DEF TypeInv
<1>1. CASE local' = local
  BY <1>1
<1>2. CASE Open
  <2>1. PICK g \in sync.left, cur \in CursorRecord :
           /\ g \in Folders
           /\ \/ /\ cursor[g].valid \notin {0, remote[g].valid} /\ Reset(g)
              \/ UNCHANGED <<local, cursor>>
    BY <1>0, <1>2, OpenSession
  <2>2. CASE cursor[g].valid \notin {0, remote[g].valid} /\ Reset(g)
    <3>1. g = f
      BY <2>1, <2>2, ResetLeaves
    <3>2. QED BY <2>2, <3>1 DEF DropInv, ResetsAreOld
  <2>3. QED BY <1>1, <2>1, <2>2
<1>3. CASE Store
  <2>1. sync.valid # 0
    BY <1>3, OpenTypes, Consts DEF Store
  <2>2. QED BY <1>3, <2>1, StoreRows
<1>4. CASE Drop
  <2>1. f = sync.folder /\ u \in Missing
    BY <1>4, DropRows
  <2>2. u \in sync.range \ sync.found
    BY <2>1 DEF Missing
  <2>3. QED BY <1>4, <2>1, <2>2 DEF Drop, DropInv, DropsAreGone
<1>5. QED
  BY <1>1, <1>2, <1>3, <1>4 DEF Next, SyncStep, vars, Mail, Renew, Expunge, Widen, Reopen,
    Begin, End, Initial, New, History, Save, Recent, Deep, SaveDeep, Abort

\* Servers without thread ids: the reset of a folder stays within it.
DropSafe == TypeInv /\ DropInv /\ ~Threaded

\* Where the server gives no thread ids, and as long as no search failed, only rows of
\* messages that are gone leave the index, whatever arrives between search and delete:
\* what was asked for lies below the next UID the session has seen, so what it did not
\* name never comes, and a folder is cleared only when all its rows are of old numbers.
THEOREM DropsAlwaysOnlyTheGone == ~Threaded => (Spec => DropsOnlyTheGone)
<1> SUFFICES ASSUME ~Threaded PROVE Spec => DropsOnlyTheGone
  OBVIOUS
<1>1. Init => DropSafe
  BY InitTyped, InitDrops DEF DropSafe
<1>2. DropSafe /\ [Next]_vars => DropSafe'
  BY StepTyped, StepKeepsDrops DEF DropSafe
<1>3. DropSafe /\ [Next]_vars => [refusals = 0 => DroppedAreGone]_vars
  BY StepDropsOnlyTheGone DEF DropSafe
<1>4. QED BY <1>1, <1>2, <1>3, PTL DEF Spec, DropsOnlyTheGone

-----------------------------------------------------------------------------
(* A cursor keeps its promise.                                               *)

\* What a cursor with these positions covers.
Covered(c, f, u) ==
  /\ c.valid = remote[f].valid /\ u \in remote[f].uids \ OldUids /\ u <= c.last
  /\ c.complete \/ (c.back # 0 /\ u >= c.back)

LEMMA CoversDef ==
  CursorCoversIndex <=>
    (refusals = 0 => \A f \in Folders, u \in Uids :
                       Covered(cursor[f], f, u) => local[f][u] = remote[f].valid)
BY DEF CursorCoversIndex, Covered

LEMMA ServerKeepsCover ==
  ASSUME TypeInv, CoverInv, NEW f \in Folders,
         Mail(f) \/ Renew(f) \/ \E u \in Uids : Expunge(f, u)
  PROVE  CoverInv'
<1>0. UNCHANGED <<local, cursor, sync, refusals>> /\ Typed
  BY ServerChange DEF TypeInv
<1>1. \A g \in Folders \ {f} : remote'[g] = remote[g]
  BY ServerChange
<1>2. \/ /\ remote'[f].valid = remote[f].valid
         /\ \A u \in remote'[f].uids : u \in remote[f].uids \/ u = remote[f].next
      \/ /\ ~OpenFolder(f) /\ remote'[f].valid = remote[f].valid + 1
  BY ServerChange
<1>3. Positions'
  BY <1>0 DEF CoverInv, Positions
<1>4. refusals = 0 => Working'
  <2> SUFFICES ASSUME refusals = 0, sync.pc \in {"new", "history", "store", "save"},
                      NEW u \in remote'[sync.folder].uids, Promised(u)
               PROVE  local[sync.folder][u] = sync.valid \/ u \in sync.found
    BY <1>0 DEF Working, Promised
  <2>1. sync.folder \in Folders /\ sync.last < remote[sync.folder].next
        /\ remote[sync.folder].next \in Nat /\ sync.last \in Nat /\ u <= sync.last
    BY OpenTypes DEF Promised
  <2>2. u \in remote[sync.folder].uids
    <3>1. CASE sync.folder = f
      <4>1. OpenFolder(f)
        BY <3>1 DEF OpenFolder
      <4>2. u # remote[f].next
        BY <2>1, <3>1
      <4>3. QED BY <1>2, <3>1, <4>1, <4>2
    <3>2. QED BY <1>1, <2>1, <3>1
  <2>3. QED BY <2>2 DEF CoverInv, Working
<1>5. CursorCoversIndex'
  <2> SUFFICES ASSUME refusals = 0, NEW g \in Folders, NEW u \in Uids,
                      Covered(cursor[g], g, u)'
               PROVE  local[g][u] = remote'[g].valid
    BY <1>0 DEF CursorCoversIndex, Covered
  <2>1. /\ cursor[g].valid = remote'[g].valid /\ u \in remote'[g].uids \ OldUids
        /\ u <= cursor[g].last
        /\ cursor[g].complete \/ (cursor[g].back # 0 /\ u >= cursor[g].back)
    BY <1>0 DEF Covered
  <2>2. remote'[g].valid = remote[g].valid /\ u \in remote[g].uids
    <3>1. CASE g = f
      <4>1. remote'[f].valid = remote[f].valid
        <5>1. cursor[f].valid <= remote[f].valid /\ cursor[f].valid \in Nat /\ remote[f].valid \in Nat
          BY FolderTypes DEF TypeInv, Numbers
        <5>2. QED BY <1>2, <2>1, <3>1, <5>1
      <4>2. cursor[f].last < remote[f].next /\ cursor[f].last \in Nat /\ remote[f].next \in Nat
        BY <2>1, <3>1, <4>1, FolderTypes DEF TypeInv, Numbers
      <4>3. u # remote[f].next
        BY <2>1, <3>1, <4>2
      <4>4. remote[f].valid \in Nat
        BY FolderTypes
      <4>5. QED BY <1>2, <2>1, <3>1, <4>1, <4>3, <4>4
    <3>2. QED BY <1>1, <2>1, <3>1
  <2>3. QED BY <2>1, <2>2 DEF CoverInv, CursorCoversIndex
<1>6. QED BY <1>0, <1>3, <1>4, <1>5 DEF CoverInv

\* Steps that leave rows alone, take no more into a cursor, and are not the work on a folder.
LEMMA IdleKeepsCover ==
  ASSUME TypeInv, CoverInv, UNCHANGED <<remote, local>>, refusals' = 0 => refusals = 0,
         sync'.pc \notin {"initial", "new", "history", "store", "save"},
         \A f \in Folders : /\ cursor'[f].valid # 0 => cursor'[f].last > 0
                            /\ \A u \in Uids : Covered(cursor[f], f, u)' => Covered(cursor[f], f, u)
  PROVE  CoverInv'
<1>1. Positions'
  BY DEF Positions
<1>2. Working'
  BY DEF Working
<1>3. CursorCoversIndex'
  <2>1. \A f \in Folders, u \in Uids : Covered(cursor[f], f, u)' <=>
           /\ cursor'[f].valid = remote[f].valid /\ u \in remote[f].uids \ OldUids
           /\ u <= cursor'[f].last
           /\ cursor'[f].complete \/ (cursor'[f].back # 0 /\ u >= cursor'[f].back)
    BY DEF Covered
  <2>2. refusals' = 0 => \A f \in Folders, u \in Uids :
                       Covered(cursor[f], f, u)' => local[f][u] = remote[f].valid
    BY CoversDef DEF CoverInv
  <2>3. QED BY <2>1, <2>2 DEF CursorCoversIndex
<1>4. QED BY <1>1, <1>2, <1>3 DEF CoverInv

LEMMA UserKeepsCover ==
  ASSUME TypeInv, CoverInv, Widen \/ Reopen
  PROVE  CoverInv'
<1>0. UNCHANGED <<remote, local, sync, refusals>>
  BY DEF Widen, Reopen, faults
<1>1. Working <=> Working'
  BY <1>0 DEF Working, Promised
<1>2. CASE Widen
  <2>1. cursor' = cursor
    BY <1>2 DEF Widen
  <2>2. QED BY <1>0, <1>1, <2>1 DEF CoverInv, Positions, CursorCoversIndex
<1>3. CASE Reopen
  <2>1. ASSUME NEW f \in Folders
        PROVE  /\ cursor'[f].valid = cursor[f].valid /\ cursor'[f].last = cursor[f].last
               /\ \A u \in Uids : Covered(cursor[f], f, u)' => Covered(cursor[f], f, u)
    <3>1. PICK c \in CursorRecord : c = cursor[f]
      BY FolderTypes
    <3>2. cursor'[f] = IF c.valid = 0 THEN c
            ELSE [c EXCEPT !.complete = FALSE, !.back = IF @ # 0 THEN @ ELSE c.last + 1]
      BY <1>3, <3>1 DEF Reopen
    <3>3. PICK d : d = cursor'[f]
      OBVIOUS
    <3>4. /\ d.valid = c.valid /\ d.last = c.last
          /\ \/ d = c
             \/ d.complete = FALSE /\ d.back = IF c.back # 0 THEN c.back ELSE c.last + 1
      BY <3>2, <3>3 DEF CursorRecord
    <3>5. ASSUME NEW u \in Uids, Covered(cursor[f], f, u)'
          PROVE  Covered(c, f, u)
      <4>1. /\ d.valid = remote[f].valid /\ u \in remote[f].uids \ OldUids /\ u <= d.last
            /\ d.complete \/ (d.back # 0 /\ u >= d.back)
        BY <1>0, <3>3, <3>5 DEF Covered
      <4>2. u \in Nat /\ c.last \in Nat
        BY Consts DEF Uids, CursorRecord
      <4>3. d.back = c.last + 1 => ~(u >= d.back)
        BY <3>4, <4>1, <4>2
      <4>4. c.complete \/ (c.back # 0 /\ u >= c.back)
        BY <3>4, <4>1, <4>3
      <4>5. QED BY <3>4, <4>1, <4>4 DEF Covered
    <3>6. QED BY <3>1, <3>3, <3>4, <3>5
  <2>2. Positions'
    BY <1>0, <2>1 DEF CoverInv, Positions
  <2>3. CursorCoversIndex'
    <3>1. \A f \in Folders, u \in Uids : Covered(cursor[f], f, u)' <=>
             /\ cursor'[f].valid = remote[f].valid /\ u \in remote[f].uids \ OldUids
             /\ u <= cursor'[f].last
             /\ cursor'[f].complete \/ (cursor'[f].back # 0 /\ u >= cursor'[f].back)
      BY <1>0 DEF Covered
    <3>2. refusals = 0 => \A f \in Folders, u \in Uids :
                         Covered(cursor[f], f, u)' => local[f][u] = remote[f].valid
      BY <2>1, CoversDef DEF CoverInv
    <3>3. QED BY <1>0, <3>1, <3>2 DEF CursorCoversIndex
  <2>4. QED BY <1>0, <1>1, <2>2, <2>3 DEF CoverInv
<1>4. QED BY <1>2, <1>3

\* A step on the open folder that changes neither rows nor cursors keeps CoverInv when
\* it keeps the positions and the work.
LEMMA WorkKeepsCover ==
  ASSUME CoverInv, UNCHANGED <<remote, local, cursor>>, refusals' = 0 => refusals = 0,
         Positions', refusals' = 0 => Working'
  PROVE  CoverInv'
BY DEF CoverInv, CursorCoversIndex

LEMMA UidsAreNumbers == \A u \in Uids : u \in Nat /\ u > 0
BY Consts DEF Uids

LEMMA InitialKeepsCover ==
  ASSUME TypeInv, CoverInv, MinNext > 1, Initial
  PROVE  CoverInv'
<1>0. Typed /\ sync.pc = "initial" /\ sync.pc \notin {"idle", "folder"}
      /\ UNCHANGED <<remote, local, cursor>>
  BY DEF TypeInv, Initial
<1>1. PICK matching \in SUBSET Uids :
           /\ Search({u \in Uids : InRange(u)}, matching)
           /\ sync' \in SyncRecords
           /\ sync'.pc = "store" /\ sync'.then = "save"
           /\ sync'.found = Newest(matching, sync.budget)
           /\ sync'.last = sync.next - 1
           /\ sync'.back = IF sync'.found = {} THEN 0 ELSE Min(sync'.found)
           /\ sync'.complete = (sync'.found = matching)
           /\ sync'.folder = sync.folder /\ sync'.cur = sync.cur
  BY <1>0, InitialSession
<1>2. refusals' = 0 => refusals = 0 /\ \A u \in remote[sync.folder].uids :
                         u \notin OldUids => u \in matching
  <2>1. remote[sync.folder].uids \subseteq Uids
    BY <1>0, OpenTypes, FolderTypes
  <2>2. QED BY <1>1, <2>1, SearchFinds DEF InRange
<1>3. Positions'
  <2>1. sync'.last > 0
    BY <1>0, <1>1, OpenTypes, Consts
  <2>2. QED BY <1>0, <1>1, <2>1 DEF CoverInv, Positions
<1>4. ASSUME refusals' = 0, NEW u \in remote[sync.folder].uids, Promised(u)'
      PROVE  u \in sync'.found
  <2>1. sync.cur.valid = 0
    BY <1>0 DEF CoverInv, Positions
  <2>2. u \notin OldUids /\ (sync'.complete \/ (sync'.back # 0 /\ sync'.back <= u))
    BY <1>1, <1>4, <2>1 DEF Promised
  <2>3. u \in matching /\ u \in Nat
    BY <1>1, <1>2, <1>4, <2>2, UidsAreNumbers
  <2>4. CASE sync'.complete
    BY <1>1, <2>3, <2>4
  <2>5. CASE sync'.back # 0 /\ sync'.back <= u
    <3>1. sync.budget \in Nat
      BY <1>0, Consts DEF Typed, SyncRecords
    <3>2. sync'.found \in SUBSET Nat /\ sync'.found # {}
      BY <1>1, <2>5, <3>1, NewestOf, UidsAreNumbers
    <3>3. Min(sync'.found) \in sync'.found /\ Min(sync'.found) <= u
      BY <1>1, <2>5, <3>2, MinOf
    <3>4. QED BY <1>1, <2>3, <3>1, <3>3, NewestOf
  <2>6. QED BY <2>2, <2>4, <2>5
<1>5. refusals' = 0 => Working'
  BY <1>0, <1>1, <1>4 DEF Working
<1>6. QED BY <1>0, <1>2, <1>3, <1>5, WorkKeepsCover

LEMMA NewKeepsCover ==
  ASSUME TypeInv, CoverInv, New
  PROVE  CoverInv'
<1>0. Typed /\ sync.pc = "new" /\ sync.pc \notin {"idle", "folder"} /\ sync.found = {}
      /\ UNCHANGED <<remote, local, cursor>>
  BY DEF TypeInv, Session, New
<1>1. PICK fresh \in SUBSET Uids :
           /\ Search({u \in Uids : u > sync.last}, fresh)
           /\ sync' \in SyncRecords
           /\ sync'.pc = "store" /\ sync'.then \in {"history", "save"}
           /\ sync'.then = "history" => ~sync'.complete
           /\ sync'.found = Oldest(fresh, sync.budget)
           /\ sync'.last = Max(sync'.found \cup {sync.last})
           /\ sync'.back = sync.back /\ sync'.complete = sync.complete
           /\ sync'.folder = sync.folder /\ sync'.valid = sync.valid /\ sync'.cur = sync.cur
  BY <1>0, NewSession
<1>2. /\ sync.last = sync.cur.last /\ sync.cur.valid # 0 /\ sync.last > 0
      /\ sync.last \in 0..MaxUid /\ sync.last \in Nat /\ sync.budget \in Nat
  BY <1>0, Consts DEF CoverInv, Positions, Typed, SyncRecords
<1>3. refusals' = 0 => refusals = 0 /\ \A u \in remote[sync.folder].uids :
                         u > sync.last => u \in fresh
  <2>1. remote[sync.folder].uids \subseteq Uids
    BY <1>0, OpenTypes, FolderTypes
  <2>2. QED BY <1>1, <2>1, SearchFinds
<1>4. /\ sync'.last \in sync'.found \cup {sync.last} /\ sync.last <= sync'.last
      /\ sync'.last \in Nat
  <2>1. PICK S : S = sync'.found \cup {sync.last}
    OBVIOUS
  <2>2. S \in SUBSET (0..MaxUid) /\ S # {} /\ sync.last \in S
    <3>1. \A u \in Uids : u \in 0..MaxUid
      BY Consts DEF Uids
    <3>2. sync'.found \in SUBSET Uids
      BY <1>1 DEF SyncRecords
    <3>3. QED BY <1>2, <2>1, <3>1, <3>2
  <2>3. Max(S) \in S /\ sync.last <= Max(S)
    BY <2>2, Consts, MaxOf
  <2>4. QED BY <1>1, <2>1, <2>2, <2>3, Consts
<1>5. Positions'
  <2>1. sync'.last > 0
    BY <1>2, <1>4
  <2>2. QED BY <1>0, <1>1, <1>2, <2>1 DEF CoverInv, Positions
<1>6. ASSUME refusals' = 0, NEW u \in remote[sync.folder].uids, Promised(u)'
      PROVE  local[sync.folder][u] = sync.valid \/ u \in sync'.found
  <2>0. u \in Nat
    BY <1>0, OpenTypes, FolderTypes, UidsAreNumbers
  <2>1. CASE u <= sync.last
    <3>1. ~(sync.cur.last < u)
      BY <1>2, <2>0, <2>1
    <3>2. Promised(u)
      BY <1>1, <1>6, <2>1, <3>1 DEF Promised
    <3>3. QED BY <1>0, <1>3, <1>6, <3>2 DEF CoverInv, Working
  <2>2. CASE u > sync.last
    <3>1. u \in fresh
      BY <1>3, <1>6, <2>2
    <3>2. u <= sync'.last
      BY <1>6 DEF Promised
    <3>3. sync'.last \in sync'.found
      BY <1>2, <1>4, <2>0, <2>2, <3>2
    <3>4. QED BY <1>1, <1>2, <3>1, <3>2, <3>3, OldestOf
  <2>3. QED BY <1>2, <2>0, <2>1, <2>2
<1>7. refusals' = 0 => Working'
  BY <1>0, <1>1, <1>6 DEF Working
<1>8. QED BY <1>0, <1>3, <1>5, <1>7, WorkKeepsCover

LEMMA HistoryKeepsCover ==
  ASSUME TypeInv, CoverInv, History
  PROVE  CoverInv'
<1>0. Typed /\ sync.pc = "history" /\ sync.pc \notin {"idle", "folder"} /\ sync.found = {}
      /\ UNCHANGED <<remote, local, cursor>>
  BY DEF TypeInv, Session, History
<1>1. PICK older \in SUBSET Uids :
           /\ Search({u \in Uids : u < BackfillBefore /\ InRange(u)}, older)
           /\ sync' \in SyncRecords
           /\ sync'.pc = "store" /\ sync'.then = "save"
           /\ sync'.found = Newest(older, sync.budget)
           /\ sync'.last = sync.last
           /\ sync'.back = IF sync'.found = {} THEN sync.back ELSE Min(sync'.found)
           /\ sync'.complete = (sync'.found = older)
           /\ sync'.folder = sync.folder /\ sync'.valid = sync.valid /\ sync'.cur = sync.cur
  BY <1>0, HistorySession
<1>2. /\ sync.cur.valid # 0 /\ sync.cur.last > 0 /\ sync.last > 0
      /\ sync.cur.last \in Nat /\ sync.back \in Nat /\ sync.budget \in Nat
  BY <1>0, Consts DEF CoverInv, Positions, Typed, SyncRecords, CursorRecord
<1>3. refusals' = 0 => refusals = 0 /\ \A u \in remote[sync.folder].uids :
                         u < BackfillBefore /\ u \notin OldUids => u \in older
  <2>1. remote[sync.folder].uids \subseteq Uids
    BY <1>0, OpenTypes, FolderTypes
  <2>2. QED BY <1>1, <2>1, SearchFinds DEF InRange
<1>4. Positions'
  BY <1>0, <1>1, <1>2 DEF CoverInv, Positions
<1>5. BackfillBefore = IF sync.back # 0 THEN sync.back ELSE sync.cur.last + 1
  BY <1>2 DEF BackfillBefore
<1>6. ASSUME refusals' = 0, NEW u \in remote[sync.folder].uids, Promised(u)'
      PROVE  local[sync.folder][u] = sync.valid \/ u \in sync'.found
  <2>0. u \in Nat
    BY <1>0, OpenTypes, FolderTypes, UidsAreNumbers
  <2>1. CASE Promised(u)
    BY <1>0, <1>3, <1>6, <2>1 DEF CoverInv, Working
  <2>2. CASE ~Promised(u)
    <3>1. /\ u <= sync.last /\ u \notin OldUids /\ ~(sync.cur.last < u)
          /\ ~(sync.back # 0 /\ sync.back <= u)
          /\ sync'.complete \/ (sync'.back # 0 /\ sync'.back <= u)
      BY <1>1, <1>2, <1>6, <2>2 DEF Promised
    <3>2. u < BackfillBefore
      BY <1>2, <1>5, <2>0, <3>1
    <3>3. u \in older
      BY <1>3, <1>6, <3>1, <3>2
    <3>4. CASE sync'.complete
      BY <1>1, <3>3, <3>4
    <3>5. CASE sync'.back # 0 /\ sync'.back <= u
      <4>1. sync'.found \in SUBSET Nat /\ sync'.found # {}
        BY <1>1, <1>2, <3>1, <3>5, NewestOf, UidsAreNumbers
      <4>2. Min(sync'.found) \in sync'.found /\ Min(sync'.found) <= u
        BY <1>1, <3>5, <4>1, MinOf
      <4>3. QED BY <1>1, <1>2, <3>3, <4>2, NewestOf
    <3>6. QED BY <3>1, <3>4, <3>5
  <2>3. QED BY <2>1, <2>2
<1>7. refusals' = 0 => Working'
  BY <1>0, <1>1, <1>6 DEF Working
<1>8. QED BY <1>0, <1>3, <1>4, <1>7, WorkKeepsCover

LEMMA StoreKeepsCover ==
  ASSUME TypeInv, CoverInv, Store
  PROVE  CoverInv'
<1>0. Typed /\ sync.pc = "store" /\ sync.pc \notin {"idle", "folder"}
      /\ UNCHANGED <<remote, cursor, refusals>>
  BY DEF TypeInv, Store, faults
<1>1. /\ sync'.pc = sync.then /\ sync'.found = {} /\ SameWork
      /\ sync.then \in {"history", "save"} /\ sync.folder \in Folders
      /\ sync.valid = remote[sync.folder].valid /\ sync'.then = sync.then
  BY <1>0, StoreSession, OpenTypes DEF TypeInv, Session
<1>2. Positions'
  BY <1>0, <1>1 DEF CoverInv, Positions, SameWork
<1>3. refusals = 0 => Working'
  <2>1. \A u : Promised(u)' <=> Promised(u)
    BY <1>1 DEF SameWork, Promised
  <2>2. \A u \in remote[sync.folder].uids : u \in Uids
    BY <1>1, FolderTypes
  <2>3. QED BY <1>0, <1>1, <2>1, <2>2, StoreRows DEF CoverInv, Working, SameWork
<1>4. CursorCoversIndex'
  BY <1>0, <1>1, StoreRows DEF CoverInv, CursorCoversIndex
<1>5. QED BY <1>0, <1>2, <1>3, <1>4 DEF CoverInv

LEMMA SaveKeepsCover ==
  ASSUME TypeInv, CoverInv, Save
  PROVE  CoverInv'
<1>0. Typed /\ sync.pc = "save" /\ sync.pc \notin {"idle", "folder"} /\ sync.found = {}
      /\ UNCHANGED <<remote, local, refusals>>
  BY DEF TypeInv, Session, Save, faults
<1>1. /\ sync.folder \in Folders /\ sync.valid = remote[sync.folder].valid
      /\ sync'.pc = "recent"
      /\ \A f \in Folders : f # sync.folder => cursor'[f] = cursor[f]
      /\ cursor'[sync.folder].valid = sync.valid /\ cursor'[sync.folder].last = sync.last
      /\ cursor'[sync.folder].back = sync.back
      /\ cursor'[sync.folder].complete = sync.complete
  BY <1>0, OpenTypes, SaveSession
<1>2. Positions'
  BY <1>0, <1>1 DEF CoverInv, Positions
<1>3. Working'
  BY <1>1 DEF Working
<1>4. CursorCoversIndex'
  <2> SUFFICES ASSUME refusals = 0, NEW f \in Folders, NEW u \in Uids,
                      cursor'[f].valid = remote[f].valid,
                      u \in remote[f].uids \ OldUids, u <= cursor'[f].last,
                      cursor'[f].complete \/ (cursor'[f].back # 0 /\ u >= cursor'[f].back)
               PROVE  local[f][u] = remote[f].valid
    BY <1>0 DEF CursorCoversIndex
  <2>1. CASE f # sync.folder
    BY <1>1, <2>1 DEF CoverInv, CursorCoversIndex
  <2>2. CASE f = sync.folder
    <3>1. sync.back \in Nat /\ u \in Nat
      BY <1>0, UidsAreNumbers, Consts DEF Typed, SyncRecords
    <3>2. sync.back # 0 /\ u >= sync.back => sync.back <= u
      BY <3>1
    <3>3. Promised(u)
      BY <1>1, <2>2, <3>2 DEF Promised
    <3>4. QED BY <1>0, <1>1, <2>2, <3>3 DEF CoverInv, Working
  <2>3. QED BY <2>1, <2>2
<1>5. QED BY <1>2, <1>3, <1>4 DEF CoverInv

LEMMA OpenKeepsCover ==
  ASSUME TypeInv, CoverInv, ~Threaded, Open
  PROVE  CoverInv'
<1>0. Typed /\ UNCHANGED <<remote, refusals>>
  BY DEF TypeInv, Open, faults
<1>1. PICK f \in sync.left, cur \in CursorRecord :
           /\ f \in Folders
           /\ \/ /\ cursor[f].valid \notin {0, remote[f].valid} /\ cur = NoCursor /\ Reset(f)
              \/ /\ cursor[f].valid \in {0, remote[f].valid} /\ cur = cursor[f]
                 /\ UNCHANGED <<local, cursor>>
           /\ sync' \in SyncRecords
           /\ sync'.pc = IF cur.valid = 0 THEN "initial" ELSE "new"
           /\ sync'.folder = f /\ sync'.valid = remote[f].valid
           /\ sync'.cur = cur
           /\ sync'.last = IF cur.last = 0 /\ cur.complete THEN remote[f].next - 1 ELSE cur.last
           /\ sync'.back = cur.back /\ sync'.complete = cur.complete
  BY <1>0, OpenSession
<1>2. CASE cursor[f].valid \notin {0, remote[f].valid} /\ cur = NoCursor /\ Reset(f)
  <2>1. cur.valid = 0 /\ NoCursor.valid = 0
    BY <1>2 DEF NoCursor
  <2>2. /\ cursor'[f] = NoCursor
        /\ \A g \in Folders \ {f} : cursor'[g] = cursor[g]
        /\ \A g \in Folders \ {f} : \A u \in Uids : local'[g][u] = local[g][u]
    BY <1>1, <1>2, ResetLeaves
  <2>3. Positions'
    BY <1>1, <2>1, <2>2 DEF CoverInv, Positions
  <2>4. Working'
    BY <1>1, <2>1 DEF Working
  <2>5. CursorCoversIndex'
    <3>1. remote[f].valid # 0
      BY <1>1, FolderTypes
    <3>2. QED BY <1>0, <2>1, <2>2, <3>1 DEF CoverInv, CursorCoversIndex
  <2>6. QED BY <2>3, <2>4, <2>5 DEF CoverInv
<1>3. CASE /\ cursor[f].valid \in {0, remote[f].valid} /\ cur = cursor[f]
           /\ UNCHANGED <<local, cursor>>
  <2>1. CursorCoversIndex'
    BY <1>0, <1>3 DEF CoverInv, CursorCoversIndex
  <2>2. CASE cur.valid = 0
    <3>1. Positions'
      BY <1>1, <1>3, <2>2 DEF CoverInv, Positions
    <3>2. Working'
      BY <1>1, <2>2 DEF Working
    <3>3. QED BY <2>1, <3>1, <3>2 DEF CoverInv
  <2>3. CASE cur.valid # 0
    <3>1. cur.last > 0 /\ cur.last \in Nat
      BY <1>1, <1>3, <2>3, Consts DEF CoverInv, Positions, CursorRecord
    <3>2. sync'.last = cur.last
      BY <1>1, <3>1
    <3>3. Positions'
      BY <1>1, <1>3, <2>3, <3>1, <3>2 DEF CoverInv, Positions
    <3>4. ASSUME refusals = 0, NEW u \in remote[f].uids, Promised(u)'
          PROVE  local[f][u] = remote[f].valid
      <4>1. u \in Uids /\ u \in Nat /\ cur.back \in Nat
        BY <1>1, FolderTypes, UidsAreNumbers, Consts DEF CursorRecord
      <4>2. /\ u <= cur.last /\ u \notin OldUids
            /\ cur.complete \/ (cur.back # 0 /\ cur.back <= u)
        BY <1>1, <3>1, <3>2, <3>4, <4>1 DEF Promised
      <4>3. cur.back <= u => u >= cur.back
        BY <4>1
      <4>4. QED BY <1>1, <1>3, <2>3, <3>4, <4>1, <4>2, <4>3 DEF CoverInv, CursorCoversIndex
    <3>5. refusals = 0 => Working'
      BY <1>0, <1>1, <1>3, <3>4 DEF Working
    <3>6. QED BY <1>0, <2>1, <3>3, <3>5 DEF CoverInv
  <2>4. QED BY <2>2, <2>3
<1>4. QED BY <1>1, <1>2, <1>3

LEMMA DropKeepsCover ==
  ASSUME TypeInv, CoverInv, DropInv, Drop
  PROVE  CoverInv'
<1>0. Typed /\ sync.pc = "drop" /\ UNCHANGED <<remote, cursor, refusals>>
  BY DEF TypeInv, Drop, faults
<1>1. sync'.pc \in {"deep", "saveDeep"}
  BY <1>0, DropSession DEF TypeInv, Session
<1>2. Positions' /\ Working'
  BY <1>0, <1>1 DEF CoverInv, Positions, Working
<1>3. CursorCoversIndex'
  <2> SUFFICES ASSUME refusals = 0, NEW f \in Folders, NEW u \in Uids, u \in remote[f].uids
               PROVE  local'[f][u] = local[f][u]
    BY <1>0 DEF CoverInv, CursorCoversIndex
  <2>1. ~(f = sync.folder /\ u \in Missing)
    BY <1>0 DEF Missing, DropInv, DropsAreGone
  <2>2. QED BY <2>1, DropRows
<1>4. QED BY <1>2, <1>3 DEF CoverInv

\* The cursors a step leaves as they are, but for their audit, cover what they covered.
LEMMA SameCursorsCover ==
  ASSUME TypeInv, CoverInv, remote' = remote, NEW f \in Folders,
         /\ cursor'[f].valid = cursor[f].valid /\ cursor'[f].last = cursor[f].last
         /\ cursor'[f].back = cursor[f].back /\ cursor'[f].complete = cursor[f].complete
  PROVE  /\ cursor'[f].valid # 0 => cursor'[f].last > 0
         /\ \A u \in Uids : Covered(cursor[f], f, u)' => Covered(cursor[f], f, u)
BY DEF CoverInv, Positions, Covered

LEMMA QuietKeepsCover ==
  ASSUME TypeInv, CoverInv, Begin \/ End \/ Abort \/ Recent \/ Deep \/ SaveDeep
  PROVE  CoverInv'
<1>0. Typed /\ UNCHANGED <<remote, local>>
  BY DEF TypeInv, Begin, End, Abort, Recent, Deep, SaveDeep
<1>1. CASE Begin
  <2>1. /\ sync'.pc = "folder" /\ UNCHANGED refusals
        /\ \A f \in Folders : /\ cursor'[f].valid = cursor[f].valid
                              /\ cursor'[f].last = cursor[f].last
                              /\ cursor'[f].back = cursor[f].back
                              /\ cursor'[f].complete = cursor[f].complete
    BY <1>0, <1>1, BeginSession DEF Begin, faults
  <2>2. QED BY <1>0, <2>1, SameCursorsCover, IdleKeepsCover
<1>2. CASE End \/ Abort
  <2>1. sync'.pc = "idle" /\ UNCHANGED <<cursor, refusals>>
    BY <1>2 DEF End, Abort, IdleSync, faults
  <2>2. QED BY <1>0, <2>1, SameCursorsCover, IdleKeepsCover
<1>3. CASE Recent
  <2>1. sync'.pc = "drop" /\ UNCHANGED cursor /\ (refusals' = 0 => refusals = 0)
    BY <1>0, <1>3, RecentSession, SearchFinds DEF Recent
  <2>2. QED BY <1>0, <2>1, SameCursorsCover, IdleKeepsCover
<1>4. CASE Deep
  <2>1. sync'.pc \in {"drop", "folder"} /\ UNCHANGED cursor /\ (refusals' = 0 => refusals = 0)
    BY <1>0, <1>4, DeepSession, SearchFinds DEF Deep
  <2>2. QED BY <1>0, <2>1, SameCursorsCover, IdleKeepsCover
<1>5. CASE SaveDeep
  <2>1. sync.folder \in Folders
    BY <1>5, OpenTypes DEF SaveDeep
  <2>2. /\ sync'.pc = "folder" /\ UNCHANGED refusals
        /\ \A f \in Folders : /\ cursor'[f].valid = cursor[f].valid
                              /\ cursor'[f].last = cursor[f].last
                              /\ cursor'[f].back = cursor[f].back
                              /\ cursor'[f].complete = cursor[f].complete
    BY <1>0, <1>5, <2>1, SaveDeepSession DEF SaveDeep, faults
  <2>3. QED BY <1>0, <2>2, SameCursorsCover, IdleKeepsCover
<1>6. QED BY <1>1, <1>2, <1>3, <1>4, <1>5

\* Servers without thread ids, and folders that held a number when they were first seen.
CursorSafe == DropSafe /\ MinNext > 1 /\ CoverInv

LEMMA StepKeepsCursors ==
  ASSUME CursorSafe, [Next]_vars
  PROVE  CursorSafe'
<1>0. TypeInv /\ DropInv /\ ~Threaded /\ MinNext > 1 /\ CoverInv
  BY DEF CursorSafe, DropSafe
<1>1. DropSafe'
  BY <1>0, StepTyped, StepKeepsDrops DEF DropSafe
<1>2. CoverInv'
  <2>1. CASE UNCHANGED vars
    BY <1>0, <2>1 DEF vars, faults, CoverInv, Positions, Working, Promised, CursorCoversIndex
  <2>2. CASE \E f \in Folders : Mail(f) \/ Renew(f) \/ \E u \in Uids : Expunge(f, u)
    BY <1>0, <2>2, ServerKeepsCover
  <2>3. CASE Widen \/ Reopen
    BY <1>0, <2>3, UserKeepsCover
  <2>4. CASE Begin \/ End \/ Abort \/ Recent \/ Deep \/ SaveDeep
    BY <1>0, <2>4, QuietKeepsCover
  <2>5. CASE Open \/ Initial \/ New \/ History
    BY <1>0, <2>5, OpenKeepsCover, InitialKeepsCover, NewKeepsCover, HistoryKeepsCover
  <2>6. CASE Store \/ Save \/ Drop
    BY <1>0, <2>6, StoreKeepsCover, SaveKeepsCover, DropKeepsCover
  <2>7. QED BY <2>1, <2>2, <2>3, <2>4, <2>5, <2>6 DEF Next, SyncStep
<1>3. QED BY <1>0, <1>1, <1>2 DEF CursorSafe

\* Where the server gives no thread ids and a folder was not empty when it was first seen,
\* a cursor keeps its promise as long as no search failed: whatever a session stopped at
\* or the server did meanwhile, every message within the sync range that a cursor counts
\* as fetched is indexed as it is numbered now.
THEOREM CursorAlwaysCoversIndex == ~Threaded /\ MinNext > 1 => (Spec => []CursorCoversIndex)
<1> SUFFICES ASSUME ~Threaded, MinNext > 1 PROVE Spec => []CursorCoversIndex
  OBVIOUS
<1>1. Init => CursorSafe
  <2> SUFFICES ASSUME Init PROVE CursorSafe
    OBVIOUS
  <2>1. \A f \in Folders : cursor[f].valid = 0 /\ remote[f].valid # 0
    BY InitTyped, FolderTypes, Consts DEF Init, NoCursor
  <2>2. sync.pc = "idle"
    BY DEF Init, IdleSync
  <2>3. Positions /\ Working /\ CursorCoversIndex
    BY <2>1, <2>2 DEF Positions, Working, CursorCoversIndex
  <2>4. QED BY <2>3, InitTyped, InitDrops DEF CursorSafe, DropSafe, CoverInv
<1>2. CursorSafe /\ [Next]_vars => CursorSafe'
  BY StepKeepsCursors
<1>3. CursorSafe => CursorCoversIndex
  BY DEF CursorSafe, CoverInv
<1>4. QED BY <1>1, <1>2, <1>3, PTL DEF Spec
=============================================================================
