---------------------------- MODULE CalendarOutbox ----------------------------
(* The offline queue of the calendar page                                    *)
(* (apps/web/src/hooks/use-calendar-outbox.ts) in front of the receipts of   *)
(* CalendarOperation.                                                        *)
(*                                                                           *)
(* The queue is one localStorage entry shared by every tab of a user.  A tab *)
(* replays a snapshot of it, one request after another, and writes each      *)
(* result back to the entry as it is by then.                                *)
EXTENDS CalendarOperation

CONSTANTS Tabs,        \* tabs with the calendar page
          NoCall,      \* the request of a tab that awaits none
          QueueLimit   \* operations the queue holds (100 in the code)

ASSUME OutboxAssumption == NoCall \notin Calls /\ QueueLimit \in Nat \ {0}

VARIABLES queue,      \* the localStorage entry
          online,     \* navigator.onLine
          tab,        \* the replay loop of each tab
          issued,     \* history: operation ids drawn by request()
          discarded   \* history: operations the user gave up while queued

ovars == <<queue, online, tab, issued, discarded>>

allvars == <<receipt, call, performed, vouched, queue, online, tab, issued, discarded>>

\* No page is mounted in the tab.
ClosedTab == [pc |-> "closed", todo |-> <<>>, call |-> NoCall]

\* A page whose replay is not running.
RestingTab == [pc |-> "rest", todo |-> <<>>, call |-> NoCall]

\* The first and the last of a set of positions.
First(positions) == CHOOSE n \in positions : \A m \in positions : n <= m
Last(positions) == CHOOSE n \in positions : \A m \in positions : m <= n

\* The loop over the entries that read() returned, up to its next await:
\* entries marked with an error are skipped, the next one is fetched.  What
\* is left of the loop ends with the last entry it will not skip.
Replaying(entries) ==
  LET ready == {n \in DOMAIN entries : ~entries[n].error}
  IN IF ready = {} THEN RestingTab
     ELSE [pc |-> "sent", todo |-> SubSeq(entries, First(ready), Last(ready)), call |-> NoCall]

OutboxInit ==
  /\ Init
  /\ queue = <<>>
  /\ online = TRUE
  /\ tab = [t \in Tabs |-> ClosedTab]
  /\ issued = {}
  /\ discarded = {}

Mounted(t) == tab[t].pc # "closed"

\* read().filter(item => item.id !== id): ids are unique, so one entry goes.
Without(id) ==
  LET at == {n \in DOMAIN queue : queue[n].op = id}
  IN IF at = {} THEN queue
     ELSE SubSeq(queue, 1, First(at) - 1) \o SubSeq(queue, First(at) + 1, Len(queue))

\* read().map(...): the error of one operation is set or cleared.
Marked(id, error) ==
  [n \in DOMAIN queue |-> IF queue[n].op = id THEN [queue[n] EXCEPT !.error = error] ELSE queue[n]]

Queued(id) == \E n \in DOMAIN queue : queue[n].op = id

\* A request no tab waits for and the server is not handling.
Free(c) == call[c] = IdleCall /\ \A t \in Tabs : tab[t].call # c

-----------------------------------------------------------------------------
(* The page and its user *)

\* The effect of the hook: the page is mounted, and replays when it can.
Open(t) ==
  /\ tab[t].pc = "closed"
  /\ tab' = [tab EXCEPT ![t] = IF online THEN Replaying(queue) ELSE RestingTab]
  /\ UNCHANGED <<queue, online, issued, discarded>>
  /\ UNCHANGED vars

\* Its cleanup: whatever answer is still to come, the loop stops there.
Close(t) ==
  /\ Mounted(t)
  /\ tab' = [tab EXCEPT ![t] = ClosedTab]
  /\ UNCHANGED <<queue, online, issued, discarded>>
  /\ UNCHANGED vars

\* The browser loses its connection.
GoOffline ==
  /\ online
  /\ online' = FALSE
  /\ UNCHANGED <<queue, tab, issued, discarded>>
  /\ UNCHANGED vars

\* The "online" event: every page whose replay is not running starts one.
GoOnline ==
  /\ ~online
  /\ online' = TRUE
  /\ tab' = [t \in Tabs |-> IF tab[t].pc = "rest" THEN Replaying(queue) ELSE tab[t]]
  /\ UNCHANGED <<queue, issued, discarded>>
  /\ UNCHANGED vars

\* current.length >= 100 throws.
HasRoom == Len(queue) < QueueLimit

\* request() while offline: the change is queued under a new operation id.
Edit(t, id, i) ==
  /\ Mounted(t)
  /\ ~online
  /\ id \notin issued
  /\ HasRoom
  /\ queue' = Append(queue, [op |-> id, input |-> i, error |-> FALSE])
  /\ issued' = issued \cup {id}
  /\ UNCHANGED <<online, tab, discarded>>
  /\ UNCHANGED vars

\* discard(): the operation leaves the local queue.
Discard(t, id) ==
  /\ Mounted(t)
  /\ Queued(id)
  /\ queue' = Without(id)
  /\ discarded' = discarded \cup {id}
  /\ UNCHANGED <<online, tab, issued>>
  /\ UNCHANGED vars

\* retry(): the error is cleared and this page replays, unless it does already.
RetryFailed(t, id) ==
  /\ Mounted(t)
  /\ \E n \in DOMAIN queue : queue[n].op = id /\ queue[n].error
  /\ queue' = Marked(id, FALSE)
  /\ tab' = [tab EXCEPT ![t] =
               IF @.pc = "rest" /\ online THEN Replaying(Marked(id, FALSE)) ELSE @]
  /\ UNCHANGED <<online, issued, discarded>>
  /\ UNCHANGED vars

-----------------------------------------------------------------------------
(* The replay loop *)

\* The request of the fetch() at the head of the loop reaches the server.
Deliver(t, c, id, i) ==
  /\ tab[t].pc = "sent"
  /\ online
  /\ Free(c)
  /\ Head(tab[t].todo).op = id
  /\ Head(tab[t].todo).input = i
  /\ Arrive(c, id, i)
  /\ tab' = [tab EXCEPT ![t].pc = "await", ![t].call = c]
  /\ UNCHANGED <<queue, online, issued, discarded>>

\* Any answer takes the operation off the queue.
AcceptedAny(reply) == TRUE

\* response.ok
Accepted(reply) == reply = "ok"

\* The answer arrives: success takes the operation off the queue as it is
\* now and goes on; anything else marks it and ends the loop.
Answer(t, c) ==
  LET id == Head(tab[t].todo).op
  IN /\ tab[t].pc = "await"
     /\ tab[t].call = c
     /\ Leave(c)
     /\ \/ /\ Accepted(call[c].reply)
           /\ queue' = Without(id)
           /\ tab' = [tab EXCEPT ![t] = Replaying(Tail(tab[t].todo))]
        \/ /\ ~Accepted(call[c].reply)
           /\ queue' = Marked(id, TRUE)
           /\ tab' = [tab EXCEPT ![t] = RestingTab]
     /\ UNCHANGED <<online, issued, discarded>>

\* fetch() rejects: the request did not get out, or its answer is lost.
Lost(t) ==
  /\ tab[t].pc \in {"sent", "await"}
  /\ queue' = Marked(Head(tab[t].todo).op, TRUE)
  /\ tab' = [tab EXCEPT ![t] = RestingTab]
  /\ UNCHANGED <<online, issued, discarded>>
  /\ UNCHANGED vars

\* The answer to a request no page waits for any more.
Drop(c) ==
  /\ \A t \in Tabs : tab[t].call # c
  /\ Leave(c)
  /\ UNCHANGED ovars

-----------------------------------------------------------------------------

Replay(t) ==
  \E c \in Calls :
    \/ Answer(t, c)
    \/ \E id \in Operations, i \in Inputs : Deliver(t, c, id, i)

Server == \E c \in Calls : Handle(c) /\ UNCHANGED ovars

OutboxNext ==
  \/ \E t \in Tabs : Open(t) \/ Close(t) \/ Replay(t) \/ Lost(t)
  \/ \E t \in Tabs, id \in Operations : Discard(t, id) \/ RetryFailed(t, id)
  \/ \E t \in Tabs, id \in Operations, i \in Inputs : Edit(t, id, i)
  \/ GoOffline
  \/ GoOnline
  \/ Server
  \/ \E c \in Calls : Drop(c)
  \/ Crash /\ UNCHANGED ovars

OutboxSpec == OutboxInit /\ [][OutboxNext]_allvars

-----------------------------------------------------------------------------
(* Properties *)

EntryRecord == [op : Operations, input : Inputs, error : BOOLEAN]

TabRecord ==
  [pc : {"closed", "rest", "sent", "await"}, todo : Seq(EntryRecord), call : Calls \cup {NoCall}]

\* The queue never holds an operation twice nor more than its limit, and a
\* page awaits the answer to the head of what it replays.
OutboxTypeOK ==
  /\ TypeOK
  /\ queue \in Seq(EntryRecord)
  /\ Len(queue) <= QueueLimit
  /\ \A m, n \in DOMAIN queue : queue[m].op = queue[n].op => m = n
  /\ online \in BOOLEAN
  /\ issued \subseteq Operations
  /\ discarded \subseteq issued
  /\ tab \in [Tabs -> TabRecord]
  /\ \A t \in Tabs :
       /\ tab[t].pc = "await" <=> tab[t].call \in Calls
       /\ tab[t].pc \in {"sent", "await"} <=> tab[t].todo # <<>>

\* An operation that left the queue, and that the user did not give up, has
\* changed the calendar, exactly once and as it was queued.
GoneMeansDone ==
  \A k \in issued : Queued(k) \/ k \in discarded \/ Len(performed[k]) = 1

\* Operations are queued under the ids that were drawn.
QueuedWasIssued == \A n \in DOMAIN queue : queue[n].op \in issued

\* A page waits for the request it made, or for one that died with the server,
\* and no other page waits for that.
AwaitsItsOwn ==
  /\ \A t \in Tabs :
       LET c == tab[t].call
       IN tab[t].pc = "await" => call[c].pc = "idle" \/ call[c].key = Head(tab[t].todo).op
  /\ \A t, u \in Tabs : tab[t].pc = "await" /\ tab[u].call = tab[t].call => t = u

\* A success on its way to a page is true.
SuccessIsDone ==
  \A c \in Calls :
    call[c].pc = "answered" /\ call[c].reply = "ok" => Len(performed[call[c].key]) = 1

\* The inductive invariant behind GoneMeansDone, next to that of the receipts.
OutboxInv ==
  /\ OutboxTypeOK
  /\ GoneMeansDone
  /\ QueuedWasIssued
  /\ AwaitsItsOwn
  /\ SuccessIsDone
=============================================================================
