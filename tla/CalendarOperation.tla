-------------------------- MODULE CalendarOperation --------------------------
(* The calendar write routes behind an operation receipt                    *)
(* (apps/web/src/server/calendar-operation.ts and the three routes under    *)
(* app/api/calendar-events that call runCalendarOperation).                 *)
(*                                                                          *)
(* Every database statement is a step, and so is the remote write between   *)
(* two of them: any other request, and a crash of the server, may fall      *)
(* between any two steps.                                                   *)
EXTENDS Naturals, Sequences

CONSTANTS Operations,  \* values of the header x-calendar-operation-id
          Inputs,      \* request hashes: method, path, query and body
          Calls,       \* requests the server may have in hand at one time
          NoKey,       \* the operation of a call that is not in use
          NoInput      \* the request hash where there is none

ASSUME OperationAssumption == NoKey \notin Operations /\ NoInput \notin Inputs

VARIABLES receipt,    \* calendar_operation_receipts, one row per operation
          call,       \* the requests inside runCalendarOperation
          performed,  \* per operation, the changes made to the calendar
          vouched     \* <<operation, input>> pairs answered with success

vars == <<receipt, call, performed, vouched>>

\* A stored status: none yet (NULL), below 400, or 400 and above.
Statuses == {"none", "ok", "failed"}

Replies == Statuses \cup {"mismatch", "unconfirmed", "error"}

NoReceipt == [hash |-> NoInput, wrote |-> FALSE, status |-> "none"]

IdleCall == [pc |-> "idle", key |-> NoKey, input |-> NoInput, reply |-> "none"]

Init ==
  /\ receipt = [k \in Operations |-> NoReceipt]
  /\ call = [c \in Calls |-> IdleCall]
  /\ performed = [k \in Operations |-> <<>>]
  /\ vouched = {}

\* The row is there: the INSERT of the claim has been committed once.
Claimed(k) == receipt[k].hash # NoInput

\* The calls between a claim they won and the response they store.
Working(c) == call[c].pc \in {"preflight", "write", "store"}

-----------------------------------------------------------------------------
(* Steps of one request *)

\* A request with an operation id reaches the route.
Arrive(c, k, i) ==
  /\ call[c].pc = "idle"
  /\ call' = [call EXCEPT ![c] = [pc |-> "claim", key |-> k, input |-> i, reply |-> "none"]]
  /\ UNCHANGED <<receipt, performed, vouched>>

Goto(c, pc, reply) ==
  call' = [call EXCEPT ![c] =
    [pc |-> pc, key |-> call[c].key, input |-> call[c].input, reply |-> reply]]

\* A receipt whose write may have been sent is claimed again.
ReclaimableWritten(r, i) == r.hash = i /\ r.status = "failed"

\* A receipt whose request is still at work is claimed again.
ReclaimableBusy(r, i) == r.hash = i /\ ~r.wrote

\* ON CONFLICT DO UPDATE ... WHERE: same request, refused before its write.
Reclaimable(r, i) == r.hash = i /\ ~r.wrote /\ r.status = "failed"

\* The single statement that takes a new operation, or takes one again.
Claim(c) ==
  LET k == call[c].key
      i == call[c].input
  IN /\ call[c].pc = "claim"
     /\ \/ /\ ~Claimed(k)
           /\ receipt' = [receipt EXCEPT ![k] = [hash |-> i, wrote |-> FALSE, status |-> "none"]]
           /\ Goto(c, "preflight", "none")
        \/ /\ Claimed(k)
           /\ Reclaimable(receipt[k], i)
           /\ receipt' = [receipt EXCEPT ![k].status = "none"]
           /\ Goto(c, "preflight", "none")
        \/ /\ Claimed(k)
           /\ ~Reclaimable(receipt[k], i)
           /\ Goto(c, "look", "none")
           /\ UNCHANGED receipt
     /\ UNCHANGED <<performed, vouched>>

\* The stored response is replayed without looking whether there is one.
ReplyUnchecked(r, i) == IF r.hash # i THEN "mismatch" ELSE r.status

\* What a request that did not win the claim is answered from the row.
ReplyOf(r, i) ==
  IF r.hash # i THEN "mismatch"
  ELSE IF r.status = "none" THEN "unconfirmed"
  ELSE r.status

\* The row is read after the claim was lost; its stored response is replayed.
Look(c) ==
  LET k == call[c].key
      reply == ReplyOf(receipt[k], call[c].input)
  IN /\ call[c].pc = "look"
     /\ Goto(c, "answered", reply)
     /\ vouched' = IF reply = "ok" THEN vouched \cup {<<k, call[c].input>>} ELSE vouched
     /\ UNCHANGED <<receipt, performed>>

\* Validation, a schedule conflict, or a failing beginWrite ends the route.
Refuse(c) ==
  /\ call[c].pc = "preflight"
  /\ Goto(c, "store", "failed")
  /\ UNCHANGED <<receipt, performed, vouched>>

\* The write boundary is not recorded.
BoundaryIgnored(r) == r

\* write_started = true.
Boundary(r) == [r EXCEPT !.wrote = TRUE]

\* beginWrite: committed before anything is sent to the calendar's server.
BeginWrite(c) ==
  /\ call[c].pc = "preflight"
  /\ receipt' = [receipt EXCEPT ![call[c].key] = Boundary(@)]
  /\ Goto(c, "write", "none")
  /\ UNCHANGED <<performed, vouched>>

\* upsertCalendarEvent, deleteCalendarEvent, respondToCalendarMeeting: the
\* change is made and acknowledged, made though an error comes back (a lost
\* answer, a failing local save), or not made.
Write(c) ==
  \E done \in BOOLEAN, reply \in {"ok", "failed"} :
    /\ call[c].pc = "write"
    /\ reply = "ok" => done
    /\ performed' = IF done
                    THEN [performed EXCEPT ![call[c].key] = Append(@, call[c].input)]
                    ELSE performed
    /\ Goto(c, "store", reply)
    /\ UNCHANGED <<receipt, vouched>>

\* The response is stored in the row and sent.
Store(c) ==
  LET k == call[c].key
  IN /\ call[c].pc = "store"
     /\ receipt' = [receipt EXCEPT ![k].status = call[c].reply]
     /\ vouched' = IF call[c].reply = "ok" THEN vouched \cup {<<k, call[c].input>>} ELSE vouched
     /\ Goto(c, "answered", call[c].reply)
     /\ UNCHANGED performed

\* Storing the response throws: the client gets a bare 500.
StoreFails(c) ==
  /\ call[c].pc = "store"
  /\ Goto(c, "answered", "error")
  /\ UNCHANGED <<receipt, performed, vouched>>

\* The response has left the server (or nobody is there to take it).
Leave(c) ==
  /\ call[c].pc = "answered"
  /\ call' = [call EXCEPT ![c] = IdleCall]
  /\ UNCHANGED <<receipt, performed, vouched>>

\* Requests that were running die with the process, the rows stay.
Crash ==
  /\ \E c \in Calls : call[c].pc # "idle"
  /\ call' = [c \in Calls |-> IdleCall]
  /\ UNCHANGED <<receipt, performed, vouched>>

Handle(c) ==
  \/ Claim(c)
  \/ Look(c)
  \/ Refuse(c)
  \/ BeginWrite(c)
  \/ Write(c)
  \/ Store(c)
  \/ StoreFails(c)

Next ==
  \/ \E c \in Calls : Handle(c) \/ Leave(c)
  \/ \E c \in Calls, k \in Operations, i \in Inputs : Arrive(c, k, i)
  \/ Crash

Spec == Init /\ [][Next]_vars

-----------------------------------------------------------------------------
(* Properties *)

ReceiptRecord == [hash : Inputs \cup {NoInput}, wrote : BOOLEAN, status : Statuses]

CallRecord ==
  [pc : {"idle", "claim", "look", "preflight", "write", "store", "answered"},
   key : Operations \cup {NoKey}, input : Inputs \cup {NoInput}, reply : Replies]

\* Every variable has its type, and a call in hand names its operation and input.
TypeOK ==
  /\ receipt \in [Operations -> ReceiptRecord]
  /\ call \in [Calls -> CallRecord]
  /\ performed \in [Operations -> Seq(Inputs)]
  /\ vouched \subseteq Operations \X Inputs
  /\ \A c \in Calls : call[c].pc # "idle" => call[c].key \in Operations /\ call[c].input \in Inputs
  /\ \A c \in Calls : call[c].pc = "store" => call[c].reply \in {"ok", "failed"}
  /\ \A c \in Calls : call[c].pc = "answered" => call[c].reply # "none"

\* The promise of the module comment of calendar-operation.ts: an operation
\* changes the calendar at most once, however often it is repeated and
\* wherever the server dies, and success is only ever reported for the very
\* request whose change was made.
Promise == INSTANCE AtMostOnce WITH Keys <- Operations

ChangesAtMostOnce == Promise!ASpec

\* At most one request works for an operation at a time.
OneWorker ==
  \A c, d \in Calls :
    Working(c) /\ Working(d) /\ call[c].key = call[d].key => c = d

\* A receipt tells the truth about the calendar: one whose write has not been
\* started stands for no change, so its operation may be tried again; one with
\* a success stands for exactly the change its hash names.
ReceiptsTellTheTruth ==
  \A k \in Operations :
    /\ ~receipt[k].wrote => performed[k] = <<>>
    /\ receipt[k].status = "ok" => performed[k] = <<receipt[k].hash>>

\* A request that works for an operation owns its row: the row carries its
\* hash and no response, and past the write boundary nothing else has changed
\* the calendar for this operation before it does.
WorkerOwnsReceipt ==
  \A c \in Calls :
    Working(c) =>
      LET k == call[c].key
          r == receipt[k]
      IN /\ r.hash = call[c].input
         /\ r.status = "none"
         /\ call[c].pc = "preflight" => ~r.wrote
         /\ call[c].pc = "write" => r.wrote /\ performed[k] = <<>>
         /\ call[c].pc = "store" /\ call[c].reply = "ok" => performed[k] = <<call[c].input>>

\* An operation nobody claimed has no response and no write.
UnclaimedIsBlank == \A k \in Operations : ~Claimed(k) => receipt[k] = NoReceipt

\* The inductive invariant behind ChangesAtMostOnce.
IInv ==
  /\ TypeOK
  /\ OneWorker
  /\ ReceiptsTellTheTruth
  /\ WorkerOwnsReceipt
  /\ UnclaimedIsBlank
=============================================================================
