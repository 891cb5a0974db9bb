------------------------------ MODULE McpWrite ------------------------------
(* Idempotent writes of the MCP tools                                       *)
(* (apps/web/src/server/mcp-write-safety.ts, called by                      *)
(* mcp-domain-service.ts with a perform() per tool).                        *)
(*                                                                          *)
(* ai_action_events has a row per key and actor.  Time is the age of a row: *)
(* "fresh", "late" past the running timeout (10 minutes), "old" past the    *)
(* retention (24 hours).  Every database statement is a step.               *)
EXTENDS Naturals, Sequences

CONSTANTS Keys,     \* idempotency keys of one actor
          Inputs,   \* <tool, normalised input> as the fingerprint sees it
          Calls,    \* tool calls the server may have in hand at one time
          NoKey,    \* the key of a call that is not in use
          NoInput,  \* the input where there is none
          NoCall    \* the owner of a row that is not there

ASSUME WriteAssumption == NoKey \notin Keys /\ NoInput \notin Inputs /\ NoCall \notin Calls

VARIABLES row,        \* ai_action_events, by idempotency key
          call,       \* the calls inside executeMcpWrite
          performed,  \* per key, the writes perform() made since the key is known
          vouched     \* <<key, input>> pairs whose call returned a result

vars == <<row, call, performed, vouched>>

\* "unknown" is status 'failed' with the marker of an unknown outcome.
Statuses == {"running", "succeeded", "failed", "unknown"}

Ages == {"fresh", "late", "old"}

Replies == {"none", "result", "conflict", "in_progress", "outcome_unknown", "not_completed", "error"}

\* No row has the key.
NoRow == [input |-> NoInput, owner |-> NoCall, status |-> "failed", age |-> "fresh"]

IdleCall == [pc |-> "idle", key |-> NoKey, input |-> NoInput, reply |-> "none"]

Init ==
  /\ row = [k \in Keys |-> NoRow]
  /\ call = [c \in Calls |-> IdleCall]
  /\ performed = [k \in Keys |-> <<>>]
  /\ vouched = {}

\* A row has the key.
Known(k) == row[k] # NoRow

\* The calls that won their key and have not given it an outcome.
Performing(c) == call[c].pc \in {"perform", "record", "fail"}

\* UPDATE ... WHERE id = eventId: the row this very call inserted.
Owns(c) == row[call[c].key].owner = c

-----------------------------------------------------------------------------
(* Time and the cleanup sweep *)

\* A row ages.  No perform() outlives the retention of its row.
Grow(k) ==
  /\ Known(k)
  /\ \/ /\ row[k].age = "fresh"
        /\ row' = [row EXCEPT ![k].age = "late"]
     \/ /\ row[k].age = "late"
        /\ \A c \in Calls : Performing(c) => call[c].key # k
        /\ row' = [row EXCEPT ![k].age = "old"]
  /\ UNCHANGED <<call, performed, vouched>>

TimedOut(r) == r.status = "running" /\ r.age # "fresh"

\* First statement of cleanupMcpWriteEvents.
ExpireRows ==
  row' = [k \in Keys |-> IF Known(k) /\ TimedOut(row[k])
                          THEN [row[k] EXCEPT !.status = "unknown"] ELSE row[k]]

\* A row is deleted at the running timeout already.
LapsedEarly(r) == r.status # "running" /\ r.age # "fresh"

Lapsed(r) == r.status # "running" /\ r.age = "old"

\* Second statement: the keys of the deleted rows are new keys from here on.
PurgeRows ==
  LET gone == {k \in Keys : Known(k) /\ Lapsed(row[k])}
  IN /\ row' = [k \in Keys |-> IF k \in gone THEN NoRow ELSE row[k]]
     /\ performed' = [k \in Keys |-> IF k \in gone THEN <<>> ELSE performed[k]]
     /\ vouched' = {p \in vouched : p[1] \notin gone}

\* The hourly timer runs the two statements one after the other; another
\* call's sweep may run between them.
Sweep ==
  /\ \/ ExpireRows /\ UNCHANGED <<performed, vouched>>
     \/ PurgeRows
  /\ UNCHANGED call

-----------------------------------------------------------------------------
(* Steps of one call *)

Arrive(c, k, i) ==
  /\ call[c].pc = "idle"
  /\ call' = [call EXCEPT ![c] = [pc |-> "expire", key |-> k, input |-> i, reply |-> "none"]]
  /\ UNCHANGED <<row, performed, vouched>>

Goto(c, pc, reply) ==
  call' = [call EXCEPT ![c] =
    [pc |-> pc, key |-> call[c].key, input |-> call[c].input, reply |-> reply]]

\* The call sweeps before it claims its key.
Expire(c) ==
  /\ call[c].pc = "expire"
  /\ ExpireRows
  /\ Goto(c, "purge", "none")
  /\ UNCHANGED <<performed, vouched>>

Purge(c) ==
  /\ call[c].pc = "purge"
  /\ PurgeRows
  /\ Goto(c, "insert", "none")

\* A key whose last write failed may be claimed again.
OpenAfterFailure(k) == ~Known(k) \/ row[k].status = "failed"

\* ON CONFLICT DO NOTHING: only a key without a row is claimed.
Open(k) == ~Known(k)

\* INSERT ... 'running' ... RETURNING id
Insert(c) ==
  LET k == call[c].key
  IN /\ call[c].pc = "insert"
     /\ \/ /\ Open(k)
           /\ row' = [row EXCEPT ![k] =
                 [input |-> call[c].input, owner |-> c, status |-> "running", age |-> "fresh"]]
           /\ Goto(c, "perform", "none")
        \/ /\ ~Open(k)
           /\ Goto(c, "look", "none")
           /\ UNCHANGED row
     /\ UNCHANGED <<performed, vouched>>

\* The stored result is replayed without looking whether there is one.
ReplyStored(r, i) ==
  IF r = NoRow \/ r.input # i THEN "conflict"
  ELSE IF r.status = "succeeded" THEN "result"
  ELSE "none"

\* What a call is told from the row that holds its key.
ReplyOf(r, i) ==
  IF r = NoRow \/ r.input # i THEN "conflict"
  ELSE [running |-> "in_progress", succeeded |-> "result",
        unknown |-> "outcome_unknown", failed |-> "not_completed"][r.status]

Look(c) ==
  LET reply == ReplyOf(row[call[c].key], call[c].input)
  IN /\ call[c].pc = "look"
     /\ Goto(c, "answered", reply)
     /\ vouched' = IF reply = "result" THEN vouched \cup {<<call[c].key, call[c].input>>} ELSE vouched
     /\ UNCHANGED <<row, performed>>

\* perform(): the write is made and returns, is made though it throws, or
\* is not made.
Perform(c) ==
  \E done, throws \in BOOLEAN :
    /\ call[c].pc = "perform"
    /\ ~throws => done
    /\ performed' = IF done
                    THEN [performed EXCEPT ![call[c].key] = Append(@, call[c].input)]
                    ELSE performed
    /\ Goto(c, IF throws THEN "fail" ELSE "record", "none")
    /\ UNCHANGED <<row, vouched>>

\* status = 'succeeded' with the result, by the id of the inserted row.
Record(c) ==
  /\ call[c].pc = "record"
  /\ row' = IF Owns(c) THEN [row EXCEPT ![call[c].key].status = "succeeded"] ELSE row
  /\ vouched' = vouched \cup {<<call[c].key, call[c].input>>}
  /\ Goto(c, "answered", "result")
  /\ UNCHANGED performed

\* That statement throws: the catch of perform() takes it.
RecordThrows(c) ==
  /\ call[c].pc = "record"
  /\ Goto(c, "fail", "none")
  /\ UNCHANGED <<row, performed, vouched>>

\* status = 'failed' with a marker of its own, whatever the row says by now;
\* when that throws too the row is left as it is.
Fail(c) ==
  \E recorded \in BOOLEAN :
    /\ call[c].pc = "fail"
    /\ row' = IF recorded /\ Owns(c) THEN [row EXCEPT ![call[c].key].status = "failed"] ELSE row
    /\ Goto(c, "answered", "error")
    /\ UNCHANGED <<performed, vouched>>

Leave(c) ==
  /\ call[c].pc = "answered"
  /\ call' = [call EXCEPT ![c] = IdleCall]
  /\ UNCHANGED <<row, performed, vouched>>

\* Calls die with the process, the rows stay.
Crash ==
  /\ \E c \in Calls : call[c].pc # "idle"
  /\ call' = [c \in Calls |-> IdleCall]
  /\ UNCHANGED <<row, performed, vouched>>

Handle(c) ==
  \/ Expire(c)
  \/ Purge(c)
  \/ Insert(c)
  \/ Look(c)
  \/ Perform(c)
  \/ Record(c)
  \/ RecordThrows(c)
  \/ Fail(c)
  \/ Leave(c)

Next ==
  \/ \E c \in Calls : Handle(c)
  \/ \E c \in Calls, k \in Keys, i \in Inputs : Arrive(c, k, i)
  \/ \E k \in Keys : Grow(k)
  \/ Sweep
  \/ Crash

Spec == Init /\ [][Next]_vars

-----------------------------------------------------------------------------
(* Properties *)

RowRecord ==
  [input : Inputs \cup {NoInput}, owner : Calls \cup {NoCall}, status : Statuses, age : Ages]

CallRecord ==
  [pc : {"idle", "expire", "purge", "insert", "look", "perform", "record", "fail", "answered"},
   key : Keys \cup {NoKey}, input : Inputs \cup {NoInput}, reply : Replies]

\* Every variable has its type; a call in hand names its key and its input,
\* and a row that is there names what it stands for.
TypeOK ==
  /\ row \in [Keys -> RowRecord]
  /\ call \in [Calls -> CallRecord]
  /\ performed \in [Keys -> Seq(Inputs)]
  /\ vouched \subseteq Keys \X Inputs
  /\ \A c \in Calls : call[c].pc # "idle" => call[c].key \in Keys /\ call[c].input \in Inputs
  /\ \A c \in Calls : call[c].pc = "answered" => call[c].reply # "none"
  /\ \A k \in Keys : Known(k) => row[k].input \in Inputs /\ row[k].owner \in Calls

Promise == INSTANCE AtMostOnce

\* docs/mcp-server.md: within the retention of its key a write is made at most
\* once, a repeated call is given the result only if it asks for the very
\* write that was made, and a call under the key with another input never is.
WritesAtMostOnce == Promise!LapsingSpec

\* A call that performs has the row of its key to itself: the row is of this
\* call and its input, and until it performs nothing was written under the key.
PerformerOwnsRow ==
  \A c \in Calls :
    Performing(c) =>
      LET k == call[c].key
      IN /\ row[k].owner = c
         /\ row[k].input = call[c].input
         /\ row[k].status \in {"running", "unknown"}
         /\ row[k].age # "old"
         /\ call[c].pc = "perform" => performed[k] = <<>>
         /\ call[c].pc = "record" => performed[k] = <<call[c].input>>

\* A row that says succeeded stands for the one write its input names; a key
\* without a row for no write.
RowsTellTheTruth ==
  \A k \in Keys :
    /\ ~Known(k) => performed[k] = <<>>
    /\ Known(k) /\ row[k].status = "succeeded" => performed[k] = <<row[k].input>>

\* The inductive invariant behind WritesAtMostOnce.
IInv == TypeOK /\ PerformerOwnsRow /\ RowsTellTheTruth
=============================================================================
