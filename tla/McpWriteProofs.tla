--------------------------- MODULE McpWriteProofs ---------------------------
(* Proofs about McpWrite: its inductive invariant, and that it implements    *)
(* AtMostOnce with lapsing keys, for any keys, inputs and number of calls.   *)
EXTENDS McpWrite, TLAPS

\* The two halves of TypeOK, and the body of PerformerOwnsRow.
RowsTyped ==
  /\ row \in [Keys -> RowRecord]
  /\ \A k \in Keys : Known(k) => row[k].input \in Inputs /\ row[k].owner \in Calls

CallsTyped ==
  /\ call \in [Calls -> CallRecord]
  /\ \A c \in Calls : call[c].pc # "idle" => call[c].key \in Keys /\ call[c].input \in Inputs
  /\ \A c \in Calls : call[c].pc = "answered" => call[c].reply # "none"

HistoryTyped == performed \in [Keys -> Seq(Inputs)] /\ vouched \subseteq Keys \X Inputs

OwnsRow(c) ==
  LET k == call[c].key
  IN /\ row[k].owner = c
     /\ row[k].input = call[c].input
     /\ row[k].status \in {"running", "unknown"}
     /\ row[k].age # "old"
     /\ call[c].pc = "perform" => performed[k] = <<>>
     /\ call[c].pc = "record" => performed[k] = <<call[c].input>>

LEMMA Parts ==
  /\ TypeOK <=> RowsTyped /\ CallsTyped /\ HistoryTyped
  /\ PerformerOwnsRow <=> \A c \in Calls : Performing(c) => OwnsRow(c)
  BY DEF TypeOK, RowsTyped, CallsTyped, HistoryTyped, PerformerOwnsRow, OwnsRow

\* What a step does to the calls: only c moves, and it keeps its key and input.
LEMMA GotoMoves ==
  ASSUME CallsTyped, NEW c \in Calls, NEW pc, NEW reply, Goto(c, pc, reply)
  PROVE  /\ call'[c] = [pc |-> pc, key |-> call[c].key, input |-> call[c].input, reply |-> reply]
         /\ \A d \in Calls \ {c} : call'[d] = call[d]
  BY DEF Goto, CallsTyped

LEMMA GotoTyped ==
  ASSUME CallsTyped, NEW c \in Calls, call[c].pc # "idle",
         NEW pc \in {"expire", "purge", "insert", "look", "perform", "record", "fail", "answered"},
         NEW reply \in Replies, pc = "answered" => reply # "none", Goto(c, pc, reply)
  PROVE  CallsTyped'
<1>1. call' \in [Calls -> CallRecord]
  BY DEF Goto, CallsTyped, CallRecord
<1> QED
  BY <1>1, GotoMoves DEF CallsTyped

LEMMA InitInvariant == Init => IInv
  BY WriteAssumption
  DEF Init, IInv, TypeOK, PerformerOwnsRow, RowsTellTheTruth, RowRecord, CallRecord, NoRow, IdleCall,
      Statuses, Ages, Replies, Performing, Known

\* A row nobody inserted is told apart from every other.
LEMMA NoRowFacts ==
  ASSUME RowsTyped, NEW k \in Keys
  PROVE  /\ row[k] \in RowRecord
         /\ Known(k) <=> row[k].owner # NoCall
         /\ ~Known(k) => row[k].owner = NoCall
  BY WriteAssumption DEF RowsTyped, Known, NoRow

-----------------------------------------------------------------------------
(* Frames *)

\* A call that performs keeps its row as long as nobody else changes it.
LEMMA OwnerKeeps ==
  ASSUME IInv, NEW d \in Calls, Performing(d), call'[d] = call[d], NEW k, k = call[d].key,
         row'[k].owner = row[k].owner, row'[k].input = row[k].input,
         row'[k].status \in {"running", "unknown"}, row'[k].age # "old",
         performed'[k] = performed[k]
  PROVE  OwnsRow(d)'
  BY Parts DEF IInv, OwnsRow

LEMMA OwnerFacts ==
  ASSUME IInv, NEW c \in Calls, Performing(c)
  PROVE  /\ call[c].key \in Keys /\ call[c].input \in Inputs
         /\ OwnsRow(c)
         /\ Known(call[c].key)
         /\ \A d \in Calls : Performing(d) /\ call[d].key = call[c].key => d = c
<1>1. call[c].key \in Keys /\ call[c].input \in Inputs
  BY Parts DEF IInv, CallsTyped, Performing
<1>2. \A d \in Calls : Performing(d) => OwnsRow(d)
  BY Parts DEF IInv
<1>3. Known(call[c].key)
  BY <1>1, <1>2, NoRowFacts, Parts, WriteAssumption DEF IInv, OwnsRow
<1> QED
  BY <1>1, <1>2, <1>3 DEF OwnsRow

\* First statement of the cleanup.
LEMMA ExpireRowsFacts ==
  ASSUME IInv, ExpireRows
  PROVE  /\ RowsTyped'
         /\ \A k \in Keys : /\ Known(k)' <=> Known(k)
                            /\ row'[k].owner = row[k].owner
                            /\ row'[k].input = row[k].input
                            /\ row'[k].age = row[k].age
                            /\ row'[k].status = row[k].status
                                 \/ (row[k].status = "running" /\ row'[k].status = "unknown")
<1>1. RowsTyped
  BY Parts DEF IInv
<1>2. \A k \in Keys : row'[k] = IF Known(k) /\ TimedOut(row[k])
                                THEN [row[k] EXCEPT !.status = "unknown"] ELSE row[k]
  BY DEF ExpireRows
<1>3. ASSUME NEW k \in Keys
      PROVE  /\ row'[k] \in RowRecord
             /\ row'[k].owner = row[k].owner
             /\ row'[k].input = row[k].input
             /\ row'[k].age = row[k].age
             /\ row'[k].status = row[k].status
                  \/ (row[k].status = "running" /\ row'[k].status = "unknown")
  <2>1. row[k] \in RowRecord
    BY <1>1, NoRowFacts
  <2> QED
    BY <1>2, <2>1 DEF RowRecord, Statuses, TimedOut
<1>4. ASSUME NEW k \in Keys PROVE Known(k)' <=> Known(k)
  <2>1. CASE Known(k)
    <3>1. row[k].owner \in Calls /\ row'[k].owner = row[k].owner
      BY <1>1, <1>3, <2>1 DEF RowsTyped
    <3> QED
      BY <2>1, <3>1, WriteAssumption DEF Known, NoRow
  <2>2. CASE ~Known(k)
    BY <1>2, <2>2 DEF Known
  <2> QED
    BY <2>1, <2>2
<1>5. row' \in [Keys -> RowRecord]
  BY <1>3 DEF ExpireRows
<1>6. RowsTyped'
  BY <1>1, <1>3, <1>4, <1>5 DEF RowsTyped
<1> QED
  BY <1>3, <1>4, <1>6

\* Second statement: a row goes with the history of its key, or stays with it.
LEMMA PurgeRowsFacts ==
  ASSUME IInv, PurgeRows
  PROVE  /\ RowsTyped' /\ HistoryTyped'
         /\ \A k \in Keys :
              \/ row'[k] = row[k] /\ performed'[k] = performed[k]
              \/ row'[k] = NoRow /\ performed'[k] = <<>> /\ Lapsed(row[k])
<1>1. RowsTyped /\ HistoryTyped
  BY Parts DEF IInv
<1>2. PICK gone \in SUBSET Keys :
        /\ \A k \in gone : Known(k) /\ Lapsed(row[k])
        /\ row' = [k \in Keys |-> IF k \in gone THEN NoRow ELSE row[k]]
        /\ performed' = [k \in Keys |-> IF k \in gone THEN <<>> ELSE performed[k]]
        /\ vouched' = {p \in vouched : p[1] \notin gone}
  <2> DEFINE gone == {k \in Keys : Known(k) /\ Lapsed(row[k])}
  <2>1. gone \in SUBSET Keys /\ \A k \in gone : Known(k) /\ Lapsed(row[k])
    OBVIOUS
  <2>2. /\ row' = [k \in Keys |-> IF k \in gone THEN NoRow ELSE row[k]]
        /\ performed' = [k \in Keys |-> IF k \in gone THEN <<>> ELSE performed[k]]
        /\ vouched' = {p \in vouched : p[1] \notin gone}
    BY DEF PurgeRows
  <2> HIDE DEF gone
  <2> QED
    BY <2>1, <2>2
<1>3. NoRow \in RowRecord
  BY DEF NoRow, RowRecord, Statuses, Ages
<1>4. RowsTyped'
  <2>1. row' \in [Keys -> RowRecord]
    BY <1>1, <1>2, <1>3 DEF RowsTyped
  <2>2. \A k \in Keys : Known(k)' => Known(k) /\ row'[k] = row[k]
    BY <1>2 DEF Known
  <2> QED
    BY <1>1, <2>1, <2>2 DEF RowsTyped
<1>5. HistoryTyped'
  <2>1. performed' \in [Keys -> Seq(Inputs)]
    BY <1>1, <1>2 DEF HistoryTyped
  <2>2. vouched' \subseteq Keys \X Inputs
    BY <1>1, <1>2 DEF HistoryTyped
  <2> QED
    BY <2>1, <2>2 DEF HistoryTyped
<1> QED
  BY <1>2, <1>4, <1>5

LEMMA Assemble ==
  ASSUME RowsTyped', CallsTyped', HistoryTyped', RowsTellTheTruth',
         \A c \in Calls : Performing(c)' => OwnsRow(c)'
  PROVE  IInv'
<1>1. TypeOK'
  BY DEF TypeOK, RowsTyped, CallsTyped, HistoryTyped
<1>2. PerformerOwnsRow'
  BY DEF PerformerOwnsRow, OwnsRow
<1> QED
  BY <1>1, <1>2 DEF IInv

-----------------------------------------------------------------------------
(* Steps *)

\* The sweep's first statement, by the timer or by call c on its way in.
LEMMA ExpireStep ==
  ASSUME IInv, ExpireRows, UNCHANGED performed, HistoryTyped', CallsTyped',
         \A d \in Calls : Performing(d)' => Performing(d) /\ call'[d] = call[d]
  PROVE  IInv'
<1>1. \A d \in Calls : Performing(d)' => OwnsRow(d)'
  <2> SUFFICES ASSUME NEW d \in Calls, Performing(d)' PROVE OwnsRow(d)'
    OBVIOUS
  <2>1. Performing(d) /\ call'[d] = call[d]
    OBVIOUS
  <2>2. call[d].key \in Keys /\ OwnsRow(d)
    BY <2>1, OwnerFacts
  <2> DEFINE k == call[d].key
  <2>3. /\ row'[k].owner = row[k].owner /\ row'[k].input = row[k].input
        /\ row'[k].status \in {"running", "unknown"} /\ row'[k].age # "old"
    BY <2>2, ExpireRowsFacts DEF OwnsRow
  <2>4. performed'[k] = performed[k]
    OBVIOUS
  <2> HIDE DEF k
  <2>5. k = call[d].key
    BY DEF k
  <2> QED
    BY <2>1, <2>3, <2>4, <2>5, OwnerKeeps
<1>2. RowsTellTheTruth'
  <2> SUFFICES ASSUME NEW k \in Keys
               PROVE  /\ ~Known(k)' => performed'[k] = <<>>
                      /\ Known(k)' /\ row'[k].status = "succeeded" => performed'[k] = <<row'[k].input>>
    BY DEF RowsTellTheTruth
  <2>1. /\ Known(k)' <=> Known(k)
        /\ row'[k].input = row[k].input
        /\ row'[k].status = "succeeded" => row[k].status = "succeeded"
    BY ExpireRowsFacts
  <2> QED
    BY <2>1 DEF IInv, RowsTellTheTruth
<1>3. RowsTyped'
  BY ExpireRowsFacts
<1> QED
  BY <1>1, <1>2, <1>3, Assemble

\* Its second statement: a row that a call performs under is never deleted.
LEMMA PurgeStep ==
  ASSUME IInv, PurgeRows, CallsTyped',
         \A d \in Calls : Performing(d)' => Performing(d) /\ call'[d] = call[d]
  PROVE  IInv'
<1>1. \A d \in Calls : Performing(d)' => OwnsRow(d)'
  <2> SUFFICES ASSUME NEW d \in Calls, Performing(d)' PROVE OwnsRow(d)'
    OBVIOUS
  <2>1. Performing(d) /\ call'[d] = call[d]
    OBVIOUS
  <2>2. call[d].key \in Keys /\ OwnsRow(d)
    BY <2>1, OwnerFacts
  <2>3. ~Lapsed(row[call[d].key])
    BY <2>2 DEF OwnsRow, Lapsed
  <2>4. row'[call[d].key] = row[call[d].key] /\ performed'[call[d].key] = performed[call[d].key]
    BY <2>2, <2>3, PurgeRowsFacts
  <2> QED
    BY <2>1, <2>2, <2>4 DEF OwnsRow
<1>2. RowsTellTheTruth'
  <2> SUFFICES ASSUME NEW k \in Keys
               PROVE  /\ ~Known(k)' => performed'[k] = <<>>
                      /\ Known(k)' /\ row'[k].status = "succeeded" => performed'[k] = <<row'[k].input>>
    BY DEF RowsTellTheTruth
  <2>1. CASE row'[k] = row[k] /\ performed'[k] = performed[k]
    BY <2>1 DEF IInv, RowsTellTheTruth, Known
  <2>2. CASE row'[k] = NoRow /\ performed'[k] = <<>>
    BY <2>2 DEF Known
  <2> QED
    BY <2>1, <2>2, PurgeRowsFacts
<1>3. RowsTyped' /\ HistoryTyped'
  BY PurgeRowsFacts
<1> QED
  BY <1>1, <1>2, <1>3, Assemble

\* Steps that touch neither the rows nor the writes.
LEMMA QuietStep ==
  ASSUME IInv, UNCHANGED <<row, performed>>, HistoryTyped', CallsTyped',
         \A d \in Calls : Performing(d)' =>
           /\ Performing(d) /\ call'[d].key = call[d].key /\ call'[d].input = call[d].input
           /\ call'[d].pc = "perform" => call[d].pc = "perform"
           /\ call'[d].pc = "record" => call[d].pc = "record"
  PROVE  IInv'
<1>1. \A d \in Calls : Performing(d)' => OwnsRow(d)'
  BY Parts DEF IInv, OwnsRow
<1>2. RowsTellTheTruth'
  BY DEF IInv, RowsTellTheTruth, Known
<1>3. RowsTyped'
  BY Parts DEF IInv, RowsTyped, Known
<1> QED
  BY <1>1, <1>2, <1>3, Assemble

\* A call past its claim changes its own row, its own writes and itself.
LEMMA OwnerStep ==
  ASSUME IInv, NEW c \in Calls, NEW k \in Keys, k = call[c].key,
         \A d \in Calls \ {c} : call'[d] = call[d],
         \A d \in Calls \ {c} : Performing(d) => call[d].key # k,
         \A l \in Keys \ {k} : row'[l] = row[l] /\ performed'[l] = performed[l],
         RowsTyped', HistoryTyped', CallsTyped', row'[k] # NoRow,
         row'[k].status = "succeeded" => performed'[k] = <<row'[k].input>>,
         Performing(c)' => OwnsRow(c)'
  PROVE  IInv'
<1>1. \A d \in Calls : Performing(d)' => OwnsRow(d)'
  <2> SUFFICES ASSUME NEW d \in Calls \ {c}, Performing(d)' PROVE OwnsRow(d)'
    OBVIOUS
  <2>1. Performing(d) /\ call'[d] = call[d]
    BY DEF Performing
  <2>2. OwnsRow(d) /\ call[d].key \in Keys \ {k}
    BY <2>1, OwnerFacts
  <2> QED
    BY <2>1, <2>2 DEF OwnsRow
<1>2. RowsTellTheTruth'
  <2> SUFFICES ASSUME NEW l \in Keys
               PROVE  /\ ~Known(l)' => performed'[l] = <<>>
                      /\ Known(l)' /\ row'[l].status = "succeeded" => performed'[l] = <<row'[l].input>>
    BY DEF RowsTellTheTruth
  <2>1. CASE l = k
    BY <2>1 DEF Known
  <2>2. CASE l # k
    <3>1. row'[l] = row[l] /\ performed'[l] = performed[l] /\ (Known(l)' <=> Known(l))
      BY <2>2 DEF Known
    <3> QED
      BY <3>1 DEF IInv, RowsTellTheTruth
  <2> QED
    BY <2>1, <2>2
<1> QED
  BY <1>1, <1>2, Assemble

\* The call that finds its key without a row gets a row of its own.
LEMMA InsertStep == ASSUME IInv, NEW c \in Calls, Insert(c) PROVE IInv'
<1> DEFINE k == call[c].key
           i == call[c].input
<1>1. /\ RowsTyped /\ CallsTyped /\ HistoryTyped
      /\ k \in Keys /\ i \in Inputs /\ call[c].pc = "insert" /\ ~Performing(c)
  BY Parts DEF IInv, Insert, CallsTyped, Performing
<1>2. UNCHANGED <<performed, vouched>> /\ HistoryTyped'
  BY <1>1 DEF Insert, HistoryTyped
<1>3. CASE ~Open(k) /\ Goto(c, "look", "none") /\ UNCHANGED row
  <2>1. CallsTyped'
    BY <1>1, <1>3, GotoTyped DEF Replies
  <2>2. \A d \in Calls : Performing(d)' => d # c /\ call'[d] = call[d]
    <3>1. /\ call'[c] = [pc |-> "look", key |-> k, input |-> i, reply |-> "none"]
          /\ \A d \in Calls \ {c} : call'[d] = call[d]
      BY <1>1, <1>3, GotoMoves
    <3> QED
      BY <3>1 DEF Performing
  <2>3. \A d \in Calls : Performing(d)' => Performing(d)
    BY <2>2 DEF Performing
  <2> QED
    BY <1>2, <1>3, <2>1, <2>2, <2>3, QuietStep
<1>4. CASE /\ Open(k) /\ Goto(c, "perform", "none")
           /\ row' = [row EXCEPT ![k] =
                [input |-> i, owner |-> c, status |-> "running", age |-> "fresh"]]
  <2>1. CallsTyped'
    BY <1>1, <1>4, GotoTyped DEF Replies
  <2>2. /\ call'[c] = [pc |-> "perform", key |-> k, input |-> i, reply |-> "none"]
        /\ \A d \in Calls \ {c} : call'[d] = call[d]
    BY <1>1, <1>4, GotoMoves
  <2>3. /\ row'[k] = [input |-> i, owner |-> c, status |-> "running", age |-> "fresh"]
        /\ \A l \in Keys \ {k} : row'[l] = row[l] /\ performed'[l] = performed[l]
    BY <1>1, <1>2, <1>4 DEF RowsTyped
  <2>4. performed'[k] = <<>>
    BY <1>1, <1>2, <1>4 DEF IInv, RowsTellTheTruth, Open
  <2>5. row'[k] # NoRow
    BY <1>1, <2>3, WriteAssumption DEF NoRow
  <2>6. RowsTyped'
    <3>1. row' \in [Keys -> RowRecord]
      BY <1>1, <1>4 DEF RowsTyped, RowRecord, Statuses, Ages
    <3>2. \A l \in Keys \ {k} : Known(l)' => Known(l)
      BY <2>3 DEF Known
    <3> QED
      BY <1>1, <2>3, <3>1, <3>2 DEF RowsTyped
  <2>7. OwnsRow(c)'
    BY <2>2, <2>3, <2>4 DEF OwnsRow
  <2>8. \A d \in Calls \ {c} : Performing(d) => call[d].key # k
    BY <1>4, OwnerFacts DEF Open
  <2>9. row'[k].status # "succeeded"
    BY <2>3
  <2>10. \A d \in Calls \ {c} : call'[d] = call[d]
    BY <2>2
  <2>11. \A l \in Keys \ {k} : row'[l] = row[l] /\ performed'[l] = performed[l]
    BY <2>3
  <2>12. k \in Keys
    BY <1>1
  <2> HIDE DEF k, i
  <2>13. k = call[c].key
    BY DEF k
  <2> QED
    BY <1>2, <2>1, <2>5, <2>6, <2>7, <2>8, <2>9, <2>10, <2>11, <2>12, <2>13, OwnerStep
<1> QED
  BY <1>3, <1>4 DEF Insert

LEMMA PerformStep == ASSUME IInv, NEW c \in Calls, Perform(c) PROVE IInv'
<1> DEFINE k == call[c].key
           i == call[c].input
<1>1. RowsTyped /\ CallsTyped /\ HistoryTyped /\ call[c].pc = "perform" /\ Performing(c)
  BY Parts DEF IInv, Perform, Performing
<1>2. /\ k \in Keys /\ i \in Inputs /\ OwnsRow(c) /\ Known(k)
      /\ \A d \in Calls \ {c} : Performing(d) => call[d].key # k
  BY <1>1, OwnerFacts
<1>3. PICK done \in BOOLEAN, throws \in BOOLEAN :
        /\ ~throws => done
        /\ performed' = IF done THEN [performed EXCEPT ![k] = Append(@, i)] ELSE performed
        /\ Goto(c, IF throws THEN "fail" ELSE "record", "none")
        /\ UNCHANGED <<row, vouched>>
  BY DEF Perform
<1>4. CallsTyped'
  BY <1>1, <1>3, GotoTyped DEF Replies
<1>5. /\ call'[c] = [pc |-> IF throws THEN "fail" ELSE "record", key |-> k, input |-> i, reply |-> "none"]
      /\ \A d \in Calls \ {c} : call'[d] = call[d]
  BY <1>1, <1>3, GotoMoves
<1>6. performed[k] = <<>>
  BY <1>1, <1>2 DEF OwnsRow
<1>7. /\ done => performed'[k] = <<i>>
      /\ \A l \in Keys \ {k} : performed'[l] = performed[l]
  BY <1>1, <1>2, <1>3, <1>6 DEF HistoryTyped
<1>8. HistoryTyped'
  BY <1>1, <1>2, <1>3 DEF HistoryTyped
<1>9. RowsTyped' /\ row'[k] # NoRow
  BY <1>1, <1>2, <1>3 DEF RowsTyped, Known
<1>10. OwnsRow(c)'
  BY <1>2, <1>3, <1>5, <1>7 DEF OwnsRow
<1>11. row'[k].status # "succeeded"
  BY <1>2, <1>3 DEF OwnsRow
<1>12. \A d \in Calls \ {c} : call'[d] = call[d]
  BY <1>5
<1>13. \A l \in Keys \ {k} : row'[l] = row[l] /\ performed'[l] = performed[l]
  BY <1>3, <1>7
<1> HIDE DEF k, i
<1>14. k = call[c].key
  BY DEF k
<1> QED
  BY <1>2, <1>4, <1>8, <1>9, <1>10, <1>11, <1>12, <1>13, <1>14, OwnerStep

\* The outcome a call writes into its row, if it does: success after a write.
LEMMA OutcomeStep ==
  ASSUME IInv, NEW c \in Calls, Performing(c), NEW status \in {"succeeded", "failed"},
         row' = [row EXCEPT ![call[c].key].status = status] \/ row' = row,
         status = "succeeded" => call[c].pc = "record",
         UNCHANGED performed, HistoryTyped', CallsTyped',
         \A d \in Calls \ {c} : call'[d] = call[d], ~Performing(c)'
  PROVE  IInv'
<1> DEFINE k == call[c].key
<1>1. RowsTyped
  BY Parts DEF IInv
<1>2. /\ k \in Keys /\ OwnsRow(c) /\ Known(k) /\ row[k] \in RowRecord
      /\ \A d \in Calls \ {c} : Performing(d) => call[d].key # k
  BY <1>1, OwnerFacts, NoRowFacts
<1>3. /\ \A l \in Keys \ {k} : row'[l] = row[l]
      /\ row'[k] = row[k] \/ row'[k] = [row[k] EXCEPT !.status = status]
      /\ DOMAIN row' = Keys
  BY <1>1, <1>2 DEF RowsTyped
<1>4. /\ row'[k] \in RowRecord
      /\ row'[k].owner = row[k].owner /\ row'[k].input = row[k].input
      /\ row'[k].status \in {row[k].status, status}
  BY <1>2, <1>3 DEF RowRecord, Statuses
<1>5. row'[k] # NoRow
  BY <1>1, <1>2, <1>4, WriteAssumption DEF RowsTyped, Known, NoRow
<1>6. RowsTyped'
  <2>1. row' \in [Keys -> RowRecord]
    BY <1>1, <1>2, <1>4 DEF RowsTyped
  <2>2. \A l \in Keys \ {k} : Known(l)' => Known(l)
    BY <1>3 DEF Known
  <2> QED
    BY <1>1, <1>2, <1>3, <1>4, <2>1, <2>2 DEF RowsTyped
<1>7. row'[k].status = "succeeded" => performed'[k] = <<row'[k].input>>
  BY <1>2, <1>4 DEF OwnsRow
<1>8. \A l \in Keys \ {k} : row'[l] = row[l] /\ performed'[l] = performed[l]
  BY <1>3
<1> HIDE DEF k
<1>9. k = call[c].key
  BY DEF k
<1> QED
  BY <1>2, <1>5, <1>6, <1>7, <1>8, <1>9, OwnerStep

LEMMA RecordStep == ASSUME IInv, NEW c \in Calls, Record(c) PROVE IInv'
<1>1. CallsTyped /\ HistoryTyped /\ Performing(c) /\ call[c].pc = "record"
  BY Parts DEF IInv, Record, Performing
<1>2. call[c].key \in Keys /\ call[c].input \in Inputs
  BY <1>1, OwnerFacts
<1>3. CallsTyped'
  BY <1>1, GotoTyped DEF Record, Replies
<1>4. ~Performing(c)' /\ \A d \in Calls \ {c} : call'[d] = call[d]
  <2>1. Goto(c, "answered", "result")
    BY DEF Record
  <2>2. /\ call'[c] = [pc |-> "answered", key |-> call[c].key, input |-> call[c].input, reply |-> "result"]
        /\ \A d \in Calls \ {c} : call'[d] = call[d]
    BY <1>1, <2>1, GotoMoves
  <2> QED
    BY <2>2 DEF Performing
<1>5. HistoryTyped'
  BY <1>1, <1>2 DEF Record, HistoryTyped
<1>6. row' = [row EXCEPT ![call[c].key].status = "succeeded"] \/ row' = row
  BY DEF Record
<1>7. UNCHANGED performed
  BY DEF Record
<1> QED
  BY <1>1, <1>3, <1>4, <1>5, <1>6, <1>7, OutcomeStep

LEMMA FailStep == ASSUME IInv, NEW c \in Calls, Fail(c) PROVE IInv'
<1>1. CallsTyped /\ HistoryTyped /\ Performing(c)
  BY Parts DEF IInv, Fail, Performing
<1>2. Goto(c, "answered", "error") /\ UNCHANGED <<performed, vouched>>
  BY DEF Fail
<1>3. CallsTyped'
  BY <1>1, <1>2, GotoTyped DEF Replies, Fail
<1>4. ~Performing(c)' /\ \A d \in Calls \ {c} : call'[d] = call[d]
  <2>1. /\ call'[c] = [pc |-> "answered", key |-> call[c].key, input |-> call[c].input, reply |-> "error"]
        /\ \A d \in Calls \ {c} : call'[d] = call[d]
    BY <1>1, <1>2, GotoMoves
  <2> QED
    BY <2>1 DEF Performing
<1>5. HistoryTyped'
  BY <1>1, <1>2 DEF HistoryTyped
<1>6. row' = [row EXCEPT ![call[c].key].status = "failed"] \/ row' = row
  BY DEF Fail
<1> QED
  BY <1>1, <1>2, <1>3, <1>4, <1>5, <1>6, OutcomeStep

\* Time passes for a row; a row that a call performs under does not get old.
LEMMA GrowStep == ASSUME IInv, NEW k \in Keys, Grow(k) PROVE IInv'
<1>1. RowsTyped /\ CallsTyped /\ HistoryTyped
  BY Parts DEF IInv
<1>2. UNCHANGED <<call, performed, vouched>> /\ CallsTyped' /\ HistoryTyped'
  BY <1>1 DEF Grow, CallsTyped, HistoryTyped
<1>3. PICK age \in Ages :
        /\ row' = [row EXCEPT ![k].age = age]
        /\ age = "old" => \A c \in Calls : Performing(c) => call[c].key # k
  BY DEF Grow, Ages
<1>4. row[k] \in RowRecord /\ Known(k)
  BY <1>1, NoRowFacts DEF Grow
<1>5. /\ row'[k].owner = row[k].owner /\ row'[k].input = row[k].input
      /\ row'[k].status = row[k].status /\ row'[k].age = age
      /\ row'[k] \in RowRecord
      /\ \A l \in Keys \ {k} : row'[l] = row[l]
  BY <1>1, <1>3, <1>4 DEF RowsTyped, RowRecord
<1>6. row' \in [Keys -> RowRecord]
  BY <1>1, <1>3, <1>5 DEF RowsTyped
<1>7. row'[k] # NoRow
  BY <1>1, <1>4, <1>5, WriteAssumption DEF RowsTyped, NoRow
<1>8. RowsTyped'
  <2>1. \A l \in Keys \ {k} : Known(l)' => Known(l)
    BY <1>5 DEF Known
  <2> QED
    BY <1>1, <1>4, <1>5, <1>6, <2>1 DEF RowsTyped
<1>9. RowsTellTheTruth'
  <2> SUFFICES ASSUME NEW l \in Keys
               PROVE  /\ ~Known(l)' => performed'[l] = <<>>
                      /\ Known(l)' /\ row'[l].status = "succeeded" => performed'[l] = <<row'[l].input>>
    BY DEF RowsTellTheTruth
  <2>1. CASE l = k
    BY <1>2, <1>4, <1>5, <1>7, <2>1 DEF IInv, RowsTellTheTruth, Known
  <2>2. CASE l # k
    BY <1>2, <1>5, <2>2 DEF IInv, RowsTellTheTruth, Known
  <2> QED
    BY <2>1, <2>2
<1>10. \A d \in Calls : Performing(d)' => OwnsRow(d)'
  <2> SUFFICES ASSUME NEW d \in Calls, Performing(d) PROVE OwnsRow(d)'
    BY <1>2 DEF Performing
  <2>1. OwnsRow(d) /\ call[d].key \in Keys
    BY OwnerFacts
  <2>2. CASE call[d].key = k
    BY <1>2, <1>3, <1>5, <2>1, <2>2 DEF OwnsRow
  <2>3. CASE call[d].key # k
    BY <1>2, <1>5, <2>1, <2>3 DEF OwnsRow
  <2> QED
    BY <2>2, <2>3
<1> QED
  BY <1>2, <1>8, <1>9, <1>10, Assemble

LEMMA SweepStep == ASSUME IInv, Sweep PROVE IInv'
<1>1. UNCHANGED call /\ CallsTyped'
  BY Parts DEF IInv, Sweep, CallsTyped
<1>2. \A d \in Calls : Performing(d)' => Performing(d) /\ call'[d] = call[d]
  BY <1>1 DEF Performing
<1>3. CASE ExpireRows /\ UNCHANGED <<performed, vouched>>
  <2>1. HistoryTyped'
    BY <1>3, Parts DEF IInv, HistoryTyped
  <2> QED
    BY <1>1, <1>2, <1>3, <2>1, ExpireStep
<1>4. CASE PurgeRows
  BY <1>1, <1>2, <1>4, PurgeStep
<1> QED
  BY <1>3, <1>4 DEF Sweep

\* The sweep a call makes on its way in.
LEMMA CallSweepStep == ASSUME IInv, NEW c \in Calls, Expire(c) \/ Purge(c) PROVE IInv'
<1>1. CallsTyped /\ HistoryTyped /\ call[c].pc \in {"expire", "purge"}
  BY Parts DEF IInv, Expire, Purge
<1>2. PICK pc \in {"purge", "insert"} : Goto(c, pc, "none")
  BY DEF Expire, Purge
<1>3. CallsTyped'
  BY <1>1, <1>2, GotoTyped DEF Replies
<1>4. /\ call'[c] = [pc |-> pc, key |-> call[c].key, input |-> call[c].input, reply |-> "none"]
      /\ \A d \in Calls \ {c} : call'[d] = call[d]
  BY <1>1, <1>2, GotoMoves
<1>5. \A d \in Calls : Performing(d)' => Performing(d) /\ call'[d] = call[d]
  BY <1>2, <1>4 DEF Performing
<1>6. CASE Expire(c)
  <2>1. ExpireRows /\ UNCHANGED <<performed, vouched>>
    BY <1>6 DEF Expire
  <2>2. HistoryTyped'
    BY <1>1, <2>1 DEF HistoryTyped
  <2> QED
    BY <1>3, <1>5, <2>1, <2>2, ExpireStep
<1>7. CASE Purge(c)
  <2>1. PurgeRows
    BY <1>7 DEF Purge
  <2> QED
    BY <1>3, <1>5, <2>1, PurgeStep
<1> QED
  BY <1>6, <1>7

\* The steps that touch no row and make no write.
LEMMA QuietSteps ==
  ASSUME IInv, NEW c \in Calls,
         \/ \E k \in Keys, i \in Inputs : Arrive(c, k, i)
         \/ Look(c) \/ RecordThrows(c) \/ Leave(c)
  PROVE  IInv'
<1>1. CallsTyped /\ HistoryTyped /\ RowsTyped
  BY Parts DEF IInv
<1>2. UNCHANGED <<row, performed>>
  BY DEF Arrive, Look, RecordThrows, Leave
<1>3. CASE \E k \in Keys, i \in Inputs : Arrive(c, k, i)
  <2>1. PICK k \in Keys, i \in Inputs : Arrive(c, k, i)
    BY <1>3
  <2>2. call' = [call EXCEPT ![c] = [pc |-> "expire", key |-> k, input |-> i, reply |-> "none"]]
    BY <2>1 DEF Arrive
  <2>3. CallsTyped'
    BY <1>1, <2>2 DEF CallsTyped, CallRecord, Replies
  <2>4. \A d \in Calls : Performing(d)' => Performing(d) /\ call'[d] = call[d]
    BY <1>1, <2>2 DEF Performing, CallsTyped
  <2>5. HistoryTyped'
    BY <1>1, <2>1 DEF Arrive, HistoryTyped
  <2> QED
    BY <1>2, <2>3, <2>4, <2>5, QuietStep
<1>4. CASE Look(c)
  <2> DEFINE reply == ReplyOf(row[call[c].key], call[c].input)
  <2>1. call[c].pc = "look" /\ call[c].key \in Keys /\ call[c].input \in Inputs
    BY <1>1, <1>4 DEF Look, CallsTyped
  <2>2. reply \in Replies \ {"none"}
    BY <1>1, <2>1, NoRowFacts DEF ReplyOf, Replies, RowRecord, Statuses
  <2>3. Goto(c, "answered", reply)
    BY <1>4 DEF Look
  <2>4. CallsTyped'
    BY <1>1, <2>1, <2>2, <2>3, GotoTyped
  <2>5. /\ call'[c] = [pc |-> "answered", key |-> call[c].key, input |-> call[c].input, reply |-> reply]
        /\ \A d \in Calls \ {c} : call'[d] = call[d]
    BY <1>1, <2>3, GotoMoves
  <2>6. \A d \in Calls : Performing(d)' => Performing(d) /\ call'[d] = call[d]
    BY <2>5 DEF Performing
  <2>7. HistoryTyped'
    BY <1>1, <1>2, <1>4, <2>1 DEF Look, HistoryTyped
  <2> QED
    BY <1>2, <2>4, <2>6, <2>7, QuietStep
<1>5. CASE RecordThrows(c)
  <2>1. Goto(c, "fail", "none") /\ call[c].pc = "record" /\ HistoryTyped'
    BY <1>1, <1>5 DEF RecordThrows, HistoryTyped
  <2>2. CallsTyped'
    BY <1>1, <2>1, GotoTyped DEF Replies
  <2>3. /\ call'[c] = [pc |-> "fail", key |-> call[c].key, input |-> call[c].input, reply |-> "none"]
        /\ \A d \in Calls \ {c} : call'[d] = call[d]
    BY <1>1, <2>1, GotoMoves
  <2>4. \A d \in Calls : Performing(d)' =>
          /\ Performing(d) /\ call'[d].key = call[d].key /\ call'[d].input = call[d].input
          /\ call'[d].pc = "perform" => call[d].pc = "perform"
          /\ call'[d].pc = "record" => call[d].pc = "record"
    BY <2>1, <2>3 DEF Performing
  <2> QED
    BY <1>2, <2>1, <2>2, <2>4, QuietStep
<1>6. CASE Leave(c)
  <2>1. call' = [call EXCEPT ![c] = IdleCall] /\ HistoryTyped'
    BY <1>1, <1>6 DEF Leave, HistoryTyped
  <2>2. CallsTyped'
    BY <1>1, <2>1 DEF CallsTyped, CallRecord, Replies, IdleCall
  <2>3. \A d \in Calls : Performing(d)' => Performing(d) /\ call'[d] = call[d]
    BY <1>1, <2>1 DEF Performing, CallsTyped, IdleCall
  <2> QED
    BY <1>2, <2>1, <2>2, <2>3, QuietStep
<1> QED
  BY <1>3, <1>4, <1>5, <1>6

LEMMA InvariantStep == IInv /\ [Next]_vars => IInv'
<1> SUFFICES ASSUME IInv, [Next]_vars PROVE IInv'
  OBVIOUS
<1>1. CASE Crash
  <2>1. call' = [c \in Calls |-> IdleCall] /\ UNCHANGED <<row, performed, vouched>>
    BY <1>1 DEF Crash
  <2>2. CallsTyped'
    BY <2>1 DEF CallsTyped, CallRecord, Replies, IdleCall
  <2>3. \A d \in Calls : ~Performing(d)'
    BY <2>1 DEF Performing, IdleCall
  <2>4. HistoryTyped'
    BY <2>1, Parts DEF IInv, HistoryTyped
  <2> QED
    BY <2>1, <2>2, <2>3, <2>4, QuietStep
<1>2. CASE UNCHANGED vars
  <2>1. UNCHANGED <<row, call, performed, vouched>>
    BY <1>2 DEF vars
  <2>2. CallsTyped' /\ HistoryTyped' /\ \A d \in Calls : Performing(d)' => Performing(d)
    BY <2>1, Parts DEF IInv, CallsTyped, HistoryTyped, Performing
  <2> QED
    BY <2>1, <2>2, QuietStep
<1> QED
  BY <1>1, <1>2, GrowStep, SweepStep, CallSweepStep, InsertStep, PerformStep, RecordStep, FailStep,
     QuietSteps
  DEF Next, Handle

THEOREM Invariant == Spec => []IInv
  BY InitInvariant, InvariantStep, PTL DEF Spec

\* Every variable keeps its type.
THEOREM TypeCorrect == Spec => []TypeOK
<1>1. IInv => TypeOK
  BY DEF IInv
<1> QED
  BY <1>1, Invariant, PTL

\* A call that performs has the row of its key to itself.
THEOREM PerformerAlwaysOwnsRow == Spec => []PerformerOwnsRow
<1>1. IInv => PerformerOwnsRow
  BY DEF IInv
<1> QED
  BY <1>1, Invariant, PTL

\* Every step of the server is one of AtMostOnce, or changes nothing there.
LEMMA PromiseStep ==
  IInv /\ [Next]_vars => [Promise!Once \/ (\E K \in SUBSET Keys : Promise!Forget(K))]_(Promise!avars)
<1> SUFFICES ASSUME IInv, [Next]_vars
             PROVE  \/ Promise!Once
                    \/ \E K \in SUBSET Keys : Promise!Forget(K)
                    \/ UNCHANGED <<performed, vouched>>
  BY DEF Promise!avars
<1>1. ASSUME PurgeRows PROVE \E K \in SUBSET Keys : Promise!Forget(K)
  <2> DEFINE gone == {k \in Keys : Known(k) /\ Lapsed(row[k])}
  <2>1. gone \in SUBSET Keys
    OBVIOUS
  <2>2. Promise!Forget(gone)
    BY <1>1 DEF PurgeRows, Promise!Forget
  <2> QED
    BY <2>1, <2>2
<1>2. ASSUME NEW c \in Calls, Look(c) PROVE Promise!Once \/ UNCHANGED <<performed, vouched>>
  <2> DEFINE k == call[c].key
             i == call[c].input
  <2>1. k \in Keys /\ i \in Inputs /\ row[k] \in RowRecord
    BY <1>2, Parts, NoRowFacts DEF IInv, Look, CallsTyped
  <2>2. CASE ReplyOf(row[k], i) = "result"
    <3>1. Known(k) /\ row[k].input = i /\ row[k].status = "succeeded"
      BY <2>1, <2>2 DEF ReplyOf, Known, RowRecord, Statuses
    <3>2. performed[k] = <<i>>
      BY <2>1, <3>1 DEF IInv, RowsTellTheTruth
    <3>3. Promise!Vouch(k, i)
      BY <1>2, <2>2, <3>2 DEF Look, Promise!Vouch
    <3> QED
      BY <2>1, <3>3 DEF Promise!Once
  <2>3. CASE ReplyOf(row[k], i) # "result"
    BY <1>2, <2>3 DEF Look
  <2> QED
    BY <2>2, <2>3
<1>3. ASSUME NEW c \in Calls, Perform(c) PROVE Promise!Once \/ UNCHANGED <<performed, vouched>>
  <2> DEFINE k == call[c].key
             i == call[c].input
  <2>1. call[c].pc = "perform" /\ Performing(c)
    BY <1>3 DEF Perform, Performing
  <2>2. k \in Keys /\ i \in Inputs /\ performed[k] = <<>> /\ HistoryTyped
    BY <2>1, OwnerFacts, Parts DEF IInv, OwnsRow
  <2>3. CASE performed' = [performed EXCEPT ![k] = Append(@, i)]
    <3>1. performed' = [performed EXCEPT ![k] = <<i>>]
      BY <2>2, <2>3 DEF HistoryTyped
    <3>2. Promise!Perform(k, i)
      BY <1>3, <2>2, <3>1 DEF Perform, Promise!Perform
    <3> QED
      BY <2>2, <3>2 DEF Promise!Once
  <2>4. CASE UNCHANGED performed
    BY <1>3, <2>4 DEF Perform
  <2> QED
    BY <1>3, <2>3, <2>4 DEF Perform
<1>4. ASSUME NEW c \in Calls, Record(c) PROVE Promise!Once
  <2> DEFINE k == call[c].key
             i == call[c].input
  <2>1. call[c].pc = "record" /\ Performing(c)
    BY <1>4 DEF Record, Performing
  <2>2. k \in Keys /\ i \in Inputs /\ performed[k] = <<i>>
    BY <2>1, OwnerFacts DEF OwnsRow
  <2>3. Promise!Vouch(k, i)
    BY <1>4, <2>2 DEF Record, Promise!Vouch
  <2> QED
    BY <2>2, <2>3 DEF Promise!Once
<1>5. ASSUME NEW c \in Calls,
             \/ \E k \in Keys, i \in Inputs : Arrive(c, k, i)
             \/ Expire(c) \/ Insert(c) \/ RecordThrows(c) \/ Fail(c) \/ Leave(c)
      PROVE  UNCHANGED <<performed, vouched>>
  BY <1>5 DEF Arrive, Expire, Insert, RecordThrows, Fail, Leave
<1>6. ASSUME NEW c \in Calls, Purge(c) PROVE PurgeRows
  BY <1>6 DEF Purge
<1>7. ASSUME NEW k \in Keys, Grow(k) PROVE UNCHANGED <<performed, vouched>>
  BY <1>7 DEF Grow
<1>8. ASSUME Sweep PROVE PurgeRows \/ UNCHANGED <<performed, vouched>>
  BY <1>8 DEF Sweep
<1> QED
  BY <1>1, <1>2, <1>3, <1>4, <1>5, <1>6, <1>7, <1>8 DEF Next, Handle, Crash, vars

\* The write events keep the promise of AtMostOnce for as long as a key is
\* kept: whatever is repeated, timed out or swept, and wherever the server
\* dies, a write is made at most once and only its own result is returned.
THEOREM McpWritesImplementAtMostOnce == Spec => WritesAtMostOnce
<1>1. Init => Promise!AInit
  BY DEF Init, Promise!AInit
<1> QED
  BY <1>1, Invariant, PromiseStep, PTL DEF Spec, WritesAtMostOnce, Promise!LapsingSpec
=============================================================================
