---------------------------- MODULE CalendarProofs ----------------------------
(* Proofs about CalendarOperation and CalendarOutbox, for any operations,    *)
(* inputs, requests, tabs and length of the queue.  The receipts: their      *)
(* inductive invariant, and that they implement AtMostOnce.  The offline     *)
(* queue in front of them: it uses them as they allow, and what leaves it    *)
(* has been done.                                                            *)
EXTENDS CalendarOutbox, SequenceTheorems, WellFoundedInduction, TLAPS

-----------------------------------------------------------------------------
(* The receipts of calendar operations. *)

\* What a step does to the calls: at most one call c moves, and it keeps the
\* operation and the input it came with.
LEMMA GotoMoves ==
  ASSUME TypeOK, NEW c \in Calls, NEW pc, NEW reply, Goto(c, pc, reply)
  PROVE  /\ call'[c] = [pc |-> pc, key |-> call[c].key, input |-> call[c].input, reply |-> reply]
         /\ \A d \in Calls \ {c} : call'[d] = call[d]
  BY DEF Goto, TypeOK

LEMMA InitInvariant == Init => IInv
  BY OperationAssumption
  DEF Init, IInv, TypeOK, OneWorker, ReceiptsTellTheTruth, WorkerOwnsReceipt, UnclaimedIsBlank,
      ReceiptRecord, CallRecord, NoReceipt, IdleCall, Statuses, Replies, Working, Claimed

\* What one assignment to a column of a row keeps.
LEMMA ReceiptUpdateType ==
  ASSUME receipt \in [Operations -> ReceiptRecord], NEW k \in Operations, NEW s \in Statuses
  PROVE  /\ [receipt EXCEPT ![k].status = s] \in [Operations -> ReceiptRecord]
         /\ [receipt EXCEPT ![k] = Boundary(@)] \in [Operations -> ReceiptRecord]
<1>1. receipt[k] \in ReceiptRecord
  OBVIOUS
<1>2. [receipt[k] EXCEPT !.status = s] \in ReceiptRecord
  BY <1>1 DEF ReceiptRecord
<1>3. Boundary(receipt[k]) \in ReceiptRecord
  BY <1>1 DEF ReceiptRecord, Boundary
<1>4. QED
  BY <1>2, <1>3

\* The types are preserved.
LEMMA TypeStep == TypeOK /\ [Next]_vars => TypeOK'
<1> SUFFICES ASSUME TypeOK, [Next]_vars PROVE TypeOK'
  OBVIOUS
<1> USE DEF ReceiptRecord, CallRecord, Statuses, Replies, IdleCall, NoReceipt
<1>1. ASSUME NEW c \in Calls, NEW k \in Operations, NEW i \in Inputs, Arrive(c, k, i)
      PROVE  TypeOK'
  BY <1>1 DEF TypeOK, Arrive
<1>2. ASSUME NEW c \in Calls, Claim(c) PROVE TypeOK'
  <2> DEFINE k == call[c].key
             i == call[c].input
  <2>1. k \in Operations /\ i \in Inputs
    BY <1>2 DEF TypeOK, Claim
  <2>2. receipt' \in [Operations -> ReceiptRecord]
    <3>1. CASE receipt' = [receipt EXCEPT ![k] = [hash |-> i, wrote |-> FALSE, status |-> "none"]]
      <4>1. receipt \in [Operations -> ReceiptRecord]
        BY DEF TypeOK
      <4>2. [hash |-> i, wrote |-> FALSE, status |-> "none"] \in ReceiptRecord
        BY <2>1
      <4> QED
        BY <3>1, <4>1, <4>2
    <3>2. CASE receipt' = [receipt EXCEPT ![k].status = "none"]
      BY <2>1, <3>2, ReceiptUpdateType DEF TypeOK
    <3>3. CASE UNCHANGED receipt
      BY <3>3 DEF TypeOK
    <3> QED
      BY <1>2, <3>1, <3>2, <3>3 DEF Claim
  <2>3. \E pc \in {"preflight", "look"} : Goto(c, pc, "none")
    BY <1>2 DEF Claim
  <2>4. UNCHANGED <<performed, vouched>>
    BY <1>2 DEF Claim
  <2> QED
    BY <2>1, <2>2, <2>3, <2>4 DEF TypeOK, Goto
<1>3. ASSUME NEW c \in Calls, Look(c) PROVE TypeOK'
  <2>1. call[c].key \in Operations /\ call[c].input \in Inputs
    BY <1>3 DEF TypeOK, Look
  <2>2. ReplyOf(receipt[call[c].key], call[c].input) \in Replies \ {"none"}
    BY <2>1 DEF TypeOK, ReplyOf
  <2> QED
    BY <1>3, <2>1, <2>2 DEF TypeOK, Look, Goto
<1>4. ASSUME NEW c \in Calls, Refuse(c) PROVE TypeOK'
  BY <1>4 DEF TypeOK, Refuse, Goto
<1>5. ASSUME NEW c \in Calls, BeginWrite(c) PROVE TypeOK'
  <2>1. call[c].key \in Operations /\ call[c].input \in Inputs
    BY <1>5 DEF TypeOK, BeginWrite
  <2>2. receipt' \in [Operations -> ReceiptRecord]
    BY <1>5, <2>1, ReceiptUpdateType DEF TypeOK, BeginWrite
  <2>3. call' \in [Calls -> CallRecord]
    BY <1>5, <2>1 DEF TypeOK, BeginWrite, Goto
  <2>4. UNCHANGED <<performed, vouched>>
    BY <1>5 DEF BeginWrite
  <2>5. /\ \A d \in Calls : call'[d].pc # "idle" => call'[d].key \in Operations /\ call'[d].input \in Inputs
        /\ \A d \in Calls : call'[d].pc = "store" => call'[d].reply \in {"ok", "failed"}
        /\ \A d \in Calls : call'[d].pc = "answered" => call'[d].reply # "none"
    BY <1>5, <2>1 DEF TypeOK, BeginWrite, Goto
  <2> QED
    BY <2>2, <2>3, <2>4, <2>5 DEF TypeOK
<1>6. ASSUME NEW c \in Calls, Write(c) PROVE TypeOK'
  <2>1. call[c].key \in Operations /\ call[c].input \in Inputs
    BY <1>6 DEF TypeOK, Write
  <2>2. PICK done \in BOOLEAN, reply \in {"ok", "failed"} :
          /\ performed' = IF done THEN [performed EXCEPT ![call[c].key] = Append(@, call[c].input)]
                          ELSE performed
          /\ Goto(c, "store", reply)
          /\ UNCHANGED <<receipt, vouched>>
    BY <1>6 DEF Write
  <2>3. performed' \in [Operations -> Seq(Inputs)]
    BY <2>1, <2>2 DEF TypeOK
  <2> QED
    BY <2>1, <2>2, <2>3 DEF TypeOK, Goto
<1>7. ASSUME NEW c \in Calls, Store(c) PROVE TypeOK'
  <2>1. call[c].key \in Operations /\ call[c].input \in Inputs /\ call[c].reply \in {"ok", "failed"}
    BY <1>7 DEF TypeOK, Store
  <2>2. receipt' \in [Operations -> ReceiptRecord]
    BY <1>7, <2>1, ReceiptUpdateType DEF TypeOK, Store
  <2>3. call' \in [Calls -> CallRecord]
    BY <1>7, <2>1 DEF TypeOK, Store, Goto
  <2>4. /\ \A d \in Calls : call'[d].pc # "idle" => call'[d].key \in Operations /\ call'[d].input \in Inputs
        /\ \A d \in Calls : call'[d].pc = "store" => call'[d].reply \in {"ok", "failed"}
        /\ \A d \in Calls : call'[d].pc = "answered" => call'[d].reply # "none"
    BY <1>7, <2>1 DEF TypeOK, Store, Goto
  <2>5. vouched' \subseteq Operations \X Inputs
    BY <1>7, <2>1 DEF TypeOK, Store
  <2>6. UNCHANGED performed
    BY <1>7 DEF Store
  <2> QED
    BY <2>2, <2>3, <2>4, <2>5, <2>6 DEF TypeOK
<1>8. ASSUME NEW c \in Calls, StoreFails(c) PROVE TypeOK'
  BY <1>8 DEF TypeOK, StoreFails, Goto
<1>9. ASSUME NEW c \in Calls, Leave(c) PROVE TypeOK'
  BY <1>9 DEF TypeOK, Leave
<1>10. ASSUME Crash PROVE TypeOK'
  BY <1>10 DEF TypeOK, Crash
<1>11. ASSUME UNCHANGED vars PROVE TypeOK'
  BY <1>11 DEF TypeOK, vars
<1> QED
  BY <1>1, <1>2, <1>3, <1>4, <1>5, <1>6, <1>7, <1>8, <1>9, <1>10, <1>11 DEF Next, Handle

\* The conjuncts of the invariant besides the types.
Rest == OneWorker /\ ReceiptsTellTheTruth /\ WorkerOwnsReceipt /\ UnclaimedIsBlank

\* Steps that touch neither the rows nor the calendar, and let no request gain
\* a claim, a write or a success.
LEMMA QuietStep ==
  ASSUME IInv, UNCHANGED <<receipt, performed>>,
         \A d \in Calls : Working(d)' =>
           /\ Working(d)
           /\ call'[d].key = call[d].key
           /\ call'[d].input = call[d].input
           /\ call'[d].pc = "preflight" => call[d].pc = "preflight"
           /\ call'[d].pc = "write" => call[d].pc = "write"
           /\ call'[d].pc = "store" /\ call'[d].reply = "ok"
                => call[d].pc = "store" /\ call[d].reply = "ok"
  PROVE  Rest'
<1>1. OneWorker'
  BY DEF IInv, OneWorker
<1>2. ReceiptsTellTheTruth'
  BY DEF IInv, ReceiptsTellTheTruth
<1>3. WorkerOwnsReceipt'
  BY DEF IInv, WorkerOwnsReceipt
<1>4. UnclaimedIsBlank'
  BY DEF IInv, UnclaimedIsBlank, Claimed
<1> QED
  BY <1>1, <1>2, <1>3, <1>4 DEF Rest

\* A claim is won only where nobody works and nothing has been written.
LEMMA ClaimStep == ASSUME IInv, NEW c \in Calls, Claim(c) PROVE Rest'
<1> DEFINE k == call[c].key
           i == call[c].input
<1>1. TypeOK /\ k \in Operations /\ i \in Inputs /\ call[c].pc = "claim" /\ ~Working(c)
  BY DEF IInv, TypeOK, Claim, Working
<1>2. UNCHANGED performed
  BY DEF Claim
<1>3. CASE /\ Claimed(k)
           /\ ~Reclaimable(receipt[k], i)
           /\ Goto(c, "look", "none")
           /\ UNCHANGED receipt
  <2>1. \A d \in Calls : Working(d)' => d # c /\ call'[d] = call[d]
    <3>1. /\ call'[c] = [pc |-> "look", key |-> k, input |-> i, reply |-> "none"]
          /\ \A d \in Calls \ {c} : call'[d] = call[d]
      BY <1>1, <1>3, GotoMoves
    <3> QED
      BY <3>1 DEF Working
  <2>2. \A d \in Calls : Working(d)' => Working(d)
    BY <2>1 DEF Working
  <2> QED
    BY <1>2, <1>3, <2>1, <2>2, QuietStep
<1>4. CASE /\ ~Claimed(k) \/ Reclaimable(receipt[k], i)
           /\ receipt'[k] = [hash |-> i, wrote |-> FALSE, status |-> "none"]
           /\ \A l \in Operations \ {k} : receipt'[l] = receipt[l]
           /\ Goto(c, "preflight", "none")
  <2>1. \A d \in Calls : Working(d) => call[d].key # k
    <3>1. \A d \in Calls : Working(d) /\ call[d].key = k =>
            receipt[k].hash = call[d].input /\ receipt[k].status = "none" /\ call[d].input \in Inputs
      BY DEF IInv, TypeOK, WorkerOwnsReceipt, Working
    <3> QED
      BY <1>4, <3>1, OperationAssumption DEF Claimed, Reclaimable
  <2>2. performed[k] = <<>>
    <3>1. ~receipt[k].wrote
      BY <1>1, <1>4 DEF IInv, UnclaimedIsBlank, NoReceipt, Reclaimable
    <3> QED
      BY <1>1, <3>1 DEF IInv, ReceiptsTellTheTruth
  <2>3. /\ call'[c] = [pc |-> "preflight", key |-> k, input |-> i, reply |-> "none"]
        /\ \A d \in Calls \ {c} : call'[d] = call[d]
    BY <1>1, <1>4, GotoMoves
  <2>4. \A d \in Calls : d # c /\ Working(d)' => Working(d) /\ call[d].key # k
    BY <2>1, <2>3 DEF Working
  <2>5. OneWorker'
    BY <2>3, <2>4 DEF IInv, OneWorker
  <2>6. ReceiptsTellTheTruth'
    BY <1>2, <1>4, <2>2 DEF IInv, ReceiptsTellTheTruth
  <2>7. WorkerOwnsReceipt'
    <3>1. SUFFICES ASSUME NEW d \in Calls, Working(d)'
                   PROVE  LET l == call'[d].key
                              r == receipt'[l]
                          IN /\ r.hash = call'[d].input
                             /\ r.status = "none"
                             /\ call'[d].pc = "preflight" => ~r.wrote
                             /\ call'[d].pc = "write" => r.wrote /\ performed'[l] = <<>>
                             /\ call'[d].pc = "store" /\ call'[d].reply = "ok"
                                  => performed'[l] = <<call'[d].input>>
      BY DEF WorkerOwnsReceipt
    <3>2. CASE d = c
      BY <1>4, <2>3, <3>2
    <3>3. CASE d # c
      <4>1. call'[d] = call[d] /\ Working(d) /\ call[d].key \in Operations \ {k}
        BY <2>3, <2>4, <3>1, <3>3 DEF IInv, TypeOK, Working
      <4>2. receipt'[call[d].key] = receipt[call[d].key]
        BY <1>4, <4>1
      <4> QED
        BY <1>2, <4>1, <4>2 DEF IInv, WorkerOwnsReceipt
    <3> QED
      BY <3>2, <3>3
  <2>8. UnclaimedIsBlank'
    BY <1>1, <1>4, OperationAssumption DEF IInv, UnclaimedIsBlank, Claimed
  <2> QED
    BY <2>5, <2>6, <2>7, <2>8 DEF Rest
<1>5. ASSUME Claimed(k), Reclaimable(receipt[k], i),
             receipt' = [receipt EXCEPT ![k].status = "none"]
      PROVE  /\ receipt'[k] = [hash |-> i, wrote |-> FALSE, status |-> "none"]
             /\ \A l \in Operations \ {k} : receipt'[l] = receipt[l]
  BY <1>1, <1>5 DEF TypeOK, ReceiptRecord, Reclaimable
<1>6. ASSUME receipt' = [receipt EXCEPT ![k] = [hash |-> i, wrote |-> FALSE, status |-> "none"]]
      PROVE  /\ receipt'[k] = [hash |-> i, wrote |-> FALSE, status |-> "none"]
             /\ \A l \in Operations \ {k} : receipt'[l] = receipt[l]
  BY <1>1, <1>6 DEF TypeOK
<1> QED
  BY <1>3, <1>4, <1>5, <1>6 DEF Claim

\* A step of a request that holds the claim of its operation: it may change
\* its own row, its own part of the calendar and itself, no more.
LEMMA WorkerStep ==
  ASSUME IInv, NEW c \in Calls, Working(c), NEW k, k = call[c].key,
         /\ call'[c].key = k /\ call'[c].input = call[c].input
         /\ \A d \in Calls \ {c} : call'[d] = call[d],
         \A l \in Operations \ {k} : receipt'[l] = receipt[l] /\ performed'[l] = performed[l],
         receipt'[k].hash = receipt[k].hash,
         ~receipt'[k].wrote => performed'[k] = <<>>,
         receipt'[k].status = "ok" => performed'[k] = <<call[c].input>>,
         Working(c)' =>
           /\ receipt'[k].status = "none"
           /\ call'[c].pc = "preflight" => ~receipt'[k].wrote
           /\ call'[c].pc = "write" => receipt'[k].wrote /\ performed'[k] = <<>>
           /\ call'[c].pc = "store" /\ call'[c].reply = "ok" => performed'[k] = <<call[c].input>>
  PROVE  Rest'
<1>1. k \in Operations /\ receipt[k].hash = call[c].input /\ call[c].input \in Inputs
  BY DEF IInv, TypeOK, Working, WorkerOwnsReceipt
<1>2. \A d \in Calls : d # c /\ Working(d)' => Working(d) /\ call[d].key \in Operations \ {k}
  BY DEF IInv, TypeOK, OneWorker, Working
<1>3. OneWorker'
  BY <1>2 DEF IInv, OneWorker
<1>4. ReceiptsTellTheTruth'
  BY <1>1 DEF IInv, ReceiptsTellTheTruth
<1>5. WorkerOwnsReceipt'
  <2>1. SUFFICES ASSUME NEW d \in Calls, Working(d)'
                 PROVE  LET l == call'[d].key
                            r == receipt'[l]
                        IN /\ r.hash = call'[d].input
                           /\ r.status = "none"
                           /\ call'[d].pc = "preflight" => ~r.wrote
                           /\ call'[d].pc = "write" => r.wrote /\ performed'[l] = <<>>
                           /\ call'[d].pc = "store" /\ call'[d].reply = "ok"
                                => performed'[l] = <<call'[d].input>>
    BY DEF WorkerOwnsReceipt
  <2>2. CASE d = c
    BY <1>1, <2>1, <2>2
  <2>3. CASE d # c
    <3>1. call'[d] = call[d] /\ Working(d) /\ call[d].key \in Operations \ {k}
      BY <1>2, <2>1, <2>3
    <3>2. receipt'[call[d].key] = receipt[call[d].key] /\ performed'[call[d].key] = performed[call[d].key]
      BY <3>1
    <3> QED
      BY <3>1, <3>2 DEF IInv, WorkerOwnsReceipt
  <2> QED
    BY <2>2, <2>3
<1>6. UnclaimedIsBlank'
  BY <1>1, OperationAssumption DEF IInv, UnclaimedIsBlank, Claimed
<1> QED
  BY <1>3, <1>4, <1>5, <1>6 DEF Rest

\* What the invariant says of a request between its claim and its response.
LEMMA WorkerFacts ==
  ASSUME IInv, NEW c \in Calls, Working(c)
  PROVE  /\ call[c].key \in Operations /\ call[c].input \in Inputs
         /\ receipt[call[c].key] \in ReceiptRecord
         /\ receipt[call[c].key].hash = call[c].input
         /\ receipt[call[c].key].status = "none"
         /\ call[c].pc = "preflight" => ~receipt[call[c].key].wrote
         /\ call[c].pc = "write" =>
              receipt[call[c].key].wrote /\ performed[call[c].key] = <<>>
         /\ call[c].pc = "store" /\ call[c].reply = "ok" =>
              performed[call[c].key] = <<call[c].input>>
         /\ ~receipt[call[c].key].wrote => performed[call[c].key] = <<>>
  BY DEF IInv, TypeOK, Working, WorkerOwnsReceipt, ReceiptsTellTheTruth

LEMMA BeginWriteStep == ASSUME IInv, NEW c \in Calls, BeginWrite(c) PROVE Rest'
<1> DEFINE k == call[c].key
<1>1. TypeOK /\ Working(c)
  BY DEF IInv, BeginWrite, Working
<1>2. /\ call'[c] = [pc |-> "write", key |-> k, input |-> call[c].input, reply |-> "none"]
      /\ \A d \in Calls \ {c} : call'[d] = call[d]
  BY <1>1, GotoMoves DEF BeginWrite
<1>3. k \in Operations /\ performed[k] = <<>> /\ receipt[k].status = "none"
  BY <1>1, WorkerFacts DEF BeginWrite
<1>4. /\ receipt'[k] = [receipt[k] EXCEPT !.wrote = TRUE]
      /\ \A l \in Operations \ {k} : receipt'[l] = receipt[l]
  BY <1>1, <1>3 DEF BeginWrite, Boundary, TypeOK
<1>5. receipt'[k].hash = receipt[k].hash /\ receipt'[k].wrote /\ receipt'[k].status = "none"
  BY <1>1, <1>3, <1>4 DEF TypeOK, ReceiptRecord
<1>6. UNCHANGED performed
  BY DEF BeginWrite
<1>7. call'[c].key = k /\ call'[c].input = call[c].input /\ call'[c].pc = "write"
  BY <1>2
<1>8. /\ ~receipt'[k].wrote => performed'[k] = <<>>
      /\ receipt'[k].status = "ok" => performed'[k] = <<call[c].input>>
      /\ performed'[k] = <<>>
  BY <1>3, <1>5, <1>6
<1> QED
  BY <1>1, <1>2, <1>4, <1>5, <1>6, <1>7, <1>8, WorkerStep

LEMMA WriteStep == ASSUME IInv, NEW c \in Calls, Write(c) PROVE Rest'
<1> DEFINE k == call[c].key
<1>1. TypeOK /\ Working(c) /\ call[c].pc = "write"
  BY DEF IInv, Write, Working
<1>2. PICK done \in BOOLEAN, reply \in {"ok", "failed"} :
        /\ reply = "ok" => done
        /\ performed' = IF done THEN [performed EXCEPT ![k] = Append(@, call[c].input)]
                        ELSE performed
        /\ Goto(c, "store", reply)
        /\ UNCHANGED <<receipt, vouched>>
  BY DEF Write
<1>3. /\ call'[c] = [pc |-> "store", key |-> k, input |-> call[c].input, reply |-> reply]
      /\ \A d \in Calls \ {c} : call'[d] = call[d]
  BY <1>1, <1>2, GotoMoves
<1>4. /\ k \in Operations /\ performed[k] = <<>>
      /\ receipt[k].wrote /\ receipt[k].status = "none" /\ call[c].input \in Inputs
  BY <1>1, WorkerFacts
<1>5. /\ done => performed'[k] = <<call[c].input>>
      /\ \A l \in Operations \ {k} : performed'[l] = performed[l]
  BY <1>1, <1>2, <1>4 DEF TypeOK
<1> QED
  BY <1>1, <1>2, <1>3, <1>4, <1>5, WorkerStep

LEMMA StoreStep == ASSUME IInv, NEW c \in Calls, Store(c) PROVE Rest'
<1> DEFINE k == call[c].key
<1>1. TypeOK /\ Working(c) /\ call[c].pc = "store"
  BY DEF IInv, Store, Working
<1>2. /\ call'[c] = [pc |-> "answered", key |-> k, input |-> call[c].input, reply |-> call[c].reply]
      /\ \A d \in Calls \ {c} : call'[d] = call[d]
  BY <1>1, GotoMoves DEF Store
<1>3. /\ k \in Operations
      /\ call[c].reply = "ok" => performed[k] = <<call[c].input>>
      /\ ~receipt[k].wrote => performed[k] = <<>>
  BY <1>1, WorkerFacts
<1>4. /\ receipt'[k] = [receipt[k] EXCEPT !.status = call[c].reply]
      /\ \A l \in Operations \ {k} : receipt'[l] = receipt[l]
  BY <1>1, <1>3 DEF Store, TypeOK
<1>5. /\ receipt'[k].hash = receipt[k].hash
      /\ receipt'[k].wrote = receipt[k].wrote
      /\ receipt'[k].status = call[c].reply
  BY <1>1, <1>3, <1>4 DEF TypeOK, ReceiptRecord
<1>6. UNCHANGED performed /\ ~Working(c)'
  BY <1>2 DEF Store, Working
<1>7. call'[c].key = k /\ call'[c].input = call[c].input
  BY <1>2
<1>8. /\ ~receipt'[k].wrote => performed'[k] = <<>>
      /\ receipt'[k].status = "ok" => performed'[k] = <<call[c].input>>
  BY <1>3, <1>5, <1>6
<1>9. \A d \in Calls \ {c} : call'[d] = call[d]
  BY <1>2
<1>10. \A l \in Operations \ {k} : receipt'[l] = receipt[l] /\ performed'[l] = performed[l]
  BY <1>4, <1>6
<1> HIDE DEF k
<1>11. k = call[c].key
  BY DEF k
<1> QED
  BY <1>1, <1>5, <1>6, <1>7, <1>8, <1>9, <1>10, <1>11, WorkerStep

\* The steps that touch no row and no calendar, one by one.
LEMMA QuietSteps ==
  ASSUME IInv, NEW c \in Calls,
         \/ \E k \in Operations, i \in Inputs : Arrive(c, k, i)
         \/ Look(c) \/ Refuse(c) \/ StoreFails(c) \/ Leave(c)
  PROVE  Rest'
<1>1. TypeOK
  BY DEF IInv
<1>2. UNCHANGED <<receipt, performed>>
  BY DEF Arrive, Look, Refuse, StoreFails, Leave
<1>3. \A d \in Calls \ {c} : call'[d] = call[d]
  BY <1>1 DEF Arrive, Look, Refuse, StoreFails, Leave, Goto, TypeOK
<1>4. CASE Refuse(c)
  <2>1. /\ call[c].pc = "preflight"
        /\ call'[c] = [pc |-> "store", key |-> call[c].key, input |-> call[c].input, reply |-> "failed"]
    BY <1>1, <1>4, GotoMoves DEF Refuse
  <2>2. Working(c)
    BY <2>1 DEF Working
  <2>3. \A d \in Calls \ {c} : Working(d)' => Working(d)
    BY <1>3 DEF Working
  <2> QED
    BY <1>2, <1>3, <2>1, <2>2, <2>3, QuietStep
<1>5. CASE ~Refuse(c)
  <2>1. call'[c].pc \in {"claim", "answered", "idle"}
    BY <1>1, <1>5 DEF Arrive, Look, StoreFails, Leave, Goto, TypeOK, IdleCall
  <2>2. ~Working(c)' /\ \A d \in Calls \ {c} : Working(d)' => Working(d)
    BY <1>3, <2>1 DEF Working
  <2> QED
    BY <1>2, <1>3, <2>2, QuietStep
<1> QED
  BY <1>4, <1>5

LEMMA InvariantStep == IInv /\ [Next]_vars => IInv'
<1> SUFFICES ASSUME IInv, [Next]_vars PROVE IInv'
  OBVIOUS
<1>1. TypeOK'
  BY TypeStep DEF IInv
<1>2. Rest'
  <2>1. CASE Crash
    <3>1. UNCHANGED <<receipt, performed>> /\ \A d \in Calls : call'[d].pc = "idle"
      BY <2>1 DEF Crash, IdleCall
    <3>2. \A d \in Calls : ~Working(d)'
      BY <3>1 DEF Working
    <3> QED
      BY <3>1, <3>2, QuietStep
  <2>2. CASE UNCHANGED vars
    <3>1. UNCHANGED <<receipt, call, performed>> /\ \A d \in Calls : Working(d)' => Working(d)
      BY <2>2 DEF vars, Working
    <3> QED
      BY <3>1, QuietStep
  <2> QED
    BY <2>1, <2>2, ClaimStep, BeginWriteStep, WriteStep, StoreStep, QuietSteps DEF Next, Handle
<1> QED
  BY <1>1, <1>2 DEF IInv, Rest

THEOREM Invariant == Spec => []IInv
  BY InitInvariant, InvariantStep, PTL DEF Spec

\* Every variable keeps its type.
THEOREM TypeCorrect == Spec => []TypeOK
<1>1. IInv => TypeOK
  BY DEF IInv
<1> QED
  BY <1>1, Invariant, PTL

\* At most one request works for an operation at a time.
THEOREM OneWorkerAlways == Spec => []OneWorker
<1>1. IInv => OneWorker
  BY DEF IInv
<1> QED
  BY <1>1, Invariant, PTL

\* A receipt always tells the truth about the calendar.
THEOREM ReceiptsAlwaysTellTheTruth == Spec => []ReceiptsTellTheTruth
<1>1. IInv => ReceiptsTellTheTruth
  BY DEF IInv
<1> QED
  BY <1>1, Invariant, PTL

\* Every step of the server is a step of AtMostOnce, or changes nothing there.
LEMMA PromiseStep == IInv /\ [Next]_vars => [Promise!Once]_(Promise!avars)
<1> SUFFICES ASSUME IInv, [Next]_vars
             PROVE  Promise!Once \/ UNCHANGED <<performed, vouched>>
  BY DEF Promise!avars
<1>1. ASSUME NEW c \in Calls, Look(c)
      PROVE  Promise!Once \/ UNCHANGED <<performed, vouched>>
  <2> DEFINE k == call[c].key
             i == call[c].input
  <2>1. k \in Operations /\ i \in Inputs
    BY <1>1 DEF IInv, TypeOK, Look
  <2>2. CASE ReplyOf(receipt[k], i) = "ok"
    <3>1. performed[k] = <<i>>
      BY <2>1, <2>2 DEF IInv, ReceiptsTellTheTruth, ReplyOf
    <3>2. Promise!Vouch(k, i)
      BY <1>1, <2>2, <3>1 DEF Look, Promise!Vouch
    <3> QED
      BY <2>1, <3>2 DEF Promise!Once
  <2>3. CASE ReplyOf(receipt[k], i) # "ok"
    BY <1>1, <2>3 DEF Look
  <2> QED
    BY <2>2, <2>3
<1>2. ASSUME NEW c \in Calls, Write(c)
      PROVE  Promise!Once \/ UNCHANGED <<performed, vouched>>
  <2> DEFINE k == call[c].key
             i == call[c].input
  <2>1. k \in Operations /\ i \in Inputs /\ performed[k] = <<>>
    BY <1>2, WorkerFacts DEF Write, Working
  <2>2. CASE performed' = [performed EXCEPT ![k] = Append(@, i)]
    <3>1. performed' = [performed EXCEPT ![k] = <<i>>]
      BY <2>1, <2>2 DEF IInv, TypeOK
    <3>2. Promise!Perform(k, i)
      BY <1>2, <2>1, <3>1 DEF Write, Promise!Perform
    <3> QED
      BY <2>1, <3>2 DEF Promise!Once
  <2>3. CASE UNCHANGED performed
    BY <1>2, <2>3 DEF Write
  <2> QED
    BY <1>2, <2>2, <2>3 DEF Write
<1>3. ASSUME NEW c \in Calls, Store(c)
      PROVE  Promise!Once \/ UNCHANGED <<performed, vouched>>
  <2> DEFINE k == call[c].key
             i == call[c].input
  <2>1. CASE call[c].reply = "ok"
    <3>1. k \in Operations /\ i \in Inputs /\ performed[k] = <<i>>
      BY <1>3, <2>1, WorkerFacts DEF Store, Working
    <3>2. Promise!Vouch(k, i)
      BY <1>3, <2>1, <3>1 DEF Store, Promise!Vouch
    <3> QED
      BY <3>1, <3>2 DEF Promise!Once
  <2>2. CASE call[c].reply # "ok"
    BY <1>3, <2>2 DEF Store
  <2> QED
    BY <2>1, <2>2
<1>4. ASSUME NEW c \in Calls,
             \/ \E k \in Operations, i \in Inputs : Arrive(c, k, i)
             \/ Claim(c) \/ Refuse(c) \/ BeginWrite(c) \/ StoreFails(c) \/ Leave(c)
      PROVE  UNCHANGED <<performed, vouched>>
  BY <1>4 DEF Arrive, Claim, Refuse, BeginWrite, StoreFails, Leave
<1> QED
  BY <1>1, <1>2, <1>3, <1>4 DEF Next, Handle, Crash, vars

\* The receipts keep the promise of AtMostOnce: whatever is repeated, and
\* wherever the server dies, the calendar is changed at most once per
\* operation, and success is reported only for the change that was made.
THEOREM ReceiptsImplementAtMostOnce == Spec => ChangesAtMostOnce
<1>1. Init => Promise!AInit
  BY DEF Init, Promise!AInit
<1> QED
  BY <1>1, Invariant, PromiseStep, PTL DEF Spec, ChangesAtMostOnce, Promise!ASpec

-----------------------------------------------------------------------------
(* The offline queue. *)

\* A set of positions has a first and a last one.
LEMMA FirstPosition ==
  ASSUME NEW P \in SUBSET Nat, P # {}
  PROVE  First(P) \in P /\ \A m \in P : First(P) <= m
<1>1. PICK n \in P : \A m \in P : <<m, n>> \notin OpToRel(<, Nat)
  BY NatLessThanWellFounded, WFMin
<1>2. \A m \in P : ~(m < n)
  BY <1>1 DEF OpToRel
<1>3. \A m \in P : n <= m
  BY <1>2
<1> QED
  BY <1>3 DEF First

LEMMA LastPosition ==
  ASSUME NEW n \in Nat, NEW P \in SUBSET (1..n), P # {}
  PROVE  Last(P) \in P /\ \A m \in P : m <= Last(P)
<1> DEFINE Q == {n - m : m \in P}
<1>1. Q \in SUBSET Nat /\ Q # {}
  <2>1. \A m \in P : n - m \in Nat
    OBVIOUS
  <2> QED
    BY <2>1
<1>2. First(Q) \in Q /\ \A q \in Q : First(Q) <= q
  BY <1>1, FirstPosition
<1>3. PICK l \in P : First(Q) = n - l
  BY <1>2
<1>4. \A m \in P : n - l <= n - m
  BY <1>2, <1>3
<1>5. \A m \in P : m <= l
  BY <1>4
<1> QED
  BY <1>5 DEF Last

\* A replay that starts has an entry to send.
LEMMA ReplayingType ==
  ASSUME NEW entries \in Seq(EntryRecord)
  PROVE  LET new == Replaying(entries) IN
         /\ new \in TabRecord
         /\ new.call = NoCall
         /\ \/ new.pc = "rest" /\ new.todo = <<>>
            \/ new.pc = "sent" /\ new.todo # <<>>
<1> DEFINE ready == {n \in DOMAIN entries : ~entries[n].error}
           todo == SubSeq(entries, First(ready), Last(ready))
<1>1. Len(entries) \in Nat /\ DOMAIN entries = 1..Len(entries)
  OBVIOUS
<1>2. CASE ready = {}
  <2>1. Replaying(entries) = RestingTab
    BY <1>2 DEF Replaying
  <2> QED
    BY <2>1, EmptySeq DEF RestingTab, TabRecord
<1>3. CASE ready # {}
  <2>1. First(ready) \in ready /\ Last(ready) \in ready /\ First(ready) <= Last(ready)
    <3>1. ready \in SUBSET (1..Len(entries)) /\ ready \in SUBSET Nat
      BY <1>1
    <3>2. First(ready) \in ready /\ \A m \in ready : First(ready) <= m
      BY <1>3, <3>1, FirstPosition
    <3>3. Last(ready) \in ready
      BY <1>1, <1>3, <3>1, LastPosition
    <3> QED
      BY <3>2, <3>3
  <2>2. First(ready) \in 1..Len(entries) /\ Last(ready) \in 1..Len(entries)
    BY <1>1, <2>1
  <2> HIDE DEF ready
  <2>3. /\ todo \in Seq(EntryRecord)
        /\ Len(todo) = Last(ready) - First(ready) + 1
    <3>1. \A n \in First(ready)..Last(ready) : entries[n] \in EntryRecord
      BY <1>1, <2>2, ElementOfSeq
    <3> QED
      BY <2>1, <2>2, <3>1, SubSeqProperties
  <2>4. todo # <<>>
    <3>1. Len(todo) # 0
      BY <2>1, <2>2, <2>3
    <3> QED
      BY <3>1, EmptySeq
  <2>5. Replaying(entries) = [pc |-> "sent", todo |-> todo, call |-> NoCall]
    BY <1>3 DEF Replaying, ready
  <2> QED
    BY <2>3, <2>4, <2>5 DEF TabRecord
<1> QED
  BY <1>2, <1>3

\* What the queue is to be: typed, bounded, without repetition.
QueueOK(q) ==
  /\ q \in Seq(EntryRecord)
  /\ Len(q) <= QueueLimit
  /\ \A m, n \in DOMAIN q : q[m].op = q[n].op => m = n

\* An entry is removed: the other operations stay, and nothing else comes in.
LEMMA WithoutKeeps ==
  ASSUME QueueOK(queue), NEW id
  PROVE  /\ QueueOK(Without(id))
         /\ \A n \in DOMAIN Without(id) : \E m \in DOMAIN queue : Without(id)[n] = queue[m]
         /\ \A m \in DOMAIN queue :
              queue[m].op # id => \E n \in DOMAIN Without(id) : Without(id)[n].op = queue[m].op
<1> DEFINE at == {n \in DOMAIN queue : queue[n].op = id}
           p == First(at)
           L == Len(queue)
           w == Without(id)
<1>1. queue \in Seq(EntryRecord) /\ L \in Nat /\ DOMAIN queue = 1..L
  BY DEF QueueOK
<1>2. CASE at = {}
  <2>1. w = queue
    BY <1>2 DEF Without
  <2> QED
    BY <2>1
<1>3. CASE at # {}
  <2>1. p \in at
    <3>1. at \in SUBSET Nat
      BY <1>1
    <3> QED
      BY <1>3, <3>1, FirstPosition
  <2>2. p \in 1..L /\ queue[p].op = id
    BY <1>1, <2>1
  <2>3. w = SubSeq(queue, 1, p - 1) \o SubSeq(queue, p + 1, L)
    BY <1>3 DEF Without
  <2> HIDE DEF p, w
  <2>4. /\ SubSeq(queue, 1, p - 1) \in Seq(EntryRecord)
        /\ Len(SubSeq(queue, 1, p - 1)) = p - 1
        /\ \A n \in 1..(p - 1) : SubSeq(queue, 1, p - 1)[n] = queue[n]
    <3>1. \A n \in 1..(p - 1) : queue[n] \in EntryRecord
      BY <1>1, <2>2, ElementOfSeq
    <3>2. p - 1 \in Int
      BY <2>2
    <3>3. /\ SubSeq(queue, 1, p - 1) \in Seq(EntryRecord)
          /\ Len(SubSeq(queue, 1, p - 1)) = IF 1 <= p - 1 THEN p - 1 - 1 + 1 ELSE 0
          /\ \A n \in 1..(p - 1 - 1 + 1) : SubSeq(queue, 1, p - 1)[n] = queue[1 + n - 1]
      BY <3>1, <3>2, SubSeqProperties
    <3> QED
      BY <2>2, <3>3
  <2>5. /\ SubSeq(queue, p + 1, L) \in Seq(EntryRecord)
        /\ Len(SubSeq(queue, p + 1, L)) = L - p
        /\ \A n \in 1..(L - p) : SubSeq(queue, p + 1, L)[n] = queue[n + p]
    <3>1. \A n \in (p + 1)..L : queue[n] \in EntryRecord
      BY <1>1, <2>2, ElementOfSeq
    <3>2. p + 1 \in Int /\ L \in Int
      BY <1>1, <2>2
    <3>3. /\ SubSeq(queue, p + 1, L) \in Seq(EntryRecord)
          /\ Len(SubSeq(queue, p + 1, L)) = IF p + 1 <= L THEN L - (p + 1) + 1 ELSE 0
          /\ \A n \in 1..(L - (p + 1) + 1) : SubSeq(queue, p + 1, L)[n] = queue[(p + 1) + n - 1]
      BY <3>1, <3>2, SubSeqProperties
    <3>4. (IF p + 1 <= L THEN L - (p + 1) + 1 ELSE 0) = L - p /\ L - (p + 1) + 1 = L - p
      <4>1. p \in Int /\ L \in Int /\ p <= L
        BY <1>1, <2>2
      <4> HIDE DEF L
      <4>2. p + 1 <= L \/ L = p
        BY <4>1
      <4> QED
        BY <4>1, <4>2
    <3>5. \A n \in 1..(L - p) : (p + 1) + n - 1 = n + p
      BY <1>1, <2>2
    <3> QED
      BY <3>3, <3>4, <3>5
  <2>6. /\ w \in Seq(EntryRecord)
        /\ Len(w) = L - 1
        /\ DOMAIN w = 1..(L - 1)
        /\ \A n \in 1..(L - 1) : w[n] = queue[IF n < p THEN n ELSE n + 1]
    <3>1. /\ w \in Seq(EntryRecord)
          /\ Len(w) = (p - 1) + (L - p)
          /\ \A n \in 1..((p - 1) + (L - p)) :
               w[n] = IF n <= p - 1 THEN SubSeq(queue, 1, p - 1)[n]
                      ELSE SubSeq(queue, p + 1, L)[n - (p - 1)]
      BY <2>3, <2>4, <2>5, ConcatProperties
    <3>2. (p - 1) + (L - p) = L - 1
      BY <1>1, <2>2
    <3>3. ASSUME NEW n \in 1..(L - 1) PROVE w[n] = queue[IF n < p THEN n ELSE n + 1]
      <4>1. CASE n < p
        BY <1>1, <2>2, <2>4, <3>1, <3>2, <4>1
      <4>2. CASE n >= p
        <5>1. n - (p - 1) \in 1..(L - p) /\ (n - (p - 1)) + p = n + 1
          BY <1>1, <2>2, <4>2
        <5>2. w[n] = SubSeq(queue, p + 1, L)[n - (p - 1)]
          BY <1>1, <2>2, <3>1, <3>2, <4>2
        <5> QED
          <6>1. SubSeq(queue, p + 1, L)[n - (p - 1)] = queue[n + 1]
            BY <2>5, <5>1
          <6>2. ~(n < p)
            BY <2>2, <4>2
          <6> QED
            BY <5>2, <6>1, <6>2
      <4> QED
        BY <2>2, <4>1, <4>2
    <3> QED
      BY <3>1, <3>2, <3>3
  <2>7. \A n \in 1..(L - 1) : (IF n < p THEN n ELSE n + 1) \in 1..L
    BY <1>1, <2>2
  <2>8. \A n \in DOMAIN w : \E m \in DOMAIN queue : w[n] = queue[m]
    BY <1>1, <2>6, <2>7
  <2>9. ASSUME NEW m \in DOMAIN queue, queue[m].op # id
        PROVE  \E n \in DOMAIN w : w[n].op = queue[m].op
    <3>1. m # p /\ m \in 1..L
      BY <1>1, <2>2, <2>9
    <3>2. CASE m < p
      <4>1. m \in 1..(L - 1) /\ w[m] = queue[m]
        BY <1>1, <2>2, <2>6, <3>1, <3>2
      <4> QED
        BY <2>6, <4>1
    <3>3. CASE m > p
      <4>1. m - 1 \in 1..(L - 1) /\ ~(m - 1 < p) /\ (m - 1) + 1 = m
        BY <1>1, <2>2, <3>1, <3>3
      <4>2. w[m - 1] = queue[m]
        BY <2>6, <4>1
      <4> QED
        BY <2>6, <4>1, <4>2
    <3> QED
      BY <1>1, <2>2, <3>1, <3>2, <3>3
  <2>10. ASSUME NEW m \in DOMAIN w, NEW n \in DOMAIN w, w[m].op = w[n].op PROVE m = n
    <3>1. (IF m < p THEN m ELSE m + 1) = (IF n < p THEN n ELSE n + 1)
      BY <1>1, <2>6, <2>7, <2>10 DEF QueueOK
    <3> QED
      BY <1>1, <2>2, <2>6, <3>1
  <2>11. Len(w) <= QueueLimit
    BY <1>1, <2>6, OutboxAssumption DEF QueueOK
  <2> QED
    BY <2>6, <2>8, <2>9, <2>10, <2>11 DEF QueueOK, w
<1> QED
  BY <1>2, <1>3

\* An entry is marked: nothing comes in or leaves.
LEMMA MarkedKeeps ==
  ASSUME QueueOK(queue), NEW id, NEW error \in BOOLEAN
  PROVE  /\ QueueOK(Marked(id, error))
         /\ DOMAIN Marked(id, error) = DOMAIN queue
         /\ \A n \in DOMAIN queue : Marked(id, error)[n].op = queue[n].op
<1> DEFINE m == Marked(id, error)
           L == Len(queue)
<1>1. queue \in Seq(EntryRecord) /\ L \in Nat /\ DOMAIN queue = 1..L
  BY DEF QueueOK
<1>2. \A n \in 1..L : queue[n] \in EntryRecord
  BY <1>1, ElementOfSeq
<1>3. \A n \in 1..L : m[n] \in EntryRecord /\ m[n].op = queue[n].op
  BY <1>1, <1>2 DEF Marked, EntryRecord
<1>4. m \in [1..L -> EntryRecord]
  BY <1>1, <1>3 DEF Marked
<1>5. m \in Seq(EntryRecord) /\ Len(m) = L /\ DOMAIN m = 1..L
  BY <1>1, <1>4
<1> QED
  BY <1>1, <1>3, <1>5 DEF QueueOK

\* Every step of the composition is a step of the server or leaves it alone.
LEMMA OutboxStep == [OutboxNext]_allvars => [Next]_vars
<1> SUFFICES ASSUME [OutboxNext]_allvars PROVE [Next]_vars
  OBVIOUS
<1>1. ASSUME NEW t \in Tabs, Open(t) \/ Close(t) \/ Lost(t) PROVE UNCHANGED vars
  BY <1>1 DEF Open, Close, Lost
<1>2. ASSUME NEW t \in Tabs, Replay(t) PROVE Next
  <2>1. ASSUME NEW c \in Calls, Answer(t, c) PROVE Next
    <3>1. Leave(c)
      BY <2>1 DEF Answer
    <3> QED
      BY <3>1 DEF Next
  <2>2. ASSUME NEW c \in Calls, NEW id \in Operations, NEW i \in Inputs, Deliver(t, c, id, i)
        PROVE  Next
    <3>1. Arrive(c, id, i)
      BY <2>2 DEF Deliver
    <3> QED
      BY <3>1 DEF Next
  <2> QED
    BY <1>2, <2>1, <2>2 DEF Replay
<1>3. ASSUME NEW t \in Tabs, NEW id \in Operations, Discard(t, id) \/ RetryFailed(t, id)
      PROVE  UNCHANGED vars
  BY <1>3 DEF Discard, RetryFailed
<1>4. ASSUME NEW t \in Tabs, NEW id \in Operations, NEW i \in Inputs, Edit(t, id, i)
      PROVE  UNCHANGED vars
  BY <1>4 DEF Edit
<1>5. ASSUME GoOffline \/ GoOnline PROVE UNCHANGED vars
  BY <1>5 DEF GoOffline, GoOnline
<1>6. ASSUME Server PROVE Next
  <2>1. PICK c \in Calls : Handle(c)
    BY <1>6 DEF Server
  <2> QED
    BY <2>1 DEF Next
<1>7. ASSUME NEW c \in Calls, Drop(c) PROVE Next
  <2>1. Leave(c)
    BY <1>7 DEF Drop
  <2> QED
    BY <2>1 DEF Next
<1>8. ASSUME Crash PROVE Next
  BY <1>8 DEF Next
<1>9. ASSUME UNCHANGED allvars PROVE UNCHANGED vars
  BY <1>9 DEF allvars, vars
<1> QED
  BY <1>1, <1>2, <1>3, <1>4, <1>5, <1>6, <1>7, <1>8, <1>9 DEF OutboxNext

\* The composition implements the receipts: pages that come and go, lose
\* answers and repeat requests show the server nothing it does not expect.
THEOREM OutboxUsesReceipts == OutboxSpec => Spec
<1>1. OutboxInit => Init
  BY DEF OutboxInit
<1> QED
  BY <1>1, OutboxStep, PTL DEF OutboxSpec, Spec

\* An edit made offline changes the calendar at most once, whatever the tabs
\* that replay it, the network and the server do.
THEOREM OutboxChangesAtMostOnce == OutboxSpec => ChangesAtMostOnce
BY OutboxUsesReceipts, ReceiptsImplementAtMostOnce

\* What the receipts promise of one step: a change that was made stays the
\* only one.
LEMMA DoneStays ==
  ASSUME IInv, [Next]_vars
  PROVE  \A k \in Operations : Len(performed[k]) = 1 => Len(performed'[k]) = 1
<1>1. Promise!Once \/ UNCHANGED <<performed, vouched>>
  BY PromiseStep DEF Promise!avars
<1>2. ASSUME NEW k \in Operations, NEW i \in Inputs, Promise!Perform(k, i),
             NEW l \in Operations, Len(performed[l]) = 1
      PROVE  Len(performed'[l]) = 1
  <2>1. performed[k] = <<>> /\ performed' = [performed EXCEPT ![k] = <<i>>]
    BY <1>2 DEF Promise!Perform
  <2>2. performed \in [Operations -> Seq(Inputs)]
    BY DEF IInv, TypeOK
  <2>3. l # k
    BY <1>2, <2>1, EmptySeq
  <2> QED
    BY <1>2, <2>1, <2>2, <2>3
<1>3. ASSUME NEW k \in Operations, NEW i \in Inputs, Promise!Vouch(k, i) PROVE UNCHANGED performed
  BY <1>3 DEF Promise!Vouch
<1> QED
  BY <1>1, <1>2, <1>3 DEF Promise!Once

\* A step of the server on a request, and what becomes of that request.
LEMMA HandleKeepsRequest ==
  ASSUME IInv, NEW c \in Calls, Handle(c)
  PROVE  /\ call[c].pc # "idle" /\ call'[c].pc # "idle"
         /\ call'[c].key = call[c].key
         /\ \A d \in Calls \ {c} : call'[d] = call[d]
<1>1. TypeOK /\ call[c].pc # "idle"
  BY DEF IInv, Handle, Claim, Look, Refuse, BeginWrite, Write, Store, StoreFails
<1>2. PICK pc, reply :
         pc \in {"preflight", "look", "answered", "store", "write"} /\ Goto(c, pc, reply)
  BY DEF Handle, Claim, Look, Refuse, BeginWrite, Write, Store, StoreFails
<1>3. /\ call'[c] = [pc |-> pc, key |-> call[c].key, input |-> call[c].input, reply |-> reply]
      /\ \A d \in Calls \ {c} : call'[d] = call[d]
  BY <1>1, <1>2, GotoMoves
<1> QED
  BY <1>1, <1>2, <1>3

\* A success that is reported is one that was made.
LEMMA HandleTellsTruth ==
  ASSUME IInv, NEW c \in Calls, Handle(c),
         call'[c].pc = "answered", call'[c].reply = "ok"
  PROVE  Len(performed'[call'[c].key]) = 1
<1>1. TypeOK
  BY DEF IInv
<1>2. CASE Look(c)
  <2> DEFINE k == call[c].key
             i == call[c].input
  <2>1. k \in Operations /\ UNCHANGED performed
    BY <1>1, <1>2 DEF Look, TypeOK
  <2>2. call'[c].key = k /\ call'[c].reply = ReplyOf(receipt[k], i)
    <3>1. call'[c] = [pc |-> "answered", key |-> k, input |-> i, reply |-> ReplyOf(receipt[k], i)]
      BY <1>1, <1>2, GotoMoves DEF Look
    <3> QED
      BY <3>1
  <2>3. performed[k] = <<receipt[k].hash>>
    BY <2>1, <2>2 DEF IInv, ReceiptsTellTheTruth, ReplyOf
  <2> QED
    BY <2>1, <2>2, <2>3
<1>3. CASE Store(c)
  <2>1. Working(c) /\ call[c].pc = "store" /\ UNCHANGED performed
    BY <1>3 DEF Store, Working
  <2>2. call'[c].key = call[c].key /\ call'[c].reply = call[c].reply
    <3>1. call'[c] =
            [pc |-> "answered", key |-> call[c].key, input |-> call[c].input, reply |-> call[c].reply]
      BY <1>1, <1>3, GotoMoves DEF Store
    <3> QED
      BY <3>1
  <2>3. performed[call[c].key] = <<call[c].input>>
    BY <2>1, <2>2, WorkerFacts
  <2> QED
    BY <2>1, <2>2, <2>3
<1>4. CASE StoreFails(c)
  <2>1. call'[c] = [pc |-> "answered", key |-> call[c].key, input |-> call[c].input, reply |-> "error"]
    BY <1>1, <1>4, GotoMoves DEF StoreFails
  <2> QED
    BY <2>1
<1>5. CASE Claim(c) \/ Refuse(c) \/ BeginWrite(c) \/ Write(c)
  <2>1. PICK pc, reply :
         pc \in {"preflight", "look", "store", "write"} /\ Goto(c, pc, reply)
    BY <1>5 DEF Claim, Refuse, BeginWrite, Write
  <2>2. call'[c] = [pc |-> pc, key |-> call[c].key, input |-> call[c].input, reply |-> reply]
    BY <1>1, <2>1, GotoMoves
  <2> QED
    BY <2>1, <2>2
<1> QED
  BY <1>2, <1>3, <1>4, <1>5 DEF Handle

\* Successes stay true while requests come, work, are answered and die.
LEMMA SuccessStep ==
  ASSUME IInv, OutboxInv, [OutboxNext]_allvars
  PROVE  SuccessIsDone'
<1> SUFFICES ASSUME NEW c \in Calls, call'[c].pc = "answered", call'[c].reply = "ok"
             PROVE  Len(performed'[call'[c].key]) = 1
  BY DEF SuccessIsDone
<1>1. TypeOK /\ [Next]_vars
  BY OutboxStep DEF IInv
<1>2. CASE call'[c] = call[c]
  <2>1. call[c].pc # "idle" /\ Len(performed[call[c].key]) = 1
    BY <1>2 DEF OutboxInv, SuccessIsDone
  <2>2. call[c].key \in Operations
    BY <1>1, <2>1 DEF TypeOK
  <2> QED
    BY <1>1, <1>2, <2>1, <2>2, DoneStays
<1>3. CASE Handle(c)
  BY <1>3, HandleTellsTruth
<1>4. ASSUME NEW d \in Calls, Handle(d), d # c PROVE call'[c] = call[c]
  BY <1>4, HandleKeepsRequest
<1>5. ASSUME NEW d \in Calls, Leave(d) PROVE call'[c] = call[c]
  BY <1>1, <1>5 DEF Leave, IdleCall, TypeOK
<1>6. ASSUME NEW d \in Calls, NEW k \in Operations, NEW i \in Inputs, Arrive(d, k, i)
      PROVE  call'[c] = call[c]
  BY <1>1, <1>6 DEF Arrive, TypeOK
<1>7. ASSUME Crash PROVE FALSE
  BY <1>7 DEF Crash, IdleCall
<1>8. ASSUME UNCHANGED vars PROVE call'[c] = call[c]
  BY <1>8 DEF vars
<1> QED
  BY <1>1, <1>2, <1>3, <1>4, <1>5, <1>6, <1>7, <1>8 DEF Next

\* A page that waits for no answer.
Loose(x) ==
  /\ x \in TabRecord
  /\ x.call = NoCall
  /\ \/ x.pc \in {"closed", "rest"} /\ x.todo = <<>>
     \/ x.pc = "sent" /\ x.todo # <<>>

LEMMA LooseTabs ==
  /\ Loose(ClosedTab) /\ Loose(RestingTab)
  /\ \A entries \in Seq(EntryRecord) : Loose(Replaying(entries))
<1>1. Loose(ClosedTab) /\ Loose(RestingTab)
  BY EmptySeq DEF Loose, ClosedTab, RestingTab, TabRecord
<1>2. ASSUME NEW entries \in Seq(EntryRecord) PROVE Loose(Replaying(entries))
  BY ReplayingType DEF Loose
<1> QED
  BY <1>1, <1>2

\* What a step does to a page: nothing, it lets it wait for no answer, or it
\* takes its request to the server.
LEMMA TabMoves ==
  ASSUME OutboxTypeOK, [OutboxNext]_allvars
  PROVE  /\ tab' = [t \in Tabs |-> tab'[t]]
         /\ \A t \in Tabs :
              \/ tab'[t] = tab[t]
              \/ Loose(tab'[t])
              \/ \E c \in Calls, id \in Operations, i \in Inputs : Deliver(t, c, id, i)
<1> USE LooseTabs
<1>1. tab \in [Tabs -> TabRecord] /\ QueueOK(queue) /\ queue \in Seq(EntryRecord)
  BY DEF OutboxTypeOK, QueueOK
<1>2. ASSUME NEW t \in Tabs, Open(t) \/ Close(t) \/ Lost(t)
      PROVE  \E x : tab' = [tab EXCEPT ![t] = x] /\ Loose(x)
  <2>1. CASE Open(t)
    BY <1>1, <2>1 DEF Open
  <2>2. CASE Close(t)
    BY <2>2 DEF Close
  <2>3. CASE Lost(t)
    BY <2>3 DEF Lost
  <2> QED
    BY <1>2, <2>1, <2>2, <2>3
<1>3. ASSUME NEW t \in Tabs, NEW c \in Calls, Answer(t, c)
      PROVE  \E x : tab' = [tab EXCEPT ![t] = x] /\ Loose(x)
  <2>1. tab[t].todo \in Seq(EntryRecord) /\ tab[t].todo # <<>>
    BY <1>1, <1>3 DEF Answer, OutboxTypeOK, TabRecord
  <2>2. Tail(tab[t].todo) \in Seq(EntryRecord)
    BY <2>1, HeadTailProperties
  <2>3. tab' = [tab EXCEPT ![t] = Replaying(Tail(tab[t].todo))] \/ tab' = [tab EXCEPT ![t] = RestingTab]
    BY <1>3 DEF Answer
  <2> QED
    BY <2>2, <2>3
<1>4. ASSUME NEW t \in Tabs, NEW id \in Operations, RetryFailed(t, id)
      PROVE  \E x : tab' = [tab EXCEPT ![t] = x] /\ (Loose(x) \/ x = tab[t])
  <2>1. Marked(id, FALSE) \in Seq(EntryRecord)
    BY <1>1, MarkedKeeps DEF QueueOK
  <2>2. tab' = [tab EXCEPT ![t] = IF @.pc = "rest" /\ online THEN Replaying(Marked(id, FALSE)) ELSE @]
    BY <1>4 DEF RetryFailed
  <2> QED
    BY <1>1, <2>1, <2>2
<1>5. ASSUME GoOnline
      PROVE  /\ tab' = [t \in Tabs |-> tab'[t]]
             /\ \A t \in Tabs : Loose(tab'[t]) \/ tab'[t] = tab[t]
  BY <1>1, <1>5 DEF GoOnline
<1>6. ASSUME NEW t \in Tabs, NEW c \in Calls, NEW id \in Operations, NEW i \in Inputs, Deliver(t, c, id, i)
      PROVE  /\ tab' = [u \in Tabs |-> tab'[u]]
             /\ \A u \in Tabs \ {t} : tab'[u] = tab[u]
  BY <1>1, <1>6 DEF Deliver
<1>7. ASSUME \/ \E t \in Tabs, id \in Operations : Discard(t, id)
             \/ \E t \in Tabs, id \in Operations, i \in Inputs : Edit(t, id, i)
             \/ GoOffline \/ Server
             \/ \E c \in Calls : Drop(c)
             \/ Crash /\ UNCHANGED ovars
             \/ UNCHANGED allvars
      PROVE  UNCHANGED tab
  BY <1>7 DEF Discard, Edit, GoOffline, Server, Drop, ovars, allvars
<1>8. ASSUME NEW t \in Tabs, NEW x, tab' = [tab EXCEPT ![t] = x], Loose(x) \/ x = tab[t]
      PROVE  /\ tab' = [u \in Tabs |-> tab'[u]]
             /\ \A u \in Tabs : tab'[u] = tab[u] \/ Loose(tab'[u])
  BY <1>1, <1>8
<1>9. ASSUME UNCHANGED tab PROVE tab' = [u \in Tabs |-> tab'[u]] /\ \A u \in Tabs : tab'[u] = tab[u]
  BY <1>1, <1>9
<1> QED
  <2>1. CASE \E t \in Tabs : Open(t) \/ Close(t) \/ Lost(t)
    BY <1>2, <1>8, <2>1
  <2>2. CASE \E t \in Tabs, c \in Calls : Answer(t, c)
    BY <1>3, <1>8, <2>2
  <2>3. CASE \E t \in Tabs, id \in Operations : RetryFailed(t, id)
    BY <1>4, <1>8, <2>3
  <2>4. CASE \E t \in Tabs, c \in Calls, id \in Operations, i \in Inputs : Deliver(t, c, id, i)
    <3>1. PICK t \in Tabs, c \in Calls, id \in Operations, i \in Inputs : Deliver(t, c, id, i)
      BY <2>4
    <3>2. \A u \in Tabs : u = t \/ tab'[u] = tab[u]
      BY <1>6, <3>1
    <3> QED
      BY <1>6, <3>1, <3>2
  <2> QED
    BY <1>5, <1>7, <1>9, <2>1, <2>2, <2>3, <2>4 DEF OutboxNext, Replay

\* The pages keep their type and stay with their requests.
LEMMA TabStep ==
  ASSUME IInv, OutboxInv, [OutboxNext]_allvars
  PROVE  /\ tab' \in [Tabs -> TabRecord]
         /\ \A t \in Tabs :
              /\ tab'[t].pc = "await" <=> tab'[t].call \in Calls
              /\ tab'[t].pc \in {"sent", "await"} <=> tab'[t].todo # <<>>
<1>1. /\ tab \in [Tabs -> TabRecord]
      /\ \A t \in Tabs :
           /\ tab[t].pc = "await" <=> tab[t].call \in Calls
           /\ tab[t].pc \in {"sent", "await"} <=> tab[t].todo # <<>>
  BY DEF OutboxInv, OutboxTypeOK
<1>2. ASSUME NEW t \in Tabs
      PROVE  /\ tab'[t] \in TabRecord
             /\ tab'[t].pc = "await" <=> tab'[t].call \in Calls
             /\ tab'[t].pc \in {"sent", "await"} <=> tab'[t].todo # <<>>
  <2>1. CASE tab'[t] = tab[t]
    BY <1>1, <2>1
  <2>2. CASE Loose(tab'[t])
    BY <2>2, OutboxAssumption DEF Loose
  <2>3. ASSUME NEW c \in Calls, NEW id \in Operations, NEW i \in Inputs, Deliver(t, c, id, i)
        PROVE  /\ tab'[t] \in TabRecord
               /\ tab'[t].pc = "await" /\ tab'[t].call \in Calls /\ tab'[t].todo # <<>>
    <3>1. tab'[t] = [tab[t] EXCEPT !.pc = "await", !.call = c] /\ tab[t].pc = "sent"
      BY <1>1, <2>3 DEF Deliver
    <3>2. tab[t] \in TabRecord /\ tab[t].todo # <<>>
      BY <1>1, <3>1
    <3> QED
      BY <3>1, <3>2 DEF TabRecord
  <2> QED
    BY <2>1, <2>2, <2>3, TabMoves DEF OutboxInv
<1>3. tab' = [t \in Tabs |-> tab'[t]]
  BY TabMoves DEF OutboxInv
<1> QED
  BY <1>2, <1>3

\* What a step does to a request that a page goes on waiting for.
LEMMA AwaitedRequest ==
  ASSUME IInv, OutboxInv, [OutboxNext]_allvars,
         NEW t \in Tabs, tab[t].pc = "await", tab'[t] = tab[t],
         NEW c \in Calls, tab[t].call = c
  PROVE  \/ call'[c].pc = "idle"
         \/ call[c].pc # "idle" /\ call'[c].key = call[c].key
         \/ call'[c] = call[c]
<1>1. TypeOK /\ tab \in [Tabs -> TabRecord]
  BY DEF IInv, OutboxInv, OutboxTypeOK
<1>2. ASSUME NEW d \in Calls, Handle(d) PROVE d = c => call[c].pc # "idle" /\ call'[c].key = call[c].key
  BY <1>2, HandleKeepsRequest
<1>3. ASSUME NEW d \in Calls, Handle(d) PROVE d # c => call'[c] = call[c]
  BY <1>3, HandleKeepsRequest
<1>4. ASSUME NEW d \in Calls, Leave(d) PROVE call'[c].pc = "idle" \/ call'[c] = call[c]
  BY <1>1, <1>4 DEF Leave, IdleCall, TypeOK
<1>5. ASSUME NEW u \in Tabs, NEW d \in Calls, NEW id \in Operations, NEW i \in Inputs,
             Deliver(u, d, id, i)
      PROVE  call'[c] = call[c]
  <2>1. d # c /\ Arrive(d, id, i)
    BY <1>5 DEF Deliver, Free
  <2> QED
    BY <1>1, <2>1 DEF Arrive, TypeOK
<1>6. ASSUME Crash PROVE call'[c].pc = "idle"
  BY <1>6 DEF Crash, IdleCall
<1>7. ASSUME UNCHANGED vars PROVE call'[c] = call[c]
  BY <1>7 DEF vars
<1>8. \/ \E d \in Calls : Handle(d) \/ Leave(d)
      \/ \E u \in Tabs, d \in Calls, id \in Operations, i \in Inputs : Deliver(u, d, id, i)
      \/ Crash
      \/ UNCHANGED vars
  BY DEF OutboxNext, Replay, Answer, Server, Drop, allvars, vars,
         Open, Close, Lost, Discard, RetryFailed, Edit, GoOffline, GoOnline
<1> QED
  BY <1>2, <1>3, <1>4, <1>5, <1>6, <1>7, <1>8

LEMMA AwaitsStep ==
  ASSUME IInv, OutboxInv, [OutboxNext]_allvars
  PROVE  AwaitsItsOwn'
<1>1. TypeOK /\ tab \in [Tabs -> TabRecord]
  BY DEF IInv, OutboxInv, OutboxTypeOK
<1>2. \A t \in Tabs :
        \/ tab'[t] = tab[t]
        \/ tab'[t].call = NoCall /\ tab'[t].pc # "await"
        \/ \E c \in Calls, id \in Operations, i \in Inputs : Deliver(t, c, id, i)
  BY TabMoves DEF OutboxInv, Loose
<1>3. ASSUME NEW t \in Tabs, NEW c \in Calls, NEW id \in Operations, NEW i \in Inputs,
             Deliver(t, c, id, i)
      PROVE  /\ tab'[t].call = c /\ tab'[t].todo = tab[t].todo
             /\ call'[c].key = Head(tab[t].todo).op
             /\ \A u \in Tabs \ {t} : tab'[u] = tab[u] /\ tab[u].call # c
  <2>1. tab' = [tab EXCEPT ![t].pc = "await", ![t].call = c] /\ id = Head(tab[t].todo).op
    BY <1>3 DEF Deliver
  <2>2. tab'[t] = [tab[t] EXCEPT !.pc = "await", !.call = c] /\ tab[t] \in TabRecord
    BY <1>1, <2>1
  <2>3. tab'[t].call = c /\ tab'[t].todo = tab[t].todo
    BY <2>2 DEF TabRecord
  <2>4. call'[c].key = id
    BY <1>1, <1>3 DEF Deliver, Arrive, TypeOK
  <2>5. \A u \in Tabs \ {t} : tab'[u] = tab[u] /\ tab[u].call # c
    BY <1>1, <1>3, <2>1 DEF Deliver, Free
  <2> QED
    BY <2>1, <2>3, <2>4, <2>5
<1>4. ASSUME NEW t \in Tabs, tab'[t].pc = "await"
      PROVE  call'[tab'[t].call].pc = "idle" \/ call'[tab'[t].call].key = Head(tab'[t].todo).op
  <2>1. CASE tab'[t] = tab[t]
    <3> DEFINE c == tab[t].call
    <3>1. c \in Calls /\ tab[t].pc = "await"
      BY <1>4, <2>1 DEF OutboxInv, OutboxTypeOK
    <3>2. call[c].pc = "idle" \/ call[c].key = Head(tab[t].todo).op
      BY <3>1 DEF OutboxInv, AwaitsItsOwn
    <3>3. \/ call'[c].pc = "idle"
          \/ call[c].pc # "idle" /\ call'[c].key = call[c].key
          \/ call'[c] = call[c]
      BY <2>1, <3>1, AwaitedRequest
    <3> QED
      BY <2>1, <3>2, <3>3
  <2>2. CASE \E c \in Calls, id \in Operations, i \in Inputs : Deliver(t, c, id, i)
    BY <1>3, <2>2
  <2> QED
    BY <1>2, <1>4, <2>1, <2>2
<1>5. ASSUME NEW t \in Tabs, NEW u \in Tabs, tab'[t].pc = "await", tab'[u].call = tab'[t].call
      PROVE  t = u
  <2>1. tab'[t].call \in Calls /\ tab'[u].pc = "await"
    BY <1>5, TabStep
  <2>2. CASE tab'[t] = tab[t] /\ tab'[u] = tab[u]
    BY <1>5, <2>2 DEF OutboxInv, AwaitsItsOwn
  <2>3. CASE \E c \in Calls, id \in Operations, i \in Inputs : Deliver(t, c, id, i)
    BY <1>3, <1>5, <2>3
  <2>4. CASE \E c \in Calls, id \in Operations, i \in Inputs : Deliver(u, c, id, i)
    BY <1>3, <1>5, <2>4
  <2> QED
    BY <1>2, <1>5, <2>1, <2>2, <2>3, <2>4
<1> QED
  BY <1>4, <1>5 DEF AwaitsItsOwn

\* What the queue gives and takes in a step.  An entry that leaves was given
\* up, or has changed the calendar.
LEMMA QueueStep ==
  ASSUME IInv, OutboxInv, [OutboxNext]_allvars
  PROVE  /\ QueueOK(queue') /\ online' \in BOOLEAN
         /\ issued' \subseteq Operations /\ discarded' \subseteq issued'
         /\ QueuedWasIssued'
         /\ issued \subseteq issued' /\ discarded \subseteq discarded'
         /\ \A k \in issued' \ issued : Queued(k)'
         /\ \A k \in issued : Queued(k) => Queued(k)' \/ k \in discarded' \/ Len(performed'[k]) = 1
<1> DEFINE Kept == UNCHANGED <<queue, issued, discarded>>
<1>1. /\ QueueOK(queue) /\ queue \in Seq(EntryRecord) /\ issued \subseteq Operations
      /\ discarded \subseteq issued /\ QueuedWasIssued /\ online \in BOOLEAN
  BY DEF OutboxInv, OutboxTypeOK, QueueOK
<1>2. online' \in BOOLEAN
  BY <1>1 DEF OutboxNext, Open, Close, Replay, Answer, Deliver, Lost, Discard, RetryFailed, Edit,
              GoOffline, GoOnline, Server, Drop, ovars, allvars
<1>3. CASE Kept
  BY <1>1, <1>2, <1>3 DEF QueuedWasIssued, Queued
<1>4. ASSUME NEW id, NEW error \in BOOLEAN, queue' = Marked(id, error), UNCHANGED <<issued, discarded>>
      PROVE  /\ QueueOK(queue') /\ QueuedWasIssued'
             /\ \A k \in issued : Queued(k) => Queued(k)'
  <2>1. /\ QueueOK(queue')
        /\ DOMAIN queue' = DOMAIN queue
        /\ \A n \in DOMAIN queue : queue'[n].op = queue[n].op
    BY <1>1, <1>4, MarkedKeeps
  <2> QED
    BY <1>1, <1>4, <2>1 DEF QueuedWasIssued, Queued
<1>5. ASSUME NEW id, queue' = Without(id), issued' = issued
      PROVE  /\ QueueOK(queue') /\ QueuedWasIssued'
             /\ \A k \in issued : Queued(k) => Queued(k)' \/ k = id
  <2>1. /\ QueueOK(queue')
        /\ \A n \in DOMAIN queue' : \E m \in DOMAIN queue : queue'[n] = queue[m]
        /\ \A m \in DOMAIN queue :
             queue[m].op # id => \E n \in DOMAIN queue' : queue'[n].op = queue[m].op
    BY <1>1, <1>5, WithoutKeeps
  <2> QED
    BY <1>1, <1>5, <2>1 DEF QueuedWasIssued, Queued
<1>6. ASSUME NEW t \in Tabs, NEW id \in Operations, NEW i \in Inputs, Edit(t, id, i)
      PROVE  /\ QueueOK(queue') /\ QueuedWasIssued' /\ Queued(id)'
             /\ \A k \in issued : Queued(k) => Queued(k)'
  <2> DEFINE e == [op |-> id, input |-> i, error |-> FALSE]
             L == Len(queue)
  <2>1. /\ id \notin issued /\ L < QueueLimit
        /\ queue' = Append(queue, e) /\ issued' = issued \cup {id}
    BY <1>6 DEF Edit, HasRoom
  <2>2. e \in EntryRecord /\ L \in Nat /\ DOMAIN queue = 1..L
    BY <1>1 DEF EntryRecord
  <2>3. /\ queue' \in Seq(EntryRecord) /\ Len(queue') = L + 1 /\ DOMAIN queue' = 1..(L + 1)
        /\ \A n \in 1..L : queue'[n] = queue[n]
        /\ queue'[L + 1] = e
    BY <1>1, <2>1, <2>2, AppendProperties
  <2>4. L + 1 <= QueueLimit
    BY <2>1, <2>2, OutboxAssumption
  <2>5. \A n \in 1..L : queue[n].op # id
    BY <1>1, <2>1, <2>2 DEF QueuedWasIssued
  <2>6. \A m, n \in DOMAIN queue' : queue'[m].op = queue'[n].op => m = n
    <3>1. \A n \in 1..(L + 1) : n \in 1..L \/ n = L + 1
      BY <2>2
    <3>2. e.op = id
      OBVIOUS
    <3> HIDE DEF e, L
    <3> QED
      BY <1>1, <2>2, <2>3, <2>5, <3>1, <3>2 DEF QueueOK
  <2>7. QueueOK(queue')
    BY <2>3, <2>4, <2>6 DEF QueueOK
  <2>8. \A n \in 1..(L + 1) : queue'[n].op \in issued'
    BY <1>1, <2>1, <2>2, <2>3 DEF QueuedWasIssued
  <2>9. L + 1 \in DOMAIN queue' /\ \A n \in 1..L : n \in DOMAIN queue'
    BY <2>2, <2>3
  <2> QED
    BY <2>2, <2>3, <2>7, <2>8, <2>9 DEF QueuedWasIssued, Queued
<1>7. ASSUME NEW t \in Tabs, NEW c \in Calls, Answer(t, c), Accepted(call[c].reply)
      PROVE  Len(performed'[Head(tab[t].todo).op]) = 1
  <2>1. /\ tab[t].pc = "await" /\ tab[t].call = c
        /\ call[c].pc = "answered" /\ call[c].reply = "ok" /\ UNCHANGED performed
    BY <1>7 DEF Answer, Accepted, Leave
  <2>2. call[c].key = Head(tab[t].todo).op
    BY <2>1 DEF OutboxInv, AwaitsItsOwn
  <2> QED
    BY <2>1, <2>2 DEF OutboxInv, SuccessIsDone
<1>8. CASE \E t \in Tabs : Lost(t)
  BY <1>1, <1>2, <1>4, <1>8 DEF Lost
<1>9. CASE \E t \in Tabs, c \in Calls : Answer(t, c)
  <2>1. PICK t \in Tabs, c \in Calls : Answer(t, c)
    BY <1>9
  <2>2. UNCHANGED <<issued, discarded>>
    BY <2>1 DEF Answer
  <2>3. CASE Accepted(call[c].reply)
    <3>1. queue' = Without(Head(tab[t].todo).op)
      BY <2>1, <2>3 DEF Answer
    <3> QED
      BY <1>1, <1>2, <1>5, <1>7, <2>1, <2>2, <2>3, <3>1
  <2>4. CASE ~Accepted(call[c].reply)
    <3>1. queue' = Marked(Head(tab[t].todo).op, TRUE)
      BY <2>1, <2>4 DEF Answer
    <3> QED
      BY <1>1, <1>2, <1>4, <2>2, <3>1
  <2> QED
    BY <2>3, <2>4
<1>10. CASE \E t \in Tabs, id \in Operations : Discard(t, id)
  <2>1. PICK t \in Tabs, id \in Operations : Discard(t, id)
    BY <1>10
  <2>2. Queued(id) /\ queue' = Without(id) /\ issued' = issued /\ discarded' = discarded \cup {id}
    BY <2>1 DEF Discard
  <2>3. id \in issued
    BY <1>1, <2>2 DEF Queued, QueuedWasIssued
  <2> QED
    BY <1>1, <1>2, <1>5, <2>2, <2>3
<1>11. CASE \E t \in Tabs, id \in Operations : RetryFailed(t, id)
  BY <1>1, <1>2, <1>4, <1>11 DEF RetryFailed
<1>12. CASE \E t \in Tabs, id \in Operations, i \in Inputs : Edit(t, id, i)
  <2>1. PICK t \in Tabs, id \in Operations, i \in Inputs : Edit(t, id, i)
    BY <1>12
  <2>2. issued' = issued \cup {id} /\ UNCHANGED discarded
    BY <2>1 DEF Edit
  <2> QED
    BY <1>1, <1>2, <1>6, <2>1, <2>2
<1>13. \/ Kept
       \/ \E t \in Tabs : Lost(t)
       \/ \E t \in Tabs, c \in Calls : Answer(t, c)
       \/ \E t \in Tabs, id \in Operations : Discard(t, id) \/ RetryFailed(t, id)
       \/ \E t \in Tabs, id \in Operations, i \in Inputs : Edit(t, id, i)
  BY DEF OutboxNext, Open, Close, Replay, Deliver, GoOffline, GoOnline, Server, Drop, ovars, allvars
<1> QED
  BY <1>3, <1>8, <1>9, <1>10, <1>11, <1>12, <1>13

LEMMA GoneStep ==
  ASSUME IInv, OutboxInv, [OutboxNext]_allvars
  PROVE  GoneMeansDone'
<1> SUFFICES ASSUME NEW k \in issued'
             PROVE  Queued(k)' \/ k \in discarded' \/ Len(performed'[k]) = 1
  BY DEF GoneMeansDone
<1>1. CASE k \notin issued
  BY <1>1, QueueStep
<1>2. CASE k \in issued
  <2>1. Queued(k) \/ k \in discarded \/ Len(performed[k]) = 1
    BY <1>2 DEF OutboxInv, GoneMeansDone
  <2>2. k \in Operations
    BY <1>2 DEF OutboxInv, OutboxTypeOK
  <2>3. [Next]_vars
    BY OutboxStep
  <2> QED
    BY <1>2, <2>1, <2>2, <2>3, QueueStep, DoneStays
<1> QED
  BY <1>1, <1>2

LEMMA OutboxInvStep == IInv /\ OutboxInv /\ [OutboxNext]_allvars => OutboxInv'
<1> SUFFICES ASSUME IInv, OutboxInv, [OutboxNext]_allvars PROVE OutboxInv'
  OBVIOUS
<1>1. TypeOK'
  BY OutboxStep, TypeStep DEF IInv
<1>2. OutboxTypeOK'
  BY <1>1, QueueStep, TabStep DEF OutboxTypeOK, QueueOK
<1> QED
  BY <1>2, QueueStep, GoneStep, AwaitsStep, SuccessStep DEF OutboxInv

LEMMA OutboxInvInit == OutboxInit => OutboxInv
<1> SUFFICES ASSUME OutboxInit PROVE OutboxInv
  OBVIOUS
<1>1. TypeOK
  BY InitInvariant DEF OutboxInit, IInv
<1>2. queue = <<>> /\ queue \in Seq(EntryRecord) /\ Len(queue) = 0 /\ DOMAIN queue = {}
  BY EmptySeq DEF OutboxInit
<1>3. \A t \in Tabs : tab[t] = ClosedTab /\ Loose(tab[t])
  BY LooseTabs DEF OutboxInit
<1>4. tab \in [Tabs -> TabRecord]
  BY <1>3 DEF OutboxInit, Loose
<1>5. /\ online \in BOOLEAN /\ issued = {} /\ discarded = {}
      /\ \A c \in Calls : call[c].pc = "idle"
  BY DEF OutboxInit, Init, IdleCall
<1>6. \A t \in Tabs : tab[t].pc = "closed" /\ tab[t].call = NoCall /\ tab[t].todo = <<>>
  BY <1>3 DEF ClosedTab
<1>7. OutboxTypeOK
  BY <1>1, <1>2, <1>4, <1>5, <1>6, OutboxAssumption DEF OutboxTypeOK
<1> QED
  BY <1>2, <1>5, <1>6, <1>7
  DEF OutboxInv, GoneMeansDone, QueuedWasIssued, AwaitsItsOwn, SuccessIsDone

\* The queue and the pages keep what AwaitsItsOwn and SuccessIsDone say on the
\* way from a request to its answer.
THEOREM OutboxInvariant == OutboxSpec => []OutboxInv
<1>1. IInv /\ OutboxInv /\ [OutboxNext]_allvars => OutboxInv'
  BY OutboxInvStep
<1> QED
  BY <1>1, OutboxInvInit, OutboxUsesReceipts, Invariant, PTL DEF OutboxSpec

\* The queue never holds an operation twice nor more than its limit, and every
\* page keeps its type.
THEOREM OutboxTypeCorrect == OutboxSpec => []OutboxTypeOK
<1>1. OutboxInv => OutboxTypeOK
  BY DEF OutboxInv
<1> QED
  BY <1>1, OutboxInvariant, PTL

\* No edit made offline is lost: what is no longer in the queue, and was not
\* given up, has changed the calendar exactly once, whatever the tabs, the
\* network and the server did.
THEOREM GoneAlwaysMeansDone == OutboxSpec => []GoneMeansDone
<1>1. OutboxInv => GoneMeansDone
  BY DEF OutboxInv
<1> QED
  BY <1>1, OutboxInvariant, PTL
=============================================================================
