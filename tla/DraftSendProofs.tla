--------------------------- MODULE DraftSendProofs ---------------------------
(* Proofs about DraftSend, for any drafts, keys, files and requests: its     *)
(* inductive invariant, which has a part about the row of a draft and the    *)
(* request that sends it, and a part about rows and files of attachments.    *)
EXTENDS DraftSend, TLAPS

\* A request moves, and the others stay where they are.
LEMMA SenderMoves ==
  ASSUME TypeOK, NEW r \in Senders, NEW y, sender' = [sender EXCEPT ![r] = y]
  PROVE  /\ sender'[r] = y
         /\ \A s \in Senders \ {r} : sender'[s] = sender[s]
  BY DEF TypeOK

LEMMA WorkerMoves ==
  ASSUME TypeOK, NEW w \in Workers, NEW y, worker' = [worker EXCEPT ![w] = y]
  PROVE  /\ worker'[w] = y
         /\ \A v \in Workers \ {w} : worker'[v] = worker[v]
  BY DEF TypeOK

\* Goto changes nothing of a request but where it is.
LEMMA GotoMoves ==
  ASSUME TypeOK, NEW r \in Senders, NEW pc \in SenderPCs, Goto(r, pc)
  PROVE  \E y \in SenderRecord :
           /\ sender' = [sender EXCEPT ![r] = y]
           /\ y.pc = pc /\ y.draft = sender[r].draft /\ y.key = sender[r].key
           /\ y.text = sender[r].text /\ y.files = sender[r].files
<1> DEFINE y == [sender[r] EXCEPT !.pc = pc]
<1>1. sender[r] \in SenderRecord
  BY DEF TypeOK
<1>2. sender' = [sender EXCEPT ![r] = y]
  BY DEF Goto, TypeOK
<1>3. /\ y \in SenderRecord
      /\ y.pc = pc /\ y.draft = sender[r].draft /\ y.key = sender[r].key
      /\ y.text = sender[r].text /\ y.files = sender[r].files
  <2> HIDE DEF SenderPCs
  <2> QED
    BY <1>1 DEF SenderRecord
<1> QED
  BY <1>2, <1>3

-----------------------------------------------------------------------------
(* The row of a draft and the request that sends it *)

\* What the invariant says of a request that is not idle.
LEMMA SenderFacts ==
  ASSUME TypeOK, SendInv, NEW r \in Senders, sender[r].pc # "idle"
  PROVE  LET d == sender[r].draft IN
         /\ d \in Drafts /\ d \in active /\ sender[r].key \in Keys
         /\ \A s \in Senders \ {r} : sender[s].draft # d
         /\ sender[r].pc = "claim" => status[d] \in Editable \cup {"deleted"}
         /\ sender[r].pc = "load" =>
               status[d] = "deleted" \/ (status[d] = "sending" /\ key[d] = sender[r].key)
         /\ sender[r].pc \in {"list", "transmit", "finish"} =>
               status[d] = "sending" /\ key[d] = sender[r].key /\ text[d] = sender[r].text
         /\ sender[r].pc = "finish" =>
               \E m \in mails : m.draft = d /\ m.key = key[d] /\ m.text = text[d]
         /\ sender[r].pc \in {"clearRecords", "clearFiles"} => status[d] = "sent"
         /\ status[d] = "sent" => \E m \in mails : m.draft = d /\ m.key = key[d] /\ m.text = text[d]
         /\ copies[d] <= 1 + faults + crashes
         /\ status[d] # "sent" /\ sender[r].pc # "finish" => copies[d] <= faults + crashes
         /\ copies[d] <= sends
         /\ sender[r].pc \in {"read", "claim", "load", "list", "transmit"} => copies[d] < sends
         /\ crashes = 0 /\ faults = 0 /\ status[d] = "sending" =>
               sender[r].pc \in {"load", "list", "transmit", "finish", "fail"}
<1> DEFINE d == sender[r].draft
<1>1. d \in Drafts /\ d \in active /\ sender[r].key \in Keys
  BY DEF SendInv, OneSenderPerDraft, TypeOK
<1>2. \A s \in Senders \ {r} : sender[s].draft # d
  BY DEF SendInv, OneSenderPerDraft
<1>3. \A pcs : At(r, d, pcs) <=> sender[r].pc \in pcs
  BY DEF At
<1>4. \A s \in Senders \ {r} : \A pcs : ~At(s, d, pcs)
  BY <1>2 DEF At
<1>5. faults \in Nat /\ crashes \in Nat /\ copies[d] \in Nat
  BY <1>1 DEF TypeOK
<1> QED
  BY <1>1, <1>2, <1>3, <1>4, <1>5
  DEF SendInv, RowIsFrozen, SentIsWhatWasAccepted, CopiesArePaid, CopiesAreAsked, SendingIsHeld

\* A request to send takes a step on the row of its own draft: what is left to
\* show is about that draft.
LEMMA SenderStep ==
  ASSUME TypeOK, SendInv, NEW r \in Senders, sender[r].pc # "idle",
         NEW d, d = sender[r].draft,
         NEW y, y.draft = d, y.key = sender[r].key, y.pc # "idle",
         sender' = [sender EXCEPT ![r] = y],
         UNCHANGED <<active, sends, crashes>>,
         faults' \in Nat, faults <= faults', mails \subseteq mails',
         \A e \in Drafts \ {d} : /\ status'[e] = status[e] /\ key'[e] = key[e]
                                 /\ text'[e] = text[e] /\ copies'[e] = copies[e],
         y.pc = "claim" => status'[d] \in Editable \cup {"deleted"},
         y.pc = "load" => status'[d] = "deleted" \/ (status'[d] = "sending" /\ key'[d] = y.key),
         y.pc \in {"list", "transmit", "finish"} =>
           status'[d] = "sending" /\ key'[d] = y.key /\ text'[d] = y.text,
         y.pc = "finish" \/ status'[d] = "sent" =>
           \E m \in mails' : m.draft = d /\ m.key = key'[d] /\ m.text = text'[d],
         y.pc \in {"clearRecords", "clearFiles"} => status'[d] = "sent",
         copies'[d] <= 1 + faults' + crashes,
         status'[d] # "sent" /\ y.pc # "finish" => copies'[d] <= faults' + crashes,
         copies'[d] <= sends,
         y.pc \in {"read", "claim", "load", "list", "transmit"} => copies'[d] < sends,
         crashes = 0 /\ faults' = 0 /\ status'[d] = "sending" =>
           y.pc \in {"load", "list", "transmit", "finish", "fail"}
  PROVE  SendInv'
<1>1. d \in Drafts /\ d \in active /\ sender[r].key \in Keys
      /\ \A s \in Senders \ {r} : sender[s].draft # d
  BY SenderFacts
<1>2. sender'[r] = y /\ \A s \in Senders \ {r} : sender'[s] = sender[s]
  BY SenderMoves
<1>3. \A pcs : /\ At(r, d, pcs)' <=> y.pc \in pcs
               /\ \A s \in Senders \ {r} : ~At(s, d, pcs)'
               /\ \A s \in Senders, e \in Drafts \ {d} : At(s, e, pcs)' <=> At(s, e, pcs)
  BY <1>1, <1>2 DEF At
<1>4. faults \in Nat /\ crashes \in Nat /\ copies \in [Drafts -> 0..MaxSends] /\ MaxSends \in Nat
  BY BoundsAssumption DEF TypeOK
<1>5. OneSenderPerDraft'
  BY <1>1, <1>2 DEF SendInv, OneSenderPerDraft
<1>6. RowIsFrozen'
  <2> SUFFICES ASSUME NEW s \in Senders, NEW e \in Drafts
               PROVE  /\ At(s, e, {"claim"})' => status'[e] \in Editable \cup {"deleted"}
                      /\ At(s, e, {"load"})' =>
                            status'[e] = "deleted" \/ (status'[e] = "sending" /\ key'[e] = sender'[s].key)
                      /\ At(s, e, {"list", "transmit", "finish"})' =>
                            /\ status'[e] = "sending" /\ key'[e] = sender'[s].key
                            /\ text'[e] = sender'[s].text
                      /\ At(s, e, {"finish"})' =>
                            \E m \in mails' : m.draft = e /\ m.key = key'[e] /\ m.text = text'[e]
                      /\ At(s, e, {"clearRecords", "clearFiles"})' => status'[e] = "sent"
    BY DEF RowIsFrozen, Editable
  <2>1. CASE e = d /\ s = r
    BY <1>2, <1>3, <2>1
  <2>2. CASE e = d /\ s # r
    BY <1>3, <2>2
  <2>3. CASE e # d /\ s # r
    <3>1. sender'[s] = sender[s] /\ status'[e] = status[e] /\ key'[e] = key[e] /\ text'[e] = text[e]
      BY <1>2, <2>3
    <3>2. \A pcs : At(s, e, pcs)' <=> At(s, e, pcs)
      BY <1>3, <2>3
    <3> QED
      BY <3>1, <3>2 DEF SendInv, RowIsFrozen
  <2>4. CASE e # d /\ s = r
    BY <1>2, <2>4 DEF At
  <2> QED
    BY <2>1, <2>2, <2>3, <2>4
<1>7. SentIsWhatWasAccepted'
  <2> SUFFICES ASSUME NEW e \in Drafts, status'[e] = "sent"
               PROVE  \E m \in mails' : m.draft = e /\ m.key = key'[e] /\ m.text = text'[e]
    BY DEF SentIsWhatWasAccepted
  <2>1. CASE e = d
    BY <2>1
  <2>2. CASE e # d
    BY <2>2 DEF SendInv, SentIsWhatWasAccepted
  <2> QED
    BY <2>1, <2>2
<1>8. CopiesArePaid'
  <2> SUFFICES ASSUME NEW e \in Drafts
               PROVE  \/ copies'[e] <= faults' + crashes'
                      \/ /\ copies'[e] <= 1 + faults' + crashes'
                         /\ status'[e] = "sent" \/ \E s \in Senders : At(s, e, {"finish"})'
    BY DEF CopiesArePaid
  <2>1. CASE e = d
    BY <1>3, <2>1
  <2>2. CASE e # d
    <3>1. copies[e] \in Nat /\ copies'[e] = copies[e] /\ status'[e] = status[e]
      BY <1>4, <2>2
    <3>2. \/ copies[e] <= faults + crashes
          \/ /\ copies[e] <= 1 + faults + crashes
             /\ status[e] = "sent" \/ \E s \in Senders : At(s, e, {"finish"})
      BY DEF SendInv, CopiesArePaid
    <3>3. \A s \in Senders : At(s, e, {"finish"}) => At(s, e, {"finish"})'
      BY <1>3, <2>2
    <3>4. copies[e] <= faults + crashes => copies'[e] <= faults' + crashes'
      BY <1>4, <3>1
    <3>5. copies[e] <= 1 + faults + crashes => copies'[e] <= 1 + faults' + crashes'
      BY <1>4, <3>1
    <3> QED
      BY <3>1, <3>2, <3>3, <3>4, <3>5
  <2> QED
    BY <2>1, <2>2
<1>9. CopiesAreAsked'
  <2> SUFFICES ASSUME NEW e \in Drafts
               PROVE  /\ copies'[e] <= sends'
                      /\ \A s \in Senders :
                           At(s, e, {"read", "claim", "load", "list", "transmit"})' => copies'[e] < sends'
    BY DEF CopiesAreAsked
  <2>1. CASE e = d
    BY <1>3, <2>1
  <2>2. CASE e # d
    BY <1>3, <2>2 DEF SendInv, CopiesAreAsked
  <2> QED
    BY <2>1, <2>2
<1>10. SendingIsHeld'
  <2> SUFFICES ASSUME crashes = 0, faults' = 0, NEW e \in Drafts, status'[e] = "sending"
               PROVE  \E s \in Senders : At(s, e, {"load", "list", "transmit", "finish", "fail"})'
    BY DEF SendingIsHeld
  <2>1. CASE e = d
    BY <1>3, <2>1
  <2>2. CASE e # d
    <3>1. faults = 0 /\ status[e] = "sending"
      BY <1>4, <2>2
    <3> QED
      BY <1>3, <2>2, <3>1 DEF SendInv, SendingIsHeld
  <2> QED
    BY <2>1, <2>2
<1> QED
  BY <1>5, <1>6, <1>7, <1>8, <1>9, <1>10 DEF SendInv

\* The steps of a request, one by one.
LEMMA ReadSends == ASSUME TypeOK, SendInv, NEW r \in Senders, Read(r) PROVE SendInv'
<1> DEFINE d == sender[r].draft
<1>1. PICK pc \in {"claim", "release", "fail"} : Goto(r, pc) /\ (pc = "claim" => Sendable(d))
  BY DEF Read
<1>2. PICK y \in SenderRecord :
        /\ sender' = [sender EXCEPT ![r] = y]
        /\ y.pc = pc /\ y.draft = d /\ y.key = sender[r].key
  BY <1>1, GotoMoves DEF SenderPCs
<1>3. sender[r].pc = "read" /\ UNCHANGED <<status, key, text, mails, copies, active, sends, faults, crashes>>
  BY DEF Read, row, mailbox, counters
<1>4. faults' \in Nat /\ faults <= faults'
  BY <1>3 DEF TypeOK
<1> QED
  BY <1>1, <1>2, <1>3, <1>4, SenderFacts, SenderStep DEF Sendable

LEMMA ClaimSends == ASSUME TypeOK, SendInv, NEW r \in Senders, Claim(r) PROVE SendInv'
<1> DEFINE d == sender[r].draft
<1>1. sender[r].pc = "claim" /\ UNCHANGED <<text, mails, copies, active, sends, faults, crashes>>
  BY DEF Claim, row, mailbox, counters
<1>2. faults' \in Nat /\ faults <= faults'
  BY <1>1 DEF TypeOK
<1>3. d \in Drafts /\ status[d] \in Editable \cup {"deleted"}
  BY <1>1, SenderFacts
<1>4. CASE Goto(r, "fail") /\ UNCHANGED row
  <2>1. PICK y \in SenderRecord :
          sender' = [sender EXCEPT ![r] = y] /\ y.pc = "fail" /\ y.draft = d /\ y.key = sender[r].key
    BY <1>4, GotoMoves DEF SenderPCs
  <2>2. UNCHANGED <<status, key>> /\ status[d] # "sending"
    BY <1>3, <1>4 DEF row, Editable
  <2> QED
    BY <1>1, <1>2, <2>1, <2>2, SenderFacts, SenderStep
<1>5. CASE /\ Goto(r, "load")
           /\ status' = [status EXCEPT ![d] = IF InTable(d) THEN "sending" ELSE @]
           /\ key' = [key EXCEPT ![d] = IF InTable(d) THEN sender[r].key ELSE @]
  <2>1. PICK y \in SenderRecord :
          sender' = [sender EXCEPT ![r] = y] /\ y.pc = "load" /\ y.draft = d /\ y.key = sender[r].key
    BY <1>5, GotoMoves DEF SenderPCs
  <2>2. /\ \A e \in Drafts \ {d} : status'[e] = status[e] /\ key'[e] = key[e]
        /\ status'[d] = "deleted" \/ (status'[d] = "sending" /\ key'[d] = y.key)
    BY <1>3, <1>5, <2>1 DEF TypeOK, InTable, Editable
  <2>3. status'[d] # "sent" /\ status[d] # "sent"
    BY <1>3, <2>2 DEF Editable
  <2>4. /\ copies[d] <= 1 + faults + crashes /\ copies[d] <= faults + crashes
        /\ copies[d] <= sends /\ copies[d] < sends
    BY <1>1, <2>3, SenderFacts
  <2>5. y.pc = "load" /\ UNCHANGED <<copies, mails, faults, sends>>
    BY <1>1, <2>1
  <2> HIDE DEF d
  <2> QED
    BY <1>1, <1>2, <2>1, <2>2, <2>3, <2>4, <2>5, SenderStep DEF d
<1> QED
  BY <1>4, <1>5 DEF Claim

\* A request that is answered with an error after its claim, or goes on with
\* what it has read.
LEMMA LoadSends == ASSUME TypeOK, SendInv, NEW r \in Senders, Load(r) PROVE SendInv'
<1> DEFINE d == sender[r].draft
<1>1. sender[r].pc = "load" /\ UNCHANGED <<status, key, text, mails, copies, active, sends, faults, crashes>>
  BY DEF Load, row, mailbox, counters
<1>2. faults' \in Nat /\ faults <= faults'
  BY <1>1 DEF TypeOK
<1>3. d \in Drafts /\ text[d] \in 0..MaxEdits /\ sender[r] \in SenderRecord
  BY <1>1, SenderFacts DEF TypeOK
<1>4. CASE Goto(r, "fail")
  <2>1. PICK y \in SenderRecord :
          sender' = [sender EXCEPT ![r] = y] /\ y.pc = "fail" /\ y.draft = d /\ y.key = sender[r].key
    BY <1>4, GotoMoves DEF SenderPCs
  <2> QED
    BY <1>1, <1>2, <2>1, SenderFacts, SenderStep
<1>5. CASE InTable(d) /\ sender' = [sender EXCEPT ![r].pc = "list", ![r].text = text[d]]
  <2> DEFINE y == [sender[r] EXCEPT !.pc = "list", !.text = text[d]]
  <2>1. sender' = [sender EXCEPT ![r] = y]
    BY <1>5 DEF TypeOK
  <2>2. y.pc = "list" /\ y.draft = d /\ y.key = sender[r].key /\ y.text = text[d]
    BY <1>3 DEF SenderRecord
  <2>3. status[d] = "sending" /\ key[d] = sender[r].key
    BY <1>1, <1>5, SenderFacts DEF InTable
  <2> HIDE DEF y
  <2>4. /\ copies[d] <= 1 + faults + crashes /\ copies[d] <= faults + crashes
        /\ copies[d] <= sends /\ copies[d] < sends
    BY <1>1, <2>3, SenderFacts
  <2>5. y.pc \notin {"idle", "claim", "load", "finish", "clearRecords", "clearFiles"}
    BY <2>2
  <2> QED
    BY <1>1, <1>2, <2>1, <2>2, <2>3, <2>4, <2>5, SenderStep
<1> QED
  BY <1>4, <1>5 DEF Load

LEMMA ListSends == ASSUME TypeOK, SendInv, NEW r \in Senders, List(r) PROVE SendInv'
<1> DEFINE d == sender[r].draft
           y == [sender[r] EXCEPT !.pc = "transmit", !.files = records[sender[r].draft]]
<1>1. sender[r].pc = "list" /\ UNCHANGED <<status, key, text, mails, copies, active, sends, faults, crashes>>
  BY DEF List, row, mailbox, counters
<1>2. faults' \in Nat /\ faults <= faults'
  BY <1>1 DEF TypeOK
<1>3. sender' = [sender EXCEPT ![r] = y]
  BY DEF List, TypeOK
<1>4. y.pc = "transmit" /\ y.draft = d /\ y.key = sender[r].key /\ y.text = sender[r].text
  BY DEF TypeOK, SenderRecord
<1> HIDE DEF y
<1> QED
  BY <1>1, <1>2, <1>3, <1>4, SenderFacts, SenderStep

\* A copy is made, under the key and with the text of the request.
LEMMA AcceptMakesCopy ==
  ASSUME TypeOK, NEW r \in Senders, sender[r].draft \in Drafts, Accept(r)
  PROVE  LET d == sender[r].draft IN
         /\ copies[d] \in Nat /\ copies'[d] = copies[d] + 1
         /\ \A e \in Drafts \ {d} : copies'[e] = copies[e]
         /\ mails \subseteq mails'
         /\ \E m \in mails' : m.draft = d /\ m.key = sender[r].key /\ m.text = sender[r].text
<1> DEFINE d == sender[r].draft
           m == [draft |-> d, key |-> sender[r].key, text |-> sender[r].text,
                 files |-> sender[r].files, number |-> copies[d] + 1]
<1>1. copies[d] \in Nat
  BY BoundsAssumption DEF TypeOK
<1>2. copies' = [copies EXCEPT ![d] = @ + 1] /\ mails' = mails \cup {m}
  BY DEF Accept
<1>3. m \in mails' /\ m.draft = d /\ m.key = sender[r].key /\ m.text = sender[r].text
  BY <1>2
<1>4. copies'[d] = copies[d] + 1 /\ \A e \in Drafts \ {d} : copies'[e] = copies[e]
  BY <1>2 DEF TypeOK
<1> HIDE DEF m
<1> QED
  BY <1>1, <1>2, <1>3, <1>4

LEMMA TransmitSends == ASSUME TypeOK, SendInv, NEW r \in Senders, Transmit(r) PROVE SendInv'
<1> DEFINE d == sender[r].draft
<1>1. sender[r].pc = "transmit" /\ UNCHANGED <<status, key, text, active, sends, crashes>>
  BY DEF Transmit, row
<1>2. /\ faults \in Nat /\ crashes \in Nat /\ sends \in Nat
      /\ d \in Drafts /\ status[d] = "sending" /\ copies[d] < sends /\ copies[d] <= faults + crashes
      /\ key[d] = sender[r].key /\ text[d] = sender[r].text /\ copies[d] \in Nat
  BY <1>1, SenderFacts DEF TypeOK
<1>3. CASE Accept(r) /\ Goto(r, "finish") /\ UNCHANGED faults
  <2>1. PICK y \in SenderRecord :
          /\ sender' = [sender EXCEPT ![r] = y] /\ y.pc = "finish"
          /\ y.draft = d /\ y.key = sender[r].key /\ y.text = sender[r].text
    BY <1>3, GotoMoves DEF SenderPCs
  <2>2. /\ copies'[d] = copies[d] + 1 /\ \A e \in Drafts \ {d} : copies'[e] = copies[e]
        /\ mails \subseteq mails'
        /\ \E m \in mails' : m.draft = d /\ m.key = key[d] /\ m.text = text[d]
    BY <1>2, <1>3, AcceptMakesCopy
  <2>3. copies'[d] <= 1 + faults' + crashes /\ copies'[d] <= sends /\ faults' \in Nat /\ faults <= faults'
    BY <1>2, <1>3, <2>2
  <2> QED
    BY <1>1, <1>2, <2>1, <2>2, <2>3, SenderStep
<1>4. CASE Accept(r) /\ Goto(r, "fail") /\ faults' = faults + 1
  <2>1. PICK y \in SenderRecord :
          /\ sender' = [sender EXCEPT ![r] = y] /\ y.pc = "fail"
          /\ y.draft = d /\ y.key = sender[r].key
    BY <1>4, GotoMoves DEF SenderPCs
  <2>2. /\ copies'[d] = copies[d] + 1 /\ \A e \in Drafts \ {d} : copies'[e] = copies[e]
        /\ mails \subseteq mails'
    BY <1>2, <1>4, AcceptMakesCopy
  <2>3. /\ copies'[d] <= faults' + crashes /\ copies'[d] <= 1 + faults' + crashes /\ copies'[d] <= sends
        /\ faults' \in Nat /\ faults <= faults' /\ faults' # 0
    BY <1>2, <1>4, <2>2
  <2> QED
    BY <1>1, <1>2, <2>1, <2>2, <2>3, SenderStep
<1>5. CASE Goto(r, "fail") /\ UNCHANGED <<mailbox, faults>>
  <2>1. PICK y \in SenderRecord :
          /\ sender' = [sender EXCEPT ![r] = y] /\ y.pc = "fail"
          /\ y.draft = d /\ y.key = sender[r].key
    BY <1>5, GotoMoves DEF SenderPCs
  <2>2. UNCHANGED <<mails, copies, faults>> /\ faults' \in Nat /\ faults <= faults'
    BY <1>2, <1>5 DEF mailbox
  <2> QED
    BY <1>1, <1>2, <2>1, <2>2, SenderFacts, SenderStep
<1> QED
  BY <1>3, <1>4, <1>5 DEF Transmit

LEMMA FinishSends == ASSUME TypeOK, SendInv, NEW r \in Senders, Finish(r) PROVE SendInv'
<1> DEFINE d == sender[r].draft
<1>1. sender[r].pc = "finish" /\ UNCHANGED <<key, text, mails, copies, active, sends, crashes>>
  BY DEF Finish, mailbox
<1>2. /\ faults \in Nat /\ crashes \in Nat /\ d \in Drafts /\ status[d] = "sending"
      /\ copies[d] \in Nat /\ copies[d] <= 1 + faults + crashes
  BY <1>1, SenderFacts DEF TypeOK
<1>3. CASE /\ status' = [status EXCEPT ![d] = IF InTable(d) THEN "sent" ELSE @]
           /\ Goto(r, "clearRecords") /\ UNCHANGED faults
  <2>1. PICK y \in SenderRecord :
          /\ sender' = [sender EXCEPT ![r] = y] /\ y.pc = "clearRecords"
          /\ y.draft = d /\ y.key = sender[r].key
    BY <1>3, GotoMoves DEF SenderPCs
  <2>2. status'[d] = "sent" /\ \A e \in Drafts \ {d} : status'[e] = status[e]
    BY <1>2, <1>3 DEF TypeOK, InTable
  <2>3. faults' \in Nat /\ faults <= faults'
    BY <1>2, <1>3
  <2> QED
    BY <1>1, <1>2, <1>3, <2>1, <2>2, <2>3, SenderFacts, SenderStep
<1>4. CASE faults' = faults + 1 /\ Goto(r, "fail") /\ UNCHANGED status
  <2>1. PICK y \in SenderRecord :
          sender' = [sender EXCEPT ![r] = y] /\ y.pc = "fail" /\ y.draft = d /\ y.key = sender[r].key
    BY <1>4, GotoMoves DEF SenderPCs
  <2>2. /\ faults' \in Nat /\ faults <= faults' /\ faults' # 0
        /\ copies[d] <= faults' + crashes /\ copies[d] <= 1 + faults' + crashes
    BY <1>2, <1>4
  <2> QED
    BY <1>1, <1>2, <1>4, <2>1, <2>2, SenderFacts, SenderStep
<1> QED
  BY <1>3, <1>4 DEF Finish

LEMMA ClearSends ==
  ASSUME TypeOK, SendInv, NEW r \in Senders, ClearRecords(r) \/ ClearFiles(r) PROVE SendInv'
<1> DEFINE d == sender[r].draft
<1>1. /\ sender[r].pc \in {"clearRecords", "clearFiles"}
      /\ UNCHANGED <<status, key, text, mails, copies, active, sends, faults, crashes>>
  BY DEF ClearRecords, ClearFiles, row, mailbox, counters
<1>2. faults' \in Nat /\ faults <= faults'
  BY <1>1 DEF TypeOK
<1>3. PICK pc \in {"clearFiles", "release"} : Goto(r, pc)
  BY DEF ClearRecords, ClearFiles
<1>4. PICK y \in SenderRecord :
        sender' = [sender EXCEPT ![r] = y] /\ y.pc = pc /\ y.draft = d /\ y.key = sender[r].key
  BY <1>3, GotoMoves DEF SenderPCs
<1> QED
  BY <1>1, <1>2, <1>3, <1>4, SenderFacts, SenderStep

LEMMA FailSends == ASSUME TypeOK, SendInv, NEW r \in Senders, Fail(r) PROVE SendInv'
<1> DEFINE d == sender[r].draft
<1>1. sender[r].pc = "fail" /\ UNCHANGED <<key, text, mails, copies, active, sends, crashes>>
  BY DEF Fail, mailbox
<1>2. faults \in Nat /\ crashes \in Nat /\ d \in Drafts /\ copies[d] \in Nat
  BY <1>1, SenderFacts DEF TypeOK
<1>3. PICK y \in SenderRecord :
        sender' = [sender EXCEPT ![r] = y] /\ y.pc = "release" /\ y.draft = d /\ y.key = sender[r].key
  BY GotoMoves DEF Fail, SenderPCs
<1>4. CASE status' = [status EXCEPT ![d] = IF Fails(d) THEN "failed" ELSE @] /\ UNCHANGED faults
  <2>1. /\ \A e \in Drafts \ {d} : status'[e] = status[e]
        /\ status'[d] = IF status[d] = "sending" THEN "failed" ELSE status[d]
    BY <1>2, <1>4 DEF TypeOK, Fails
  <2>2. faults' \in Nat /\ faults <= faults'
    BY <1>2, <1>4
  <2>3. status'[d] # "sending" /\ (status'[d] = "sent" <=> status[d] = "sent")
    BY <2>1
  <2> QED
    BY <1>1, <1>2, <1>3, <1>4, <2>1, <2>2, <2>3, SenderFacts, SenderStep
<1>5. CASE faults' = faults + 1 /\ UNCHANGED status
  <2>1. /\ copies[d] <= 1 + faults + crashes
        /\ status[d] # "sent" => copies[d] <= faults + crashes
        /\ copies[d] <= sends
        /\ status[d] = "sent" => \E m \in mails : m.draft = d /\ m.key = key[d] /\ m.text = text[d]
    BY <1>1, SenderFacts
  <2>2. /\ faults' \in Nat /\ faults <= faults' /\ faults' # 0
        /\ copies[d] <= 1 + faults' + crashes
        /\ status[d] # "sent" => copies[d] <= faults' + crashes
    BY <1>2, <1>5, <2>1
  <2> QED
    BY <1>1, <1>2, <1>3, <1>5, <2>1, <2>2, SenderStep
<1> QED
  BY <1>4, <1>5 DEF Fail

LEMMA ReleaseSends == ASSUME TypeOK, SendInv, NEW r \in Senders, Release(r) PROVE SendInv'
<1> DEFINE d == sender[r].draft
<1>1. /\ sender[r].pc = "release" /\ active' = active \ {d} /\ sender' = [sender EXCEPT ![r] = IdleSender]
      /\ UNCHANGED <<status, key, text, mails, copies, sends, faults, crashes>>
  BY DEF Release, row, mailbox, counters
<1>2. /\ sender'[r] = IdleSender
      /\ \A s \in Senders \ {r} : sender'[s] = sender[s] /\ sender[s].draft # d
      /\ d \in Drafts
  BY <1>1, SenderMoves, SenderFacts
<1>3. \A e \in Drafts : \A pcs :
        /\ ~At(r, e, pcs)'
        /\ \A s \in Senders \ {r} : At(s, e, pcs)' <=> At(s, e, pcs)
  BY <1>2, NamesAssumption DEF At, IdleSender
<1>4. \A e \in Drafts : \A pcs : "release" \notin pcs => ~At(r, e, pcs)
  BY <1>1 DEF At
<1>5. \A e \in Drafts :
        /\ ~At(r, e, {"finish"})
        /\ ~At(r, e, {"load", "list", "transmit", "finish", "fail"})
  BY <1>4
<1>6. OneSenderPerDraft'
  <2>1. \A s \in Senders : sender[s].pc # "idle" => sender[s].draft \in Drafts
    BY DEF SendInv, OneSenderPerDraft, TypeOK
  <2>2. sender'[r].pc = "idle" /\ sender'[r].draft = NoDraft
    BY <1>2 DEF IdleSender
  <2> QED
    BY <1>1, <1>2, <2>1, <2>2, NamesAssumption DEF SendInv, OneSenderPerDraft
<1>7. RowIsFrozen'
  <2> SUFFICES ASSUME NEW s \in Senders, NEW e \in Drafts
               PROVE  /\ At(s, e, {"claim"})' => status'[e] \in Editable \cup {"deleted"}
                      /\ At(s, e, {"load"})' =>
                            status'[e] = "deleted" \/ (status'[e] = "sending" /\ key'[e] = sender'[s].key)
                      /\ At(s, e, {"list", "transmit", "finish"})' =>
                            /\ status'[e] = "sending" /\ key'[e] = sender'[s].key
                            /\ text'[e] = sender'[s].text
                      /\ At(s, e, {"finish"})' =>
                            \E m \in mails' : m.draft = e /\ m.key = key'[e] /\ m.text = text'[e]
                      /\ At(s, e, {"clearRecords", "clearFiles"})' => status'[e] = "sent"
    BY DEF RowIsFrozen, Editable
  <2>1. CASE s = r
    BY <1>3, <2>1
  <2>2. CASE s # r
    <3>1. sender'[s] = sender[s] /\ \A pcs : At(s, e, pcs)' <=> At(s, e, pcs)
      BY <1>2, <1>3, <2>2
    <3> QED
      BY <1>1, <3>1 DEF SendInv, RowIsFrozen
  <2> QED
    BY <2>1, <2>2
<1>8. SentIsWhatWasAccepted'
  BY <1>1 DEF SendInv, SentIsWhatWasAccepted
<1>9. CopiesArePaid'
  BY <1>1, <1>3, <1>5 DEF SendInv, CopiesArePaid
<1>10. CopiesAreAsked'
  BY <1>1, <1>3 DEF SendInv, CopiesAreAsked
<1>11. SendingIsHeld'
  BY <1>1, <1>3, <1>5 DEF SendInv, SendingIsHeld
<1> QED
  BY <1>6, <1>7, <1>8, <1>9, <1>10, <1>11 DEF SendInv

LEMMA RequestSends ==
  ASSUME TypeOK, SendInv, NEW r \in Senders, NEW d \in Drafts, NEW k \in Keys, Request(r, d, k)
  PROVE  SendInv'
<1> DEFINE y == [pc |-> "read", draft |-> d, key |-> k, text |-> 0, files |-> {}]
<1>1. /\ sender[r].pc = "idle" /\ d \notin active /\ active' = active \cup {d}
      /\ sender' = [sender EXCEPT ![r] = y] /\ sends' = sends + 1
      /\ UNCHANGED <<status, key, text, mails, copies, faults, crashes>>
  BY DEF Request, Busy, row, mailbox
<1>2. /\ sender'[r] = y
      /\ \A s \in Senders \ {r} : sender'[s] = sender[s]
  BY <1>1, SenderMoves
<1>3. /\ \A s \in Senders : sender[s].draft # d
      /\ sender[r].draft = NoDraft
  BY <1>1, NamesAssumption DEF SendInv, OneSenderPerDraft, IdleSender
<1>4. \A s \in Senders, e \in Drafts : \A pcs :
        /\ At(s, e, pcs) => At(s, e, pcs)'
        /\ At(s, e, pcs)' => At(s, e, pcs) \/ (s = r /\ e = d /\ "read" \in pcs)
  BY <1>2, <1>3, NamesAssumption DEF At
<1>5. sends \in Nat /\ copies \in [Drafts -> 0..MaxSends] /\ MaxSends \in Nat
  BY BoundsAssumption DEF TypeOK
<1>6. OneSenderPerDraft'
  BY <1>1, <1>2, <1>3 DEF SendInv, OneSenderPerDraft
<1>7. RowIsFrozen'
  <2> SUFFICES ASSUME NEW s \in Senders, NEW e \in Drafts
               PROVE  /\ At(s, e, {"claim"})' => status'[e] \in Editable \cup {"deleted"}
                      /\ At(s, e, {"load"})' =>
                            status'[e] = "deleted" \/ (status'[e] = "sending" /\ key'[e] = sender'[s].key)
                      /\ At(s, e, {"list", "transmit", "finish"})' =>
                            /\ status'[e] = "sending" /\ key'[e] = sender'[s].key
                            /\ text'[e] = sender'[s].text
                      /\ At(s, e, {"finish"})' =>
                            \E m \in mails' : m.draft = e /\ m.key = key'[e] /\ m.text = text'[e]
                      /\ At(s, e, {"clearRecords", "clearFiles"})' => status'[e] = "sent"
    BY DEF RowIsFrozen, Editable
  <2>1. CASE s = r
    BY <1>2, <2>1 DEF At
  <2>2. CASE s # r
    BY <1>1, <1>2, <1>4, <2>2 DEF SendInv, RowIsFrozen
  <2> QED
    BY <2>1, <2>2
<1>8. SentIsWhatWasAccepted'
  BY <1>1 DEF SendInv, SentIsWhatWasAccepted
<1>9. CopiesArePaid'
  BY <1>1, <1>4 DEF SendInv, CopiesArePaid
<1>10. CopiesAreAsked'
  BY <1>1, <1>4, <1>5 DEF SendInv, CopiesAreAsked
<1>11. SendingIsHeld'
  BY <1>1, <1>4 DEF SendInv, SendingIsHeld
<1> QED
  BY <1>6, <1>7, <1>8, <1>9, <1>10, <1>11 DEF SendInv

\* A draft that no request is sending is created, saved or deleted.
LEMMA RowSends ==
  ASSUME TypeOK, SendInv, NEW d \in Drafts,
         status[d] \in {"none", "draft", "failed"}, status'[d] \in {"draft", "deleted"},
         \A e \in Drafts \ {d} : status'[e] = status[e] /\ key'[e] = key[e] /\ text'[e] = text[e],
         UNCHANGED <<sender, active, mails, copies, sends, faults, crashes>>
  PROVE  SendInv'
<1>1. \A s \in Senders, e \in Drafts : \A pcs : At(s, e, pcs)' <=> At(s, e, pcs)
  BY DEF At
<1>2. \A s \in Senders :
        ~At(s, d, {"load"}) /\ ~At(s, d, {"list", "transmit", "finish"}) /\ ~At(s, d, {"finish"})
        /\ ~At(s, d, {"clearRecords", "clearFiles"})
  <2>1. \A s \in Senders : At(s, d, {"finish"}) => At(s, d, {"list", "transmit", "finish"})
    BY DEF At
  <2> QED
    BY <2>1 DEF SendInv, RowIsFrozen
<1>3. OneSenderPerDraft'
  BY DEF SendInv, OneSenderPerDraft
<1>4. RowIsFrozen'
  <2> SUFFICES ASSUME NEW s \in Senders, NEW e \in Drafts
               PROVE  /\ At(s, e, {"claim"})' => status'[e] \in Editable \cup {"deleted"}
                      /\ At(s, e, {"load"})' =>
                            status'[e] = "deleted" \/ (status'[e] = "sending" /\ key'[e] = sender'[s].key)
                      /\ At(s, e, {"list", "transmit", "finish"})' =>
                            /\ status'[e] = "sending" /\ key'[e] = sender'[s].key
                            /\ text'[e] = sender'[s].text
                      /\ At(s, e, {"finish"})' =>
                            \E m \in mails' : m.draft = e /\ m.key = key'[e] /\ m.text = text'[e]
                      /\ At(s, e, {"clearRecords", "clearFiles"})' => status'[e] = "sent"
    BY DEF RowIsFrozen, Editable
  <2>1. CASE e = d
    BY <1>1, <1>2, <2>1 DEF Editable
  <2>2. CASE e # d
    BY <1>1, <2>2 DEF SendInv, RowIsFrozen
  <2> QED
    BY <2>1, <2>2
<1>5. SentIsWhatWasAccepted'
  BY DEF SendInv, SentIsWhatWasAccepted
<1>6. CopiesArePaid'
  BY <1>1, <1>2 DEF SendInv, CopiesArePaid
<1>7. CopiesAreAsked'
  BY <1>1 DEF SendInv, CopiesAreAsked
<1>8. SendingIsHeld'
  BY <1>1 DEF SendInv, SendingIsHeld
<1> QED
  BY <1>3, <1>4, <1>5, <1>6, <1>7, <1>8 DEF SendInv

LEMMA OthersSend ==
  ASSUME TypeOK, SendInv,
         \/ \E d \in Drafts : Create(d) \/ Save(d)
         \/ \E w \in Workers, d \in Drafts : DeleteRow(w, d)
  PROVE  SendInv'
<1>1. ASSUME NEW d \in Drafts, Create(d) PROVE SendInv'
  <2>1. /\ status[d] = "none" /\ status' = [status EXCEPT ![d] = "draft"]
        /\ UNCHANGED <<key, text, sender, active, mails, copies, sends, faults, crashes>>
    BY <1>1 DEF Create, mailbox, counters
  <2>2. status'[d] = "draft" /\ \A e \in Drafts \ {d} : status'[e] = status[e]
    BY <2>1 DEF TypeOK
  <2> QED
    BY <2>1, <2>2, RowSends
<1>2. ASSUME NEW d \in Drafts, Save(d) PROVE SendInv'
  <2>1. /\ status[d] \in {"draft", "failed"}
        /\ status' = [status EXCEPT ![d] = "draft"] /\ key' = [key EXCEPT ![d] = NoKey]
        /\ text' = [text EXCEPT ![d] = @ + 1]
        /\ UNCHANGED <<sender, active, mails, copies, sends, faults, crashes>>
    BY <1>2 DEF Save, Savable, InTable, mailbox, counters, TypeOK
  <2>2. /\ status'[d] = "draft"
        /\ \A e \in Drafts \ {d} : status'[e] = status[e] /\ key'[e] = key[e] /\ text'[e] = text[e]
    BY <2>1 DEF TypeOK
  <2> QED
    BY <2>1, <2>2, RowSends
<1>3. ASSUME NEW w \in Workers, NEW d \in Drafts, DeleteRow(w, d) PROVE SendInv'
  <2>1. /\ status[d] \in {"draft", "failed"} /\ status' = [status EXCEPT ![d] = "deleted"]
        /\ UNCHANGED <<key, text, sender, active, mails, copies, sends, faults, crashes>>
    BY <1>3 DEF DeleteRow, Deletable, Editable, mailbox, counters
  <2>2. status'[d] = "deleted" /\ \A e \in Drafts \ {d} : status'[e] = status[e]
    BY <2>1 DEF TypeOK
  <2> QED
    BY <2>1, <2>2, RowSends
<1> QED
  BY <1>1, <1>2, <1>3

LEMMA CrashSends == ASSUME TypeOK, SendInv, Crash PROVE SendInv'
<1>1. /\ active' = {} /\ sender' = [r \in Senders |-> IdleSender] /\ crashes' = crashes + 1
      /\ UNCHANGED <<status, key, text, mails, copies, sends, faults>>
  BY DEF Crash, row, mailbox
<1>2. \A s \in Senders : sender'[s] = IdleSender
  BY <1>1
<1>3. \A s \in Senders, e \in Drafts : \A pcs : ~At(s, e, pcs)'
  BY <1>2, NamesAssumption DEF At, IdleSender
<1>4. /\ faults \in Nat /\ crashes \in Nat /\ \A d \in Drafts : copies[d] \in Nat
  BY BoundsAssumption DEF TypeOK
<1>5. OneSenderPerDraft'
  BY <1>1, <1>2 DEF OneSenderPerDraft, IdleSender
<1>6. RowIsFrozen'
  BY <1>3 DEF RowIsFrozen
<1>7. SentIsWhatWasAccepted'
  BY <1>1 DEF SendInv, SentIsWhatWasAccepted
<1>8. CopiesArePaid'
  <2>1. \A d \in Drafts : copies[d] <= 1 + faults + crashes
    BY <1>4 DEF SendInv, CopiesArePaid
  <2>2. \A d \in Drafts : copies'[d] <= faults' + crashes'
    BY <1>1, <1>4, <2>1
  <2> QED
    BY <2>2 DEF CopiesArePaid
<1>9. CopiesAreAsked'
  BY <1>1, <1>3 DEF SendInv, CopiesAreAsked
<1>10. SendingIsHeld'
  BY <1>1, <1>4 DEF SendingIsHeld
<1> QED
  BY <1>5, <1>6, <1>7, <1>8, <1>9, <1>10 DEF SendInv

\* What leaves rows, requests to send and mailbox alone.
LEMMA QuietSends ==
  ASSUME SendInv, UNCHANGED <<row, active, sender, mailbox, counters>>
  PROVE  SendInv'
<1>1. UNCHANGED <<status, key, text, active, sender, mails, copies, sends, faults, crashes>>
  BY DEF row, mailbox, counters
<1>2. \A s \in Senders, e \in Drafts : \A pcs : At(s, e, pcs)' <=> At(s, e, pcs)
  BY <1>1 DEF At
<1> QED
  BY <1>1, <1>2
  DEF SendInv, OneSenderPerDraft, RowIsFrozen, SentIsWhatWasAccepted, CopiesArePaid, CopiesAreAsked,
      SendingIsHeld

LEMMA SendInvStep == ASSUME TypeOK, SendInv, [Next]_vars PROVE SendInv'
<1>1. ASSUME NEW w \in Workers,
             \/ \E d \in Drafts, f \in Files : AddCheck(w, d, f) \/ RemoveCheck(w, d, f)
             \/ WorkStep(w)
      PROVE  UNCHANGED <<row, active, sender, mailbox, counters>>
  BY <1>1 DEF AddCheck, RemoveCheck, WorkStep, AddFile, AddRecord, RemoveFile, RemoveRecord, DeleteFiles
<1>2. ASSUME UNCHANGED vars PROVE UNCHANGED <<row, active, sender, mailbox, counters>>
  BY <1>2 DEF vars
<1> QED
  BY <1>1, <1>2, QuietSends, OthersSend, CrashSends, RequestSends, ReadSends, ClaimSends, LoadSends,
     ListSends, TransmitSends, FinishSends, ClearSends, FailSends, ReleaseSends
  DEF Next, SendStep

-----------------------------------------------------------------------------
(* Rows and files of attachments *)

\* What the invariant says of a request that is not idle.
LEMMA WorkerFacts ==
  ASSUME TypeOK, FileInv, NEW w \in Workers, worker[w].pc # "idle"
  PROVE  LET d == worker[w].draft
             f == worker[w].file
         IN /\ d \in Drafts
            /\ worker[w].pc # "deleteFiles" => f \in Files /\ f # NoFile
            /\ Adding(w) =>
                 /\ status[d] # "none"
                 /\ \A v \in Workers \ {w} : worker[v].file # f
                 /\ \A e \in Drafts : f \notin records[e]
            /\ worker[w].pc = "addFile" => \A e \in Drafts : f \notin stored[e]
            /\ worker[w].pc = "addRecord" /\ status[d] \in Editable \cup {"sending"} => f \in stored[d]
            /\ worker[w].pc = "removeRecord" => f \notin stored[d]
            /\ worker[w].pc = "deleteFiles" => status[d] = "deleted"
  BY NamesAssumption DEF FileInv, AdderIsAlone, WorkersKnowTheirs, Adding

\* Only the state of drafts changes: none becomes editable again that was sent
\* or deleted, none comes back, and the requests that clear files stay.
LEMMA StatusFiles ==
  ASSUME TypeOK, FileInv, UNCHANGED <<records, stored, worker, crashes>>,
         \A d \in Drafts :
           /\ status'[d] \in Editable \cup {"sending"} =>
                status[d] \in Editable \cup {"sending", "none"}
           /\ status[d] # "none" => status'[d] # "none"
           /\ status[d] = "deleted" => status'[d] = "deleted",
         \A r \in Senders, d \in Drafts : At(r, d, {"clearFiles"}) => At(r, d, {"clearFiles"})'
  PROVE  FileInv'
<1>1. WorkersKnowTheirs'
  BY DEF FileInv, WorkersKnowTheirs
<1>2. AdderIsAlone'
  <2> SUFFICES ASSUME NEW w \in Workers, Adding(w)
               PROVE  LET d == worker[w].draft
                          f == worker[w].file
                      IN /\ status'[d] # "none"
                         /\ \A v \in Workers : worker[v].file = f => v = w
                         /\ \A e \in Drafts : f \notin records[e]
                         /\ worker[w].pc = "addFile" => \A e \in Drafts : f \notin stored[e]
                         /\ worker[w].pc = "addRecord" /\ status'[d] \in Editable \cup {"sending"} =>
                               f \in stored[d]
    BY DEF AdderIsAlone, Adding, Editable
  <2>1. worker[w].pc # "idle"
    BY DEF Adding
  <2> QED
    BY <2>1, WorkerFacts
<1>3. MissingFilesAreRemoved'
  <2> SUFFICES ASSUME crashes = 0, NEW d \in Drafts, status'[d] \in Editable \cup {"sending"},
                      NEW f \in records[d] \ stored[d]
               PROVE  \E w \in Workers :
                        worker[w] = [pc |-> "removeRecord", draft |-> d, file |-> f]
    BY DEF MissingFilesAreRemoved, Editable
  <2>1. status[d] # "none"
    BY DEF TypeOK, InTable
  <2> QED
    BY <2>1 DEF FileInv, MissingFilesAreRemoved
<1>4. ExtraFilesAreHeld'
  BY DEF FileInv, ExtraFilesAreHeld
<1> QED
  BY <1>1, <1>2, <1>3, <1>4 DEF FileInv

\* The steps of saving and sending are of that kind, up to those that clear files.
LEMMA SendingFiles ==
  ASSUME TypeOK, SendInv, FileInv,
         \/ \E d \in Drafts : Create(d) \/ Save(d)
         \/ \E r \in Senders :
              \/ \E d \in Drafts, k \in Keys : Request(r, d, k)
              \/ Read(r) \/ Claim(r) \/ Load(r) \/ List(r) \/ Transmit(r) \/ Finish(r) \/ Fail(r)
              \/ Release(r)
  PROVE  FileInv'
<1>1. UNCHANGED <<records, stored, worker, crashes>>
  BY DEF Create, Save, Request, Read, Claim, Load, List, Transmit, Finish, Fail, Release, disk, counters
<1>2. ASSUME NEW d \in Drafts, Create(d) \/ Save(d)
      PROVE  /\ UNCHANGED sender
             /\ \E x \in {"draft"} : status' = [status EXCEPT ![d] = x]
             /\ status[d] \in Editable \cup {"none"}
  BY <1>2 DEF Create, Save, Savable, InTable, Editable, TypeOK
<1>3. ASSUME NEW d \in Drafts, Create(d) \/ Save(d) PROVE FileInv'
  <2>1. status'[d] = "draft" /\ \A e \in Drafts \ {d} : status'[e] = status[e]
    BY <1>2, <1>3 DEF TypeOK
  <2>2. \A r \in Senders, e \in Drafts : At(r, e, {"clearFiles"}) => At(r, e, {"clearFiles"})'
    BY <1>2, <1>3 DEF At
  <2> QED
    BY <1>1, <1>2, <1>3, <2>1, <2>2, StatusFiles DEF Editable
<1>4. ASSUME NEW r \in Senders,
             \/ \E d \in Drafts, k \in Keys : Request(r, d, k)
             \/ Read(r) \/ Claim(r) \/ Load(r) \/ List(r) \/ Transmit(r) \/ Finish(r) \/ Fail(r)
             \/ Release(r)
      PROVE  FileInv'
  <2>1. sender[r].pc # "clearFiles"
    BY <1>4 DEF Request, Read, Claim, Load, List, Transmit, Finish, Fail, Release
  <2>2. \E y : sender' = [sender EXCEPT ![r] = y]
    BY <1>4 DEF Request, Read, Claim, Load, List, Transmit, Finish, Fail, Release, Goto
  <2>3. \A s \in Senders \ {r} : sender'[s] = sender[s]
    BY <2>2, SenderMoves
  <2>4. \A s \in Senders, e \in Drafts : At(s, e, {"clearFiles"}) => At(s, e, {"clearFiles"})'
    BY <2>1, <2>3 DEF At
  <2>5. CASE UNCHANGED status
    BY <1>1, <2>4, <2>5, StatusFiles
  <2>6. CASE Claim(r) /\ status' # status
    <3> DEFINE d == sender[r].draft
    <3>1. /\ d \in Drafts /\ status[d] \in Editable \cup {"deleted"}
          /\ status' = [status EXCEPT ![d] = IF InTable(d) THEN "sending" ELSE @]
      BY <2>6, SenderFacts DEF Claim, row
    <3>2. /\ \A e \in Drafts \ {d} : status'[e] = status[e]
          /\ status'[d] = IF status[d] = "deleted" THEN "deleted" ELSE "sending"
      BY <3>1 DEF TypeOK, InTable, Editable
    <3> QED
      BY <1>1, <2>4, <3>1, <3>2, StatusFiles DEF Editable
  <2>7. CASE Finish(r) /\ status' # status
    <3> DEFINE d == sender[r].draft
    <3>1. /\ d \in Drafts /\ status[d] = "sending"
          /\ status' = [status EXCEPT ![d] = IF InTable(d) THEN "sent" ELSE @]
      BY <2>7, SenderFacts DEF Finish
    <3>2. status'[d] = "sent" /\ \A e \in Drafts \ {d} : status'[e] = status[e]
      BY <3>1 DEF TypeOK, InTable
    <3> QED
      BY <1>1, <2>4, <3>1, <3>2, StatusFiles DEF Editable
  <2>8. CASE Fail(r) /\ status' # status
    <3> DEFINE d == sender[r].draft
    <3>1. d \in Drafts /\ status' = [status EXCEPT ![d] = IF Fails(d) THEN "failed" ELSE @]
      BY <2>8, SenderFacts DEF Fail
    <3>2. /\ \A e \in Drafts \ {d} : status'[e] = status[e]
          /\ status'[d] = IF status[d] = "sending" THEN "failed" ELSE status[d]
      BY <3>1 DEF TypeOK, Fails
    <3>3. \A e \in Drafts :
            /\ status'[e] \in Editable \cup {"sending"} =>
                 status[e] \in Editable \cup {"sending", "none"}
            /\ status[e] # "none" => status'[e] # "none"
            /\ status[e] = "deleted" => status'[e] = "deleted"
      BY <3>1, <3>2 DEF Editable
    <3> QED
      BY <1>1, <2>4, <3>3, StatusFiles
  <2> QED
    BY <1>4, <2>5, <2>6, <2>7, <2>8 DEF Request, Read, Load, List, Transmit, Release, row
<1> QED
  BY <1>3, <1>4

\* After the final UPDATE the rows go, then the directory.
LEMMA ClearFilesKeep ==
  ASSUME TypeOK, SendInv, FileInv, NEW r \in Senders, ClearRecords(r) \/ ClearFiles(r)
  PROVE  FileInv'
<1> DEFINE d == sender[r].draft
<1>1. d \in Drafts /\ status[d] = "sent"
  BY SenderFacts DEF ClearRecords, ClearFiles
<1>2. UNCHANGED <<status, worker, crashes>>
  BY DEF ClearRecords, ClearFiles, row, counters
<1>3. \E y : sender' = [sender EXCEPT ![r] = y]
  BY DEF ClearRecords, ClearFiles, Goto
<1>4. \A s \in Senders \ {r}, e \in Drafts : At(s, e, {"clearFiles"})' <=> At(s, e, {"clearFiles"})
  BY <1>3, SenderMoves DEF At
<1>5. CASE ClearRecords(r)
  <2>1. records' = [records EXCEPT ![d] = {}] /\ UNCHANGED stored
    BY <1>5 DEF ClearRecords
  <2>2. records'[d] = {} /\ \A e \in Drafts \ {d} : records'[e] = records[e]
    BY <1>1, <2>1 DEF TypeOK
  <2>3. sender'[r].draft = d /\ sender'[r].pc = "clearFiles"
    <3>1. PICK y \in SenderRecord :
            sender' = [sender EXCEPT ![r] = y] /\ y.pc = "clearFiles" /\ y.draft = d
      BY <1>5, GotoMoves DEF ClearRecords, SenderPCs
    <3>2. sender'[r] = y
      BY <3>1, SenderMoves
    <3> QED
      BY <3>1, <3>2
  <2>4. \A e \in Drafts : ~At(r, e, {"clearFiles"})
    BY <1>5 DEF ClearRecords, At
  <2>5. \A s \in Senders, e \in Drafts : At(s, e, {"clearFiles"}) => At(s, e, {"clearFiles"})'
    BY <1>4, <2>4
  <2>6. AdderIsAlone'
    BY <1>2, <2>1, <2>2 DEF FileInv, AdderIsAlone, Adding
  <2>7. WorkersKnowTheirs'
    BY <1>2, <2>1 DEF FileInv, WorkersKnowTheirs
  <2>8. MissingFilesAreRemoved'
    BY <1>1, <1>2, <2>1, <2>2 DEF FileInv, MissingFilesAreRemoved
  <2>9. ExtraFilesAreHeld'
    <3> SUFFICES ASSUME crashes = 0, NEW e \in Drafts, NEW f \in stored[e] \ records'[e]
                 PROVE  \/ \E w \in Workers :
                             \/ worker[w] = [pc |-> "addRecord", draft |-> e, file |-> f]
                             \/ worker[w].pc = "deleteFiles" /\ worker[w].draft = e
                        \/ \E s \in Senders : At(s, e, {"clearFiles"})'
      BY <1>2, <2>1 DEF ExtraFilesAreHeld
    <3>1. CASE e = d
      BY <2>3, <3>1 DEF At
    <3>2. CASE e # d
      BY <2>2, <2>5, <3>2 DEF FileInv, ExtraFilesAreHeld
    <3> QED
      BY <3>1, <3>2
  <2> QED
    BY <2>6, <2>7, <2>8, <2>9 DEF FileInv
<1>6. CASE ClearFiles(r)
  <2>1. stored' = [stored EXCEPT ![d] = {}] /\ UNCHANGED records
    BY <1>6 DEF ClearFiles
  <2>2. stored'[d] = {} /\ \A e \in Drafts \ {d} : stored'[e] = stored[e]
    BY <1>1, <2>1 DEF TypeOK
  <2>3. \A e \in Drafts \ {d} : ~At(r, e, {"clearFiles"})
    BY DEF At
  <2>4. \A s \in Senders, e \in Drafts \ {d} : At(s, e, {"clearFiles"}) => At(s, e, {"clearFiles"})'
    BY <1>4, <2>3
  <2>5. AdderIsAlone'
    <3> SUFFICES ASSUME NEW w \in Workers, Adding(w)
                 PROVE  LET e == worker[w].draft
                            f == worker[w].file
                        IN /\ status[e] # "none"
                           /\ \A v \in Workers : worker[v].file = f => v = w
                           /\ \A g \in Drafts : f \notin records[g]
                           /\ worker[w].pc = "addFile" => \A g \in Drafts : f \notin stored'[g]
                           /\ worker[w].pc = "addRecord" /\ status[e] \in Editable \cup {"sending"} =>
                                 f \in stored'[e]
      BY <1>2, <2>1 DEF AdderIsAlone, Adding
    <3>1. worker[w].pc # "idle"
      BY DEF Adding
    <3>2. status[worker[w].draft] \in Editable \cup {"sending"} => worker[w].draft # d
      BY <1>1 DEF Editable
    <3> QED
      BY <2>2, <3>1, <3>2, WorkerFacts
  <2>6. WorkersKnowTheirs'
    BY <1>2, <2>2 DEF FileInv, WorkersKnowTheirs
  <2>7. MissingFilesAreRemoved'
    <3>1. \A e \in Drafts : status[e] \in Editable \cup {"sending"} => e # d
      BY <1>1 DEF Editable
    <3> QED
      BY <1>2, <2>1, <2>2, <3>1 DEF FileInv, MissingFilesAreRemoved
  <2>8. ExtraFilesAreHeld'
    <3> SUFFICES ASSUME crashes = 0, NEW e \in Drafts, NEW f \in stored'[e] \ records[e]
                 PROVE  \/ \E w \in Workers :
                             \/ worker[w] = [pc |-> "addRecord", draft |-> e, file |-> f]
                             \/ worker[w].pc = "deleteFiles" /\ worker[w].draft = e
                        \/ \E s \in Senders : At(s, e, {"clearFiles"})'
      BY <1>2, <2>1 DEF ExtraFilesAreHeld
    <3>1. e # d /\ f \in stored[e] \ records[e]
      BY <2>2
    <3> QED
      BY <2>4, <3>1 DEF FileInv, ExtraFilesAreHeld
  <2> QED
    BY <2>5, <2>6, <2>7, <2>8 DEF FileInv
<1> QED
  BY <1>5, <1>6

\* Another request w takes a step and becomes y: it touches one file of one
\* draft, which no other request adds.
OneFile(w, d, f, y) ==
  /\ worker' = [worker EXCEPT ![w] = y]
  /\ UNCHANGED <<status, sender, crashes>>
  /\ worker[w].pc # "idle" => worker[w].draft = d /\ worker[w].file = f
  /\ worker[w].pc # "deleteFiles"
  /\ y = IdleWorker \/ (y.pc \notin {"idle", "deleteFiles"} /\ y.draft = d /\ y.file = f)
  /\ \A e \in Drafts \ {d} : records'[e] = records[e] /\ stored'[e] = stored[e]
  /\ \A g \in Files \ {f} : (g \in records'[d] <=> g \in records[d])
                            /\ (g \in stored'[d] <=> g \in stored[d])
  /\ \A v \in Workers \ {w} : Adding(v) => worker[v].file # f
  /\ f \in stored'[d] => f \in stored[d] \/ \A v \in Workers \ {w} : worker[v].file # f
  /\ y.pc \in {"addFile", "addRecord"} =>
       /\ status[d] # "none"
       /\ \A v \in Workers \ {w} : worker[v].file # f
       /\ \A e \in Drafts : f \notin records'[e]
       /\ y.pc = "addFile" => \A e \in Drafts : f \notin stored'[e]
       /\ y.pc = "addRecord" => f \in stored'[d]
  /\ y.pc = "removeRecord" => f \notin stored'[d]
  /\ f \in records'[d] /\ f \notin stored'[d] =>
       \/ status[d] \notin Editable \cup {"sending"}
       \/ y = [pc |-> "removeRecord", draft |-> d, file |-> f]
       \/ f \in records[d] /\ f \notin stored[d] /\ worker[w].pc # "removeRecord"
  /\ f \in stored'[d] /\ f \notin records'[d] =>
       \/ y = [pc |-> "addRecord", draft |-> d, file |-> f]
       \/ f \in stored[d] /\ f \notin records[d] /\ worker[w].pc # "addRecord"
  /\ \A g \in records'[d] \cup stored'[d] : g \in Files

LEMMA OneFileStep ==
  ASSUME TypeOK, FileInv, NEW w \in Workers, NEW d \in Drafts, NEW f \in Files, NEW y,
         OneFile(w, d, f, y)
  PROVE  FileInv'
<1> USE DEF OneFile
<1>1. worker'[w] = y /\ \A v \in Workers \ {w} : worker'[v] = worker[v]
  BY WorkerMoves
<1>2. \A e \in Drafts : records[e] \subseteq Files /\ stored[e] \subseteq Files
  BY DEF TypeOK
<1>3. AdderIsAlone'
  <2> SUFFICES ASSUME NEW v \in Workers, worker'[v].pc \in {"addFile", "addRecord"}
               PROVE  LET e == worker'[v].draft
                          h == worker'[v].file
                      IN /\ status[e] # "none"
                         /\ \A u \in Workers : worker'[u].file = h => u = v
                         /\ \A g \in Drafts : h \notin records'[g]
                         /\ worker'[v].pc = "addFile" => \A g \in Drafts : h \notin stored'[g]
                         /\ worker'[v].pc = "addRecord" /\ status[e] \in Editable \cup {"sending"} =>
                               h \in stored'[e]
    BY DEF AdderIsAlone, Adding, Editable
  <2>1. CASE v = w
    <3>1. worker'[v] = y /\ y.draft = d /\ y.file = f
      BY <1>1, <2>1 DEF IdleWorker
    <3> QED
      BY <1>1, <2>1, <3>1
  <2>2. CASE v # w
    <3> DEFINE h == worker[v].file
               e == worker[v].draft
    <3>1. worker'[v] = worker[v] /\ Adding(v) /\ worker[v].pc # "idle"
      BY <1>1, <2>2 DEF Adding
    <3>2. /\ e \in Drafts /\ h \in Files /\ h # NoFile /\ h # f
          /\ status[e] # "none"
          /\ \A u \in Workers \ {v} : worker[u].file # h
          /\ \A g \in Drafts : h \notin records[g]
          /\ worker[v].pc = "addFile" => \A g \in Drafts : h \notin stored[g]
          /\ worker[v].pc = "addRecord" /\ status[e] \in Editable \cup {"sending"} => h \in stored[e]
      BY <2>2, <3>1, WorkerFacts DEF Adding
    <3>3. \A g \in Drafts : (h \in records'[g] <=> h \in records[g]) /\ (h \in stored'[g] <=> h \in stored[g])
      BY <3>2
    <3>4. \A u \in Workers : worker'[u].file = h => u = v
      BY <1>1, <3>2 DEF IdleWorker
    <3> QED
      BY <3>1, <3>2, <3>3, <3>4
  <2> QED
    BY <2>1, <2>2
<1>4. WorkersKnowTheirs'
  <2> SUFFICES ASSUME NEW v \in Workers
               PROVE  /\ worker'[v].pc = "idle" => worker'[v] = IdleWorker
                      /\ worker'[v].pc # "idle" => worker'[v].draft \in Drafts
                      /\ worker'[v].pc \notin {"idle", "deleteFiles"} => worker'[v].file \in Files
                      /\ worker'[v].pc = "removeRecord" => worker'[v].file \notin stored'[worker'[v].draft]
                      /\ worker'[v].pc = "deleteFiles" => status[worker'[v].draft] = "deleted"
    BY DEF WorkersKnowTheirs, IdleWorker
  <2>1. CASE v = w
    BY <1>1, <2>1 DEF IdleWorker
  <2>2. CASE v # w
    <3>1. worker'[v] = worker[v]
      BY <1>1, <2>2
    <3>2. worker[v].pc = "removeRecord" => worker[v].file \notin stored'[worker[v].draft]
      BY <2>2, WorkerFacts
    <3> QED
      BY <3>1, <3>2 DEF FileInv, WorkersKnowTheirs
  <2> QED
    BY <2>1, <2>2
<1>5. MissingFilesAreRemoved'
  <2> SUFFICES ASSUME crashes = 0, NEW e \in Drafts, status[e] \in Editable \cup {"sending"},
                      NEW g \in records'[e] \ stored'[e]
               PROVE  \E v \in Workers :
                        worker'[v] = [pc |-> "removeRecord", draft |-> e, file |-> g]
    BY DEF MissingFilesAreRemoved, Editable
  <2>1. CASE e = d /\ y = [pc |-> "removeRecord", draft |-> d, file |-> g]
    BY <1>1, <2>1
  <2>2. CASE ~(e = d /\ y = [pc |-> "removeRecord", draft |-> d, file |-> g])
    <3>1. g \in records[e] \ stored[e]
      BY <1>2, <2>2
    <3>2. PICK v \in Workers : worker[v] = [pc |-> "removeRecord", draft |-> e, file |-> g]
      BY <3>1 DEF FileInv, MissingFilesAreRemoved
    <3>3. worker[v].pc = "removeRecord" /\ worker[v].draft = e /\ worker[v].file = g
      BY <3>2
    <3>4. v # w
      BY <2>2, <3>1, <3>3
    <3> QED
      BY <1>1, <3>2, <3>4
  <2> QED
    BY <2>1, <2>2
<1>6. ExtraFilesAreHeld'
  <2> SUFFICES ASSUME crashes = 0, NEW e \in Drafts, NEW g \in stored'[e] \ records'[e]
               PROVE  \/ \E v \in Workers :
                           \/ worker'[v] = [pc |-> "addRecord", draft |-> e, file |-> g]
                           \/ worker'[v].pc = "deleteFiles" /\ worker'[v].draft = e
                      \/ \E s \in Senders : At(s, e, {"clearFiles"})
    BY DEF ExtraFilesAreHeld, At
  <2>1. CASE e = d /\ y = [pc |-> "addRecord", draft |-> d, file |-> g]
    BY <1>1, <2>1
  <2>2. CASE ~(e = d /\ y = [pc |-> "addRecord", draft |-> d, file |-> g])
    <3>1. g \in stored[e] \ records[e]
      BY <1>2, <2>2
    <3>2. CASE \E s \in Senders : At(s, e, {"clearFiles"})
      BY <3>2
    <3>3. CASE \E v \in Workers : worker[v].pc = "deleteFiles" /\ worker[v].draft = e
      BY <1>1, <3>3
    <3>4. ASSUME NEW v \in Workers, worker[v] = [pc |-> "addRecord", draft |-> e, file |-> g]
          PROVE  worker'[v] = worker[v]
      <4>1. worker[v].pc = "addRecord" /\ worker[v].draft = e /\ worker[v].file = g
        BY <3>4
      <4>2. v # w
        BY <2>2, <3>1, <4>1
      <4> QED
        BY <1>1, <4>2
    <3> QED
      BY <3>1, <3>2, <3>3, <3>4 DEF FileInv, ExtraFilesAreHeld
  <2> QED
    BY <2>1, <2>2
<1> QED
  BY <1>3, <1>4, <1>5, <1>6 DEF FileInv

\* The steps of adding and removing an attachment, one by one.
LEMMA AddCheckFiles ==
  ASSUME TypeOK, FileInv, NEW w \in Workers, NEW d \in Drafts, NEW f \in Files, AddCheck(w, d, f)
  PROVE  FileInv'
<1> DEFINE y == [pc |-> "addFile", draft |-> d, file |-> f]
<1>1. /\ worker[w].pc = "idle" /\ status[d] \in Editable /\ worker' = [worker EXCEPT ![w] = y]
      /\ \A e \in Drafts : f \notin records[e] /\ f \notin stored[e]
      /\ \A v \in Workers : worker[v].file # f
      /\ UNCHANGED <<status, records, stored, sender, crashes>>
  BY DEF AddCheck, Begins, row, disk, counters
<1>2. \A g \in records'[d] \cup stored'[d] : g \in Files
  BY <1>1 DEF TypeOK
<1>3. y.pc = "addFile" /\ y.draft = d /\ y.file = f /\ status[d] # "none"
  BY <1>1 DEF Editable
<1> HIDE DEF y
<1>4. OneFile(w, d, f, y)
  BY <1>1, <1>2, <1>3 DEF OneFile
<1> QED
  BY <1>4, OneFileStep

LEMMA RemoveCheckFiles ==
  ASSUME TypeOK, FileInv, NEW w \in Workers, NEW d \in Drafts, NEW f \in Files, RemoveCheck(w, d, f)
  PROVE  FileInv'
<1> DEFINE y == [pc |-> "removeFile", draft |-> d, file |-> f]
<1>1. /\ worker[w].pc = "idle" /\ f \in records[d] /\ worker' = [worker EXCEPT ![w] = y]
      /\ UNCHANGED <<status, records, stored, sender, crashes>>
  BY DEF RemoveCheck, Begins, row, disk, counters
<1>2. \A g \in records'[d] \cup stored'[d] : g \in Files
  BY <1>1 DEF TypeOK
<1>3. y.pc = "removeFile" /\ y.draft = d /\ y.file = f
  OBVIOUS
<1>4. \A v \in Workers \ {w} : Adding(v) => worker[v].file # f
  BY <1>1, WorkerFacts DEF Adding
<1> HIDE DEF y
<1>5. OneFile(w, d, f, y)
  BY <1>1, <1>2, <1>3, <1>4 DEF OneFile
<1> QED
  BY <1>5, OneFileStep

\* What a step of such a request may rely on: nobody else adds its file, and it
\* goes on by name or ends.
LEMMA WorkerGoes ==
  ASSUME TypeOK, FileInv, NEW w \in Workers, worker[w].pc \notin {"idle", "deleteFiles"}
  PROVE  LET d == worker[w].draft
             f == worker[w].file
         IN /\ d \in Drafts /\ f \in Files
            /\ \A v \in Workers \ {w} : Adding(v) => worker[v].file # f
            /\ \A pc : worker' = [worker EXCEPT ![w].pc = pc] =>
                 worker' = [worker EXCEPT ![w] = [pc |-> pc, draft |-> d, file |-> f]]
<1> DEFINE d == worker[w].draft
           f == worker[w].file
<1>1. d \in Drafts /\ f \in Files
  BY WorkerFacts
<1>2. \A v \in Workers \ {w} : Adding(v) => worker[v].file # f
  <2> SUFFICES ASSUME NEW v \in Workers \ {w}, Adding(v)
               PROVE  worker[v].file # f
    OBVIOUS
  <2>1. worker[v].pc # "idle"
    BY DEF Adding
  <2> QED
    BY <2>1, WorkerFacts
<1>3. worker[w] \in WorkerRecord /\ worker = [v \in Workers |-> worker[v]]
  BY DEF TypeOK
<1>4. ASSUME NEW pc, worker' = [worker EXCEPT ![w].pc = pc]
      PROVE  worker' = [worker EXCEPT ![w] = [pc |-> pc, draft |-> d, file |-> f]]
  <2>1. [worker[w] EXCEPT !.pc = pc] = [pc |-> pc, draft |-> d, file |-> f]
    <3> HIDE DEF WorkerPCs
    <3> QED
      BY <1>3 DEF WorkerRecord
  <2> QED
    BY <1>3, <1>4, <2>1
<1> QED
  BY <1>1, <1>2, <1>4

LEMMA AddFileFiles == ASSUME TypeOK, FileInv, NEW w \in Workers, AddFile(w) PROVE FileInv'
<1> DEFINE d == worker[w].draft
           f == worker[w].file
           y == [pc |-> "addRecord", draft |-> d, file |-> f]
<1>1. worker[w].pc = "addFile" /\ UNCHANGED <<status, records, sender, crashes>>
  BY DEF AddFile, row, counters
<1>2. /\ d \in Drafts /\ f \in Files /\ status[d] # "none"
      /\ \A v \in Workers \ {w} : worker[v].file # f
      /\ \A e \in Drafts : f \notin records[e] /\ f \notin stored[e]
  BY <1>1, WorkerFacts DEF Adding
<1>3. /\ stored \in [Drafts -> SUBSET Files] /\ \A g \in records[d] : g \in Files
      /\ worker[w].draft = d /\ worker[w].file = f
  BY <1>2 DEF TypeOK
<1>4. CASE /\ stored' = [stored EXCEPT ![d] = @ \cup {f}]
           /\ worker' = [worker EXCEPT ![w].pc = "addRecord"]
  <2>1. stored'[d] = stored[d] \cup {f} /\ \A e \in Drafts \ {d} : stored'[e] = stored[e]
    BY <1>2, <1>3, <1>4
  <2>2. worker' = [worker EXCEPT ![w] = y]
    BY <1>1, <1>4, WorkerGoes
  <2>3. /\ y.pc = "addRecord" /\ y.draft = d /\ y.file = f
        /\ y = [pc |-> "addRecord", draft |-> d, file |-> f]
    OBVIOUS
  <2>4. \A g \in records'[d] \cup stored'[d] : g \in Files
    BY <1>1, <1>2, <1>3, <2>1
  <2> HIDE DEF y, d, f
  <2>5. OneFile(w, d, f, y)
    BY <1>1, <1>2, <1>3, <2>1, <2>2, <2>3, <2>4 DEF OneFile
  <2> QED
    BY <1>2, <2>5, OneFileStep
<1>5. CASE UNCHANGED stored /\ worker' = [worker EXCEPT ![w] = IdleWorker]
  <2> HIDE DEF d, f
  <2>1. IdleWorker.pc = "idle"
    BY DEF IdleWorker
  <2>2. \A g \in records'[d] \cup stored'[d] : g \in Files
    BY <1>1, <1>2, <1>3, <1>5
  <2>3. OneFile(w, d, f, IdleWorker)
    BY <1>1, <1>2, <1>3, <1>5, <2>1, <2>2 DEF OneFile
  <2> QED
    BY <1>2, <2>3, OneFileStep
<1> QED
  BY <1>4, <1>5 DEF AddFile, WriteFails, Ends

LEMMA AddRecordFiles == ASSUME TypeOK, FileInv, NEW w \in Workers, AddRecord(w) PROVE FileInv'
<1> DEFINE d == worker[w].draft
           f == worker[w].file
<1>1. /\ worker[w].pc = "addRecord" /\ UNCHANGED <<status, sender, crashes>>
      /\ worker' = [worker EXCEPT ![w] = IdleWorker] /\ IdleWorker.pc = "idle"
  BY DEF AddRecord, Ends, IdleWorker, row, counters
<1>2. /\ d \in Drafts /\ f \in Files
      /\ \A v \in Workers \ {w} : worker[v].file # f
      /\ \A e \in Drafts : f \notin records[e]
      /\ status[d] \in Editable \cup {"sending"} => f \in stored[d]
  BY <1>1, WorkerFacts DEF Adding
<1>3. /\ stored \in [Drafts -> SUBSET Files] /\ records \in [Drafts -> SUBSET Files]
      /\ worker[w].draft = d /\ worker[w].file = f
  BY DEF TypeOK
<1>4. CASE records' = [records EXCEPT ![d] = @ \cup {f}] /\ UNCHANGED stored
  <2>1. records'[d] = records[d] \cup {f} /\ \A e \in Drafts \ {d} : records'[e] = records[e]
    BY <1>2, <1>3, <1>4
  <2>2. \A g \in records'[d] \cup stored'[d] : g \in Files
    BY <1>2, <1>3, <1>4, <2>1
  <2> HIDE DEF d, f
  <2>3. OneFile(w, d, f, IdleWorker)
    BY <1>1, <1>2, <1>3, <1>4, <2>1, <2>2 DEF OneFile
  <2> QED
    BY <1>2, <2>3, OneFileStep
<1>5. CASE stored' = [stored EXCEPT ![d] = @ \ {f}] /\ UNCHANGED records
  <2>1. stored'[d] = stored[d] \ {f} /\ \A e \in Drafts \ {d} : stored'[e] = stored[e]
    BY <1>2, <1>3, <1>5
  <2>2. \A g \in records'[d] \cup stored'[d] : g \in Files
    BY <1>2, <1>3, <1>5, <2>1
  <2> HIDE DEF d, f
  <2>3. OneFile(w, d, f, IdleWorker)
    BY <1>1, <1>2, <1>3, <1>5, <2>1, <2>2 DEF OneFile
  <2> QED
    BY <1>2, <2>3, OneFileStep
<1> QED
  BY <1>4, <1>5 DEF AddRecord, DropFile

LEMMA RemoveFileFiles == ASSUME TypeOK, FileInv, NEW w \in Workers, RemoveFile(w) PROVE FileInv'
<1> DEFINE d == worker[w].draft
           f == worker[w].file
           y == [pc |-> "removeRecord", draft |-> d, file |-> f]
<1>1. /\ worker[w].pc = "removeFile" /\ UNCHANGED <<status, records, sender, crashes>>
      /\ stored' = [stored EXCEPT ![d] = @ \ {f}]
      /\ worker' = [worker EXCEPT ![w].pc = "removeRecord"]
  BY DEF RemoveFile, row, counters
<1>2. /\ d \in Drafts /\ f \in Files
      /\ \A v \in Workers \ {w} : Adding(v) => worker[v].file # f
      /\ worker' = [worker EXCEPT ![w] = y]
  BY <1>1, WorkerGoes
<1>3. /\ stored'[d] = stored[d] \ {f} /\ \A e \in Drafts \ {d} : stored'[e] = stored[e]
      /\ \A g \in records[d] \cup stored[d] : g \in Files
  BY <1>1, <1>2 DEF TypeOK
<1>4. /\ y.pc = "removeRecord" /\ y.draft = d /\ y.file = f
      /\ y = [pc |-> "removeRecord", draft |-> d, file |-> f]
      /\ worker[w].draft = d /\ worker[w].file = f
  OBVIOUS
<1> HIDE DEF y, d, f
<1>5. OneFile(w, d, f, y)
  BY <1>1, <1>2, <1>3, <1>4 DEF OneFile
<1> QED
  BY <1>2, <1>5, OneFileStep

LEMMA RemoveRecordFiles == ASSUME TypeOK, FileInv, NEW w \in Workers, RemoveRecord(w) PROVE FileInv'
<1> DEFINE d == worker[w].draft
           f == worker[w].file
<1>1. /\ worker[w].pc = "removeRecord" /\ UNCHANGED <<status, stored, sender, crashes>>
      /\ records' = [records EXCEPT ![d] = @ \ {f}]
      /\ worker' = [worker EXCEPT ![w] = IdleWorker] /\ IdleWorker.pc = "idle"
  BY DEF RemoveRecord, Ends, IdleWorker, row, counters
<1>2. /\ d \in Drafts /\ f \in Files /\ f \notin stored[d]
      /\ \A v \in Workers \ {w} : Adding(v) => worker[v].file # f
  BY <1>1, WorkerGoes, WorkerFacts
<1>3. /\ records'[d] = records[d] \ {f} /\ \A e \in Drafts \ {d} : records'[e] = records[e]
      /\ \A g \in records[d] \cup stored[d] : g \in Files
      /\ worker[w].draft = d /\ worker[w].file = f
  BY <1>1, <1>2 DEF TypeOK
<1> HIDE DEF d, f
<1>4. OneFile(w, d, f, IdleWorker)
  BY <1>1, <1>2, <1>3 DEF OneFile
<1> QED
  BY <1>2, <1>4, OneFileStep

\* A draft goes with its rows, then its directory.
LEMMA DeletionFiles ==
  ASSUME TypeOK, FileInv, NEW w \in Workers, NEW d \in Drafts, NEW y,
         worker' = [worker EXCEPT ![w] = y], UNCHANGED <<sender, crashes>>,
         worker[w].pc \in {"idle", "deleteFiles"}, worker[w].pc = "deleteFiles" => worker[w].draft = d,
         \/ y = IdleWorker /\ stored'[d] = {}
         \/ y.pc = "deleteFiles" /\ y.draft = d /\ y.file = NoFile /\ stored'[d] = stored[d],
         status[d] # "none", status'[d] = "deleted", records'[d] = {},
         \A e \in Drafts \ {d} :
           status'[e] = status[e] /\ records'[e] = records[e] /\ stored'[e] = stored[e]
  PROVE  FileInv'
<1>1. worker'[w] = y /\ \A v \in Workers \ {w} : worker'[v] = worker[v]
  BY WorkerMoves
<1>2. y.pc \in {"idle", "deleteFiles"} /\ y.file = NoFile
  BY DEF IdleWorker
<1>3. \A e \in Drafts : status[e] = "deleted" => status'[e] = "deleted"
  OBVIOUS
<1>4. AdderIsAlone'
  <2> SUFFICES ASSUME NEW v \in Workers, worker'[v].pc \in {"addFile", "addRecord"}
               PROVE  LET e == worker'[v].draft
                          h == worker'[v].file
                      IN /\ status'[e] # "none"
                         /\ \A u \in Workers : worker'[u].file = h => u = v
                         /\ \A g \in Drafts : h \notin records'[g]
                         /\ worker'[v].pc = "addFile" => \A g \in Drafts : h \notin stored'[g]
                         /\ worker'[v].pc = "addRecord" /\ status'[e] \in Editable \cup {"sending"} =>
                               h \in stored'[e]
    BY DEF AdderIsAlone, Adding, Editable
  <2> DEFINE h == worker[v].file
             e == worker[v].draft
  <2>1. v # w /\ worker'[v] = worker[v] /\ Adding(v) /\ worker[v].pc # "idle"
    BY <1>1, <1>2 DEF Adding
  <2>2. /\ e \in Drafts /\ h # NoFile
        /\ status[e] # "none"
        /\ \A u \in Workers \ {v} : worker[u].file # h
        /\ \A g \in Drafts : h \notin records[g]
        /\ worker[v].pc = "addFile" => \A g \in Drafts : h \notin stored[g]
        /\ worker[v].pc = "addRecord" /\ status[e] \in Editable \cup {"sending"} => h \in stored[e]
    BY <2>1, WorkerFacts DEF Adding
  <2>3. \A u \in Workers : worker'[u].file = h => u = v
    BY <1>1, <1>2, <2>2
  <2>4. status'[e] \in Editable \cup {"sending"} => e # d
    BY DEF Editable
  <2> QED
    BY <2>1, <2>2, <2>3, <2>4
<1>5. WorkersKnowTheirs'
  <2> SUFFICES ASSUME NEW v \in Workers
               PROVE  /\ worker'[v].pc = "idle" => worker'[v] = IdleWorker
                      /\ worker'[v].pc # "idle" => worker'[v].draft \in Drafts
                      /\ worker'[v].pc \notin {"idle", "deleteFiles"} => worker'[v].file \in Files
                      /\ worker'[v].pc = "removeRecord" => worker'[v].file \notin stored'[worker'[v].draft]
                      /\ worker'[v].pc = "deleteFiles" => status'[worker'[v].draft] = "deleted"
    BY DEF WorkersKnowTheirs, IdleWorker
  <2>1. CASE v = w
    BY <1>1, <2>1 DEF IdleWorker
  <2>2. CASE v # w
    <3>1. worker'[v] = worker[v]
      BY <1>1, <2>2
    <3>2. worker[v].pc = "removeRecord" => worker[v].file \notin stored'[worker[v].draft]
      BY WorkerFacts
    <3> QED
      BY <1>3, <3>1, <3>2 DEF FileInv, WorkersKnowTheirs
  <2> QED
    BY <2>1, <2>2
<1>6. MissingFilesAreRemoved'
  <2> SUFFICES ASSUME crashes = 0, NEW e \in Drafts, status'[e] \in Editable \cup {"sending"},
                      NEW g \in records'[e] \ stored'[e]
               PROVE  \E v \in Workers :
                        worker'[v] = [pc |-> "removeRecord", draft |-> e, file |-> g]
    BY DEF MissingFilesAreRemoved, Editable
  <2>1. g \in records[e] \ stored[e] /\ status[e] \in Editable \cup {"sending"}
    BY DEF Editable
  <2>2. PICK v \in Workers : worker[v] = [pc |-> "removeRecord", draft |-> e, file |-> g]
    BY <2>1 DEF FileInv, MissingFilesAreRemoved
  <2>3. worker[v].pc = "removeRecord"
    BY <2>2
  <2> QED
    BY <1>1, <2>2, <2>3
<1>7. ExtraFilesAreHeld'
  <2> SUFFICES ASSUME crashes = 0, NEW e \in Drafts, NEW g \in stored'[e] \ records'[e]
               PROVE  \/ \E v \in Workers :
                           \/ worker'[v] = [pc |-> "addRecord", draft |-> e, file |-> g]
                           \/ worker'[v].pc = "deleteFiles" /\ worker'[v].draft = e
                      \/ \E s \in Senders : At(s, e, {"clearFiles"})
    BY DEF ExtraFilesAreHeld, At
  <2>1. CASE e = d
    BY <1>1, <2>1
  <2>2. CASE e # d
    <3>1. g \in stored[e] \ records[e]
      BY <2>2
    <3>2. CASE \E s \in Senders : At(s, e, {"clearFiles"})
      BY <3>2
    <3>3. CASE \E v \in Workers : worker[v].pc = "deleteFiles" /\ worker[v].draft = e
      BY <1>1, <2>2, <3>3
    <3>4. ASSUME NEW v \in Workers, worker[v] = [pc |-> "addRecord", draft |-> e, file |-> g]
          PROVE  worker'[v] = worker[v]
      <4>1. worker[v].pc = "addRecord"
        BY <3>4
      <4> QED
        BY <1>1, <4>1
    <3> QED
      BY <3>1, <3>2, <3>3, <3>4 DEF FileInv, ExtraFilesAreHeld
  <2> QED
    BY <2>1, <2>2
<1> QED
  BY <1>4, <1>5, <1>6, <1>7 DEF FileInv

LEMMA DeleteRowFiles ==
  ASSUME TypeOK, FileInv, NEW w \in Workers, NEW d \in Drafts, DeleteRow(w, d) PROVE FileInv'
<1> DEFINE y == [pc |-> "deleteFiles", draft |-> d, file |-> NoFile]
<1>1. /\ worker[w].pc = "idle" /\ status[d] \in Editable
      /\ status' = [status EXCEPT ![d] = "deleted"] /\ records' = [records EXCEPT ![d] = {}]
      /\ worker' = [worker EXCEPT ![w] = y] /\ UNCHANGED <<stored, sender, crashes>>
  BY DEF DeleteRow, Deletable, Cascade, Begins, counters
<1>2. /\ status'[d] = "deleted" /\ records'[d] = {} /\ status[d] # "none"
      /\ \A e \in Drafts \ {d} : status'[e] = status[e] /\ records'[e] = records[e]
  BY <1>1 DEF TypeOK, Editable
<1>3. y.pc = "deleteFiles" /\ y.draft = d /\ y.file = NoFile
  OBVIOUS
<1> HIDE DEF y
<1> QED
  BY <1>1, <1>2, <1>3, DeletionFiles

LEMMA DeleteFilesFiles == ASSUME TypeOK, FileInv, NEW w \in Workers, DeleteFiles(w) PROVE FileInv'
<1> DEFINE d == worker[w].draft
<1>1. /\ worker[w].pc = "deleteFiles" /\ stored' = [stored EXCEPT ![d] = {}]
      /\ worker' = [worker EXCEPT ![w] = IdleWorker]
      /\ UNCHANGED <<status, records, sender, crashes>>
  BY DEF DeleteFiles, Ends, row, counters
<1>2. d \in Drafts /\ status[d] = "deleted"
  BY <1>1, WorkerFacts
<1>3. /\ stored'[d] = {} /\ records[d] = {}
      /\ \A e \in Drafts \ {d} : stored'[e] = stored[e]
  BY <1>1, <1>2 DEF TypeOK, InTable
<1>4. worker[w].draft = d
  OBVIOUS
<1> HIDE DEF d
<1> QED
  BY <1>1, <1>2, <1>3, <1>4, DeletionFiles

\* A crash ends every request: what is said of files is said of runs without one.
LEMMA CrashFiles == ASSUME TypeOK, Crash PROVE FileInv'
<1>1. worker' = [w \in Workers |-> IdleWorker] /\ crashes' # 0
  BY DEF Crash, TypeOK
<1>2. \A w \in Workers : worker'[w] = IdleWorker /\ IdleWorker.pc = "idle"
  BY <1>1 DEF IdleWorker
<1> QED
  BY <1>1, <1>2
  DEF FileInv, AdderIsAlone, Adding, WorkersKnowTheirs, MissingFilesAreRemoved, ExtraFilesAreHeld

LEMMA FileInvStep == ASSUME TypeOK, SendInv, FileInv, [Next]_vars PROVE FileInv'
<1>1. ASSUME UNCHANGED vars PROVE FileInv'
  <2>1. UNCHANGED <<status, records, stored, sender, worker, crashes>>
    BY <1>1 DEF vars, row, disk, counters
  <2>2. \A r \in Senders, d \in Drafts : At(r, d, {"clearFiles"}) => At(r, d, {"clearFiles"})'
    BY <2>1 DEF At
  <2> QED
    BY <2>1, <2>2, StatusFiles
<1> QED
  BY <1>1, SendingFiles, ClearFilesKeep, AddCheckFiles, RemoveCheckFiles, AddFileFiles, AddRecordFiles,
     RemoveFileFiles, RemoveRecordFiles, DeleteRowFiles, DeleteFilesFiles, CrashFiles
  DEF Next, SendStep, WorkStep

-----------------------------------------------------------------------------
(* Types *)

\* The rows and requests that a step gives new values keep their types.
LEMMA GotoType ==
  ASSUME TypeOK, NEW r \in Senders, NEW pc \in SenderPCs, Goto(r, pc)
  PROVE  sender' \in [Senders -> SenderRecord]
<1>1. PICK y \in SenderRecord : sender' = [sender EXCEPT ![r] = y]
  BY GotoMoves
<1> QED
  BY <1>1 DEF TypeOK

LEMMA IdleType == IdleSender \in SenderRecord /\ IdleWorker \in WorkerRecord
  BY BoundsAssumption DEF IdleSender, IdleWorker, SenderRecord, WorkerRecord, SenderPCs, WorkerPCs

\* Saving a draft.
LEMMA SavingType ==
  ASSUME TypeOK, NEW d \in Drafts, Create(d) \/ Save(d) PROVE TypeOK'
<1>1. /\ status[d] \in {"none", "draft", "failed"} /\ status' = [status EXCEPT ![d] = "draft"]
      /\ UNCHANGED <<records, stored, active, sender, worker, mails, copies, sends, faults, crashes>>
  BY DEF Create, Save, Savable, InTable, TypeOK, disk, mailbox, counters
<1>2. /\ key' \in [Drafts -> Keys \cup {NoKey}]
      /\ text' \in [Drafts -> 0..MaxEdits]
  BY BoundsAssumption DEF Create, Save, TypeOK
<1>3. status' \in [Drafts -> {"none", "draft", "sending", "sent", "failed", "deleted"}]
  BY <1>1 DEF TypeOK
<1>4. \A e \in Drafts : InTable(e) => InTable(e)'
  BY <1>1 DEF TypeOK, InTable
<1> QED
  BY <1>1, <1>2, <1>3, <1>4 DEF TypeOK

\* The steps of a request to send that leave attachments and mailbox alone.
LEMMA SenderType ==
  ASSUME TypeOK, SendInv, NEW r \in Senders,
         \/ \E d \in Drafts, k \in Keys : Request(r, d, k)
         \/ Read(r) \/ Claim(r) \/ Load(r) \/ List(r) \/ Finish(r) \/ Fail(r) \/ Release(r)
  PROVE  TypeOK'
<1>1. UNCHANGED <<text, records, stored, worker, mails, copies, crashes>>
  BY DEF Request, Read, Claim, Load, List, Finish, Fail, Release, row, disk, mailbox, counters
<1>2. sender[r].pc # "idle" => sender[r].draft \in Drafts /\ sender[r].key \in Keys
  BY SenderFacts
<1>3. sender' \in [Senders -> SenderRecord]
  <2>1. ASSUME NEW d \in Drafts, NEW k \in Keys, Request(r, d, k) PROVE sender' \in [Senders -> SenderRecord]
    <3>1. [pc |-> "read", draft |-> d, key |-> k, text |-> 0, files |-> {}] \in SenderRecord
      BY BoundsAssumption DEF SenderRecord, SenderPCs
    <3> QED
      BY <2>1, <3>1 DEF Request, TypeOK
  <2>2. ASSUME \E pc \in SenderPCs : Goto(r, pc) PROVE sender' \in [Senders -> SenderRecord]
    BY <2>2, GotoType
  <2>3. CASE Read(r) \/ Claim(r) \/ Finish(r) \/ Fail(r)
    BY <2>2, <2>3 DEF Read, Claim, Finish, Fail, SenderPCs
  <2>4. CASE Load(r)
    <3> DEFINE d == sender[r].draft
               y == [sender[r] EXCEPT !.pc = "list", !.text = text[d]]
    <3>1. CASE Goto(r, "fail")
      BY <2>2, <3>1 DEF SenderPCs
    <3>2. CASE sender' = [sender EXCEPT ![r].pc = "list", ![r].text = text[d]]
      <4>1. y \in SenderRecord
        BY <1>2, <2>4 DEF Load, TypeOK, SenderRecord, SenderPCs
      <4>2. sender' = [sender EXCEPT ![r] = y]
        BY <3>2 DEF TypeOK
      <4> QED
        BY <4>1, <4>2 DEF TypeOK
    <3> QED
      BY <2>4, <3>1, <3>2 DEF Load
  <2>5. CASE List(r)
    <3> DEFINE y == [sender[r] EXCEPT !.pc = "transmit", !.files = records[sender[r].draft]]
    <3>1. y \in SenderRecord
      BY <1>2, <2>5 DEF List, TypeOK, SenderRecord, SenderPCs
    <3>2. sender' = [sender EXCEPT ![r] = y]
      BY <2>5 DEF List, TypeOK
    <3> QED
      BY <3>1, <3>2 DEF TypeOK
  <2>6. CASE Release(r)
    BY <2>6, IdleType DEF Release, TypeOK
  <2> QED
    BY <2>1, <2>3, <2>4, <2>5, <2>6
<1>4. active' \subseteq Drafts
  BY DEF TypeOK, Request, Read, Claim, Load, List, Finish, Fail, Release
<1>5. sends' \in 0..MaxSends
  BY BoundsAssumption DEF TypeOK, Request, Read, Claim, Load, List, Finish, Fail, Release, counters
<1>6. faults' \in Nat /\ faults' + crashes <= MaxMishaps
  BY BoundsAssumption DEF TypeOK, Request, Read, Claim, Load, List, Finish, Fail, Release, counters,
                          MishapsLeft
<1>7. key' \in [Drafts -> Keys \cup {NoKey}]
  BY <1>2 DEF TypeOK, Request, Read, Claim, Load, List, Finish, Fail, Release, row
<1>8. /\ status' \in [Drafts -> {"none", "draft", "sending", "sent", "failed", "deleted"}]
      /\ \A e \in Drafts : InTable(e) <=> InTable(e)'
  <2>1. CASE UNCHANGED status
    BY <2>1 DEF TypeOK, InTable
  <2>2. ASSUME NEW d \in Drafts, NEW x \in {"sending", "sent", "failed"},
               status' = [status EXCEPT ![d] = IF InTable(d) THEN x ELSE @]
        PROVE  /\ status' \in [Drafts -> {"none", "draft", "sending", "sent", "failed", "deleted"}]
               /\ \A e \in Drafts : InTable(e) <=> InTable(e)'
    BY <2>2 DEF TypeOK, InTable
  <2>3. CASE Fail(r)
    BY <1>2, <2>3 DEF Fail, Fails, TypeOK, InTable
  <2> QED
    BY <1>2, <2>1, <2>2, <2>3 DEF Request, Read, Claim, Load, List, Finish, Release, row
<1> QED
  BY <1>1, <1>3, <1>4, <1>5, <1>6, <1>7, <1>8 DEF TypeOK

\* A copy is made only by a request that was counted.
LEMMA TransmitType == ASSUME TypeOK, SendInv, NEW r \in Senders, Transmit(r) PROVE TypeOK'
<1> DEFINE d == sender[r].draft
<1>1. sender[r].pc = "transmit" /\ UNCHANGED <<row, disk, active, worker, sends, crashes>>
  BY DEF Transmit
<1>2. d \in Drafts /\ sender[r].key \in Keys /\ copies[d] < sends
  BY <1>1, SenderFacts
<1>3. sender' \in [Senders -> SenderRecord]
  BY GotoType DEF Transmit, SenderPCs
<1>4. faults' \in Nat /\ faults' + crashes <= MaxMishaps
  BY BoundsAssumption DEF TypeOK, Transmit, MishapsLeft
<1>5. mails' \subseteq MailRecord /\ copies' \in [Drafts -> 0..MaxSends]
  <2>1. CASE UNCHANGED <<mails, copies>>
    BY <2>1 DEF TypeOK
  <2>2. CASE Accept(r)
    <3> DEFINE m == [draft |-> d, key |-> sender[r].key, text |-> sender[r].text,
                     files |-> sender[r].files, number |-> copies[d] + 1]
    <3>1. copies[d] \in Nat /\ copies[d] + 1 \in 1..MaxSends
      BY <1>2, BoundsAssumption DEF TypeOK
    <3>2. sender[r].text \in 0..MaxEdits /\ sender[r].files \in SUBSET Files
      BY DEF TypeOK, SenderRecord
    <3>3. m \in MailRecord
      BY <1>2, <3>1, <3>2 DEF MailRecord
    <3>4. mails' = mails \cup {m} /\ copies' = [copies EXCEPT ![d] = @ + 1]
      BY <2>2 DEF Accept
    <3>5. copies' \in [Drafts -> 0..MaxSends]
      <4>1. copies[d] + 1 \in 0..MaxSends
        BY <3>1, BoundsAssumption
      <4>2. copies' = [copies EXCEPT ![d] = copies[d] + 1]
        BY <3>4
      <4>3. copies \in [Drafts -> 0..MaxSends]
        BY DEF TypeOK
      <4> QED
        BY <4>1, <4>2, <4>3
    <3> HIDE DEF m
    <3> QED
      BY <3>3, <3>4, <3>5 DEF TypeOK
  <2> QED
    BY <2>1, <2>2 DEF Transmit, mailbox
<1> QED
  BY <1>1, <1>3, <1>4, <1>5 DEF TypeOK, row, disk, InTable

LEMMA ClearType ==
  ASSUME TypeOK, SendInv, NEW r \in Senders, ClearRecords(r) \/ ClearFiles(r) PROVE TypeOK'
<1>1. UNCHANGED <<row, active, worker, mailbox, counters>>
  BY DEF ClearRecords, ClearFiles
<1>2. sender' \in [Senders -> SenderRecord]
  BY GotoType DEF ClearRecords, ClearFiles, SenderPCs
<1>3. /\ records' \in [Drafts -> SUBSET Files] /\ stored' \in [Drafts -> SUBSET Files]
      /\ \A e \in Drafts : records'[e] \subseteq records[e]
  BY DEF ClearRecords, ClearFiles, TypeOK
<1> QED
  BY <1>1, <1>2, <1>3 DEF TypeOK, row, mailbox, counters, InTable

\* Attachments and deletion.
LEMMA WorkerType ==
  ASSUME TypeOK, FileInv, NEW w \in Workers,
         \/ \E d \in Drafts, f \in Files : AddCheck(w, d, f) \/ RemoveCheck(w, d, f)
         \/ \E d \in Drafts : DeleteRow(w, d)
         \/ WorkStep(w)
  PROVE  TypeOK'
<1> USE DEF WorkStep
<1>1. UNCHANGED <<key, text, active, sender, mails, copies, sends, faults, crashes>>
  BY DEF AddCheck, RemoveCheck, DeleteRow, AddFile, AddRecord, RemoveFile, RemoveRecord, DeleteFiles,
         row, mailbox, counters
<1>2. /\ worker[w].pc # "idle" => worker[w].draft \in Drafts
      /\ worker[w].pc \notin {"idle", "deleteFiles"} => worker[w].file \in Files
  BY WorkerFacts
<1>3. worker' \in [Workers -> WorkerRecord]
  <2>1. ASSUME NEW d \in Drafts, NEW f \in Files \cup {NoFile},
               NEW pc \in {"addFile", "removeFile", "deleteFiles"}, Begins(w, pc, d, f)
        PROVE  worker' \in [Workers -> WorkerRecord]
    <3>1. [pc |-> pc, draft |-> d, file |-> f] \in WorkerRecord
      BY DEF WorkerRecord, WorkerPCs
    <3> QED
      BY <2>1, <3>1 DEF Begins, TypeOK
  <2>2. ASSUME NEW pc \in WorkerPCs, worker' = [worker EXCEPT ![w].pc = pc]
        PROVE  worker' \in [Workers -> WorkerRecord]
    <3>1. [worker[w] EXCEPT !.pc = pc] \in WorkerRecord
      BY DEF TypeOK, WorkerRecord
    <3>2. worker' = [worker EXCEPT ![w] = [worker[w] EXCEPT !.pc = pc]]
      BY <2>2 DEF TypeOK
    <3> QED
      BY <3>1, <3>2 DEF TypeOK
  <2>3. ASSUME Ends(w) PROVE worker' \in [Workers -> WorkerRecord]
    BY <2>3, IdleType DEF Ends, TypeOK
  <2>4. CASE \/ \E d \in Drafts, f \in Files : AddCheck(w, d, f) \/ RemoveCheck(w, d, f)
             \/ \E d \in Drafts : DeleteRow(w, d)
    BY <2>1, <2>4 DEF AddCheck, RemoveCheck, DeleteRow
  <2>5. CASE AddFile(w) \/ RemoveFile(w)
    BY <2>2, <2>3, <2>5 DEF AddFile, RemoveFile, WriteFails, WorkerPCs
  <2>6. CASE AddRecord(w) \/ RemoveRecord(w) \/ DeleteFiles(w)
    BY <2>3, <2>6 DEF AddRecord, RemoveRecord, DeleteFiles
  <2> QED
    BY <2>4, <2>5, <2>6
<1>4. stored' \in [Drafts -> SUBSET Files]
  BY <1>2 DEF AddCheck, RemoveCheck, DeleteRow, AddFile, AddRecord, RemoveFile, RemoveRecord,
              DeleteFiles, WriteFails, DropFile, disk, TypeOK
<1>5. CASE \E d \in Drafts : DeleteRow(w, d)
  <2>1. PICK d \in Drafts : status' = [status EXCEPT ![d] = "deleted"] /\ records' = [records EXCEPT ![d] = {}]
    BY <1>5 DEF DeleteRow, Cascade
  <2>2. /\ status' \in [Drafts -> {"none", "draft", "sending", "sent", "failed", "deleted"}]
        /\ records' \in [Drafts -> SUBSET Files]
    BY <2>1 DEF TypeOK
  <2>3. \A e \in Drafts : ~InTable(e)' => records'[e] = {}
    BY <2>1 DEF TypeOK, InTable
  <2> QED
    BY <1>1, <1>3, <1>4, <2>2, <2>3 DEF TypeOK
<1>6. CASE ~\E d \in Drafts : DeleteRow(w, d)
  <2>1. UNCHANGED status
    BY <1>6 DEF AddCheck, RemoveCheck, AddFile, AddRecord, RemoveFile, RemoveRecord, DeleteFiles, row
  <2>2. /\ records' \in [Drafts -> SUBSET Files]
        /\ \A e \in Drafts : ~InTable(e) => records'[e] = {}
    BY <1>2, <1>6 DEF AddCheck, RemoveCheck, AddFile, AddRecord, RemoveFile, RemoveRecord,
                      DeleteFiles, disk, TypeOK
  <2> QED
    BY <1>1, <1>3, <1>4, <2>1, <2>2 DEF TypeOK, InTable
<1> QED
  BY <1>5, <1>6

LEMMA CrashType == ASSUME TypeOK, Crash PROVE TypeOK'
<1>1. /\ sender' \in [Senders -> SenderRecord] /\ worker' \in [Workers -> WorkerRecord]
      /\ active' \subseteq Drafts
  BY IdleType DEF Crash
<1>2. crashes' \in Nat /\ faults + crashes' <= MaxMishaps
  BY BoundsAssumption DEF Crash, MishapsLeft, TypeOK
<1> QED
  BY <1>1, <1>2 DEF Crash, TypeOK, row, disk, mailbox, InTable

LEMMA TypeStep == ASSUME TypeOK, SendInv, FileInv, [Next]_vars PROVE TypeOK'
<1>1. ASSUME UNCHANGED vars PROVE TypeOK'
  BY <1>1 DEF vars, row, disk, mailbox, counters, TypeOK, InTable
<1> QED
  BY <1>1, SavingType, SenderType, TransmitType, ClearType, WorkerType, CrashType DEF Next, SendStep

-----------------------------------------------------------------------------
(* Theorems *)

LEMMA InitInv == ASSUME Init PROVE TypeOK /\ SendInv /\ FileInv
<1>1. TypeOK
  BY BoundsAssumption, IdleType DEF Init, TypeOK, InTable
<1>2. /\ \A r \in Senders : sender[r] = IdleSender /\ sender[r].pc = "idle" /\ sender[r].draft = NoDraft
      /\ \A w \in Workers : worker[w] = IdleWorker /\ worker[w].pc = "idle"
      /\ \A d \in Drafts : /\ status[d] = "none" /\ copies[d] = 0
                           /\ records[d] = {} /\ stored[d] = {}
      /\ sends = 0 /\ faults = 0 /\ crashes = 0
  BY DEF Init, IdleSender, IdleWorker
<1>3. \A r \in Senders, d \in Drafts : \A pcs : ~At(r, d, pcs)
  BY <1>2, NamesAssumption DEF At
<1>4. SendInv
  BY <1>2, <1>3
  DEF SendInv, OneSenderPerDraft, RowIsFrozen, SentIsWhatWasAccepted, CopiesArePaid, CopiesAreAsked,
      SendingIsHeld
<1>5. FileInv
  BY <1>2
  DEF FileInv, AdderIsAlone, Adding, WorkersKnowTheirs, MissingFilesAreRemoved, ExtraFilesAreHeld
<1> QED
  BY <1>1, <1>4, <1>5

\* The inductive invariant: the type, what holds of rows, requests to send and
\* mailbox, and what holds of rows and files of attachments.
THEOREM Invariant == Spec => [](TypeOK /\ SendInv /\ FileInv)
<1>1. TypeOK /\ SendInv /\ FileInv /\ [Next]_vars => (TypeOK /\ SendInv /\ FileInv)'
  BY TypeStep, SendInvStep, FileInvStep
<1> QED
  BY InitInv, <1>1, PTL DEF Spec

\* The variables keep their types; there are no attachment rows without a draft.
THEOREM TypeCorrect == Spec => []TypeOK
  BY Invariant, PTL

\* What is shown as sent was accepted by the mail server under the row's key and
\* with the row's text.
THEOREM SentAlwaysWasAccepted == Spec => []SentIsWhatWasAccepted
<1>1. SendInv => SentIsWhatWasAccepted
  BY DEF SendInv
<1> QED
  BY Invariant, <1>1, PTL

\* A second copy of a draft is paid for with a lost answer, a failed statement
\* or a crash.
THEOREM OneCopyUnlessFaultAlways == Spec => []OneCopyUnlessFault
<1>1. TypeOK /\ SendInv => OneCopyUnlessFault
  <2> SUFFICES ASSUME TypeOK, SendInv, NEW d \in Drafts
               PROVE  copies[d] <= 1 + faults + crashes
    BY DEF OneCopyUnlessFault
  <2>1. copies[d] \in Nat /\ faults \in Nat /\ crashes \in Nat
    BY BoundsAssumption DEF TypeOK
  <2> QED
    BY <2>1 DEF SendInv, CopiesArePaid
<1> QED
  BY Invariant, <1>1, PTL

\* Without a mishap no draft is left "sending" after its request ended.
THEOREM SendingAlwaysHasSender == Spec => []SendingHasSender
<1>1. SendInv => SendingHasSender
  BY DEF SendInv, SendingIsHeld, SendingHasSender, At
<1> QED
  BY Invariant, <1>1, PTL

\* Without a crash a draft that can be sent has the file of each attachment row
\* that is not being removed.
THEOREM RowsAlwaysHaveFiles == Spec => []RowsHaveFiles
<1>1. FileInv => RowsHaveFiles
  <2> SUFFICES ASSUME FileInv, crashes = 0, NEW d \in Drafts, status[d] \in Editable \cup {"sending"},
                      NEW f \in records[d] \ stored[d]
               PROVE  \E w \in Workers : worker[w].file = f
    BY DEF RowsHaveFiles
  <2>1. PICK w \in Workers : worker[w] = [pc |-> "removeRecord", draft |-> d, file |-> f]
    BY DEF FileInv, MissingFilesAreRemoved
  <2>2. worker[w].file = f
    BY <2>1
  <2> QED
    BY <2>2
<1> QED
  BY Invariant, <1>1, PTL

\* Without a crash a file without a row belongs to a draft that some request
\* works on.
THEOREM NeverOrphanFiles == Spec => []NoOrphanFiles
<1>1. FileInv => NoOrphanFiles
  <2> SUFFICES ASSUME FileInv, crashes = 0, NEW d \in Drafts, NEW f \in stored[d] \ records[d]
               PROVE  \/ \E w \in Workers : worker[w].draft = d
                      \/ \E r \in Senders : sender[r].draft = d
    BY DEF NoOrphanFiles
  <2>1. CASE \E r \in Senders : At(r, d, {"clearFiles"})
    BY <2>1 DEF At
  <2>2. CASE \E w \in Workers : worker[w].pc = "deleteFiles" /\ worker[w].draft = d
    BY <2>2
  <2>3. ASSUME NEW w \in Workers, worker[w] = [pc |-> "addRecord", draft |-> d, file |-> f]
        PROVE  worker[w].draft = d
    BY <2>3
  <2> QED
    BY <2>1, <2>2, <2>3 DEF FileInv, ExtraFilesAreHeld
<1> QED
  BY Invariant, <1>1, PTL
=============================================================================
