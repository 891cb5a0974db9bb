------------------------------ MODULE DraftSend -----------------------------
(***************************************************************************)
(* Mail drafts and their way through SMTP: edits, attachments, deletion,   *)
(* the send request with its confirmation key, and a crash in between.     *)
(* Sources: mail-draft-repository.ts, mail-send-service.ts and             *)
(* mail-draft-attachment-service.ts under src/apps/web/src/server.         *)
(*                                                                         *)
(* One action is what runs between two awaits that reach the database, the *)
(* disk or the mail server.  The text of a draft is the number of its last *)
(* edit; an attachment is a row of mail_draft_attachments and a file.      *)
(***************************************************************************)
EXTENDS Naturals, FiniteSets

CONSTANTS
    Drafts,        \* ids of drafts
    NoDraft,
    Keys,          \* idempotency keys of send confirmations
    NoKey,         \* the NULL key
    Files,         \* attachments: the id names both the row and the file
    NoFile,
    Senders,       \* concurrent POSTs on /api/mail-drafts/[draftId]/send
    Workers,       \* concurrent requests on attachments, and deletions
    MaxFiles,      \* MAX_MAIL_ATTACHMENTS
    MaxEdits,      \* bound: saves per draft
    MaxSends,      \* bound: send requests
    MaxMishaps     \* bound: lost SMTP answers, failing statements and crashes

ASSUME NamesAssumption ==
    NoDraft \notin Drafts /\ NoKey \notin Keys /\ NoFile \notin Files
ASSUME BoundsAssumption ==
    /\ MaxFiles \in Nat
    /\ MaxEdits \in Nat
    /\ MaxSends \in Nat
    /\ MaxMishaps \in Nat

VARIABLES
    status,        \* column status; "none" and "deleted" are no row
    key,           \* column idempotency_key
    text,          \* the number of the edit the row holds
    records,       \* rows of mail_draft_attachments, per draft
    stored,        \* files in the draft's attachment directory
    active,        \* globalThis.kalenderActiveMailSends
    sender,        \* the send requests in flight
    worker,        \* the other requests in flight
    mails,         \* history: what the mail server accepted
    copies,        \* history: how often it accepted the draft
    sends, faults, crashes  \* counters of the bounds

row      == <<status, key, text>>
disk     == <<records, stored>>
mailbox  == <<mails, copies>>
counters == <<sends, faults, crashes>>
vars     == <<row, disk, active, sender, worker, mailbox, counters>>

Editable == {"draft", "failed"}
InTable(d) == status[d] \notin {"none", "deleted"}

\* A further answer may be lost, statement fail, or server die.
MishapsLeft == faults + crashes < MaxMishaps

IdleSender == [pc |-> "idle", draft |-> NoDraft, key |-> NoKey, text |-> 0,
               files |-> {}]
IdleWorker == [pc |-> "idle", draft |-> NoDraft, file |-> NoFile]

Init ==
    /\ status  = [d \in Drafts |-> "none"]
    /\ key     = [d \in Drafts |-> NoKey]
    /\ text    = [d \in Drafts |-> 0]
    /\ records = [d \in Drafts |-> {}]
    /\ stored  = [d \in Drafts |-> {}]
    /\ active  = {}
    /\ sender  = [r \in Senders |-> IdleSender]
    /\ worker  = [w \in Workers |-> IdleWorker]
    /\ mails   = {}
    /\ copies  = [d \in Drafts |-> 0]
    /\ sends = 0
    /\ faults = 0
    /\ crashes = 0

-----------------------------------------------------------------------------
(* Saving *)

\* saveMailDraft without an id.
Create(d) ==
    /\ status[d] = "none"
    /\ status' = [status EXCEPT ![d] = "draft"]
    /\ UNCHANGED <<key, text, disk, active, sender, worker, mailbox, counters>>

Savable(d) == InTable(d) /\ status[d] \notin {"sending", "sent"}

\* saveMailDraft with an id: whatever was read before, the UPDATE decides.
Save(d) ==
    /\ Savable(d)
    /\ text[d] < MaxEdits
    /\ text'   = [text EXCEPT ![d] = @ + 1]
    /\ status' = [status EXCEPT ![d] = "draft"]
    /\ key'    = [key EXCEPT ![d] = NoKey]
    /\ UNCHANGED <<disk, active, sender, worker, mailbox, counters>>

-----------------------------------------------------------------------------
(* sendMailDraft *)

BusyNever(d) == FALSE
Busy(d) == d \in active

\* The request is taken unless this process already sends the draft.
Request(r, d, k) ==
    /\ sender[r].pc = "idle"
    /\ sends < MaxSends
    /\ ~Busy(d)
    /\ active' = active \cup {d}
    /\ sender' = [sender EXCEPT ![r] =
          [pc |-> "read", draft |-> d, key |-> k, text |-> 0, files |-> {}]]
    /\ sends' = sends + 1
    /\ UNCHANGED <<row, disk, worker, mailbox, faults, crashes>>

Goto(r, pc) == sender' = [sender EXCEPT ![r].pc = pc]

\* The checks of beginMailDraftSend on the row it read.
SendableAgain(d) == status[d] \in Editable \cup {"sent"}
Sendable(d) == status[d] \in Editable

Read(r) ==
    LET d == sender[r].draft IN
    /\ sender[r].pc = "read"
    /\ \/ Sendable(d) /\ Goto(r, "claim")
       \/ status[d] = "sent" /\ key[d] = sender[r].key /\ Goto(r, "release")
       \/ ~Sendable(d) /\ ~(status[d] = "sent" /\ key[d] = sender[r].key)
              /\ Goto(r, "fail")
    /\ UNCHANGED <<row, disk, active, worker, mailbox, counters>>

\* The key belongs to another draft: found by the SELECT, or by the unique
\* index when the UPDATE is made.
KeyTaken(d, k) == \E e \in Drafts \ {d} : InTable(e) /\ key[e] = k

\* The UPDATE of beginMailDraftSend names the row by its id only.
Claim(r) ==
    LET d == sender[r].draft IN
    /\ sender[r].pc = "claim"
    /\ \/ /\ KeyTaken(d, sender[r].key)
          /\ Goto(r, "fail")
          /\ UNCHANGED row
       \/ /\ ~KeyTaken(d, sender[r].key)
          /\ Goto(r, "load")
          /\ status' = [status EXCEPT ![d] = IF InTable(d) THEN "sending" ELSE @]
          /\ key'    = [key EXCEPT ![d] = IF InTable(d) THEN sender[r].key ELSE @]
          /\ UNCHANGED text
    /\ UNCHANGED <<disk, active, worker, mailbox, counters>>

\* The row is read again and the account is checked: paused, or missing, or
\* the draft cannot be sent as it is.
Load(r) ==
    LET d == sender[r].draft IN
    /\ sender[r].pc = "load"
    /\ \/ /\ InTable(d)
          /\ sender' = [sender EXCEPT ![r].pc = "list", ![r].text = text[d]]
       \/ Goto(r, "fail")
    /\ UNCHANGED <<row, disk, active, worker, mailbox, counters>>

List(r) ==
    /\ sender[r].pc = "list"
    /\ sender' = [sender EXCEPT ![r].pc = "transmit",
                                ![r].files = records[sender[r].draft]]
    /\ UNCHANGED <<row, disk, active, worker, mailbox, counters>>

Accept(r) ==
    LET d == sender[r].draft IN
    /\ sender[r].files \subseteq stored[d]
    /\ mails'  = mails \cup {[draft |-> d, key |-> sender[r].key, text |-> sender[r].text,
                              files |-> sender[r].files, number |-> copies[d] + 1]}
    /\ copies' = [copies EXCEPT ![d] = @ + 1]

\* transport.sendMail: accepted; accepted and the answer is lost; refused, or
\* the file of an attachment cannot be read.
Transmit(r) ==
    /\ sender[r].pc = "transmit"
    /\ \/ Accept(r) /\ Goto(r, "finish") /\ UNCHANGED faults
       \/ /\ Accept(r)
          /\ Goto(r, "fail")
          /\ MishapsLeft
          /\ faults' = faults + 1
       \/ Goto(r, "fail") /\ UNCHANGED <<mailbox, faults>>
    /\ UNCHANGED <<row, disk, active, worker, sends, crashes>>

\* finishMailDraftSend; when its UPDATE fails the draft counts as not sent.
Finish(r) ==
    LET d == sender[r].draft IN
    /\ sender[r].pc = "finish"
    /\ \/ /\ status' = [status EXCEPT ![d] = IF InTable(d) THEN "sent" ELSE @]
          /\ Goto(r, "clearRecords")
          /\ UNCHANGED faults
       \/ /\ MishapsLeft
          /\ faults' = faults + 1
          /\ Goto(r, "fail")
          /\ UNCHANGED status
    /\ UNCHANGED <<key, text, disk, active, worker, mailbox, sends, crashes>>

\* clearMailDraftAttachmentFiles: the rows, then the directory.
ClearRecords(r) ==
    /\ sender[r].pc = "clearRecords"
    /\ records' = [records EXCEPT ![sender[r].draft] = {}]
    /\ Goto(r, "clearFiles")
    /\ UNCHANGED <<row, stored, active, worker, mailbox, counters>>

ClearFiles(r) ==
    /\ sender[r].pc = "clearFiles"
    /\ stored' = [stored EXCEPT ![sender[r].draft] = {}]
    /\ Goto(r, "release")
    /\ UNCHANGED <<row, records, active, worker, mailbox, counters>>

\* failMailDraftSend: only a row that is being sent fails.
FailsNever(d) == FALSE
Fails(d) == status[d] = "sending"

Fail(r) ==
    LET d == sender[r].draft IN
    /\ sender[r].pc = "fail"
    /\ \/ /\ status' = [status EXCEPT ![d] = IF Fails(d) THEN "failed" ELSE @]
          /\ UNCHANGED faults
       \/ /\ MishapsLeft
          /\ faults' = faults + 1
          /\ UNCHANGED status
    /\ Goto(r, "release")
    /\ UNCHANGED <<key, text, disk, active, worker, mailbox, sends, crashes>>

\* finally: active.delete(draftId); the request is answered.
Release(r) ==
    /\ sender[r].pc = "release"
    /\ active' = active \ {sender[r].draft}
    /\ sender' = [sender EXCEPT ![r] = IdleSender]
    /\ UNCHANGED <<row, disk, worker, mailbox, counters>>

SendStep(r) ==
    \/ Read(r)
    \/ Claim(r)
    \/ Load(r)
    \/ List(r)
    \/ Transmit(r)
    \/ Finish(r)
    \/ ClearRecords(r)
    \/ ClearFiles(r)
    \/ Fail(r)
    \/ Release(r)

-----------------------------------------------------------------------------
(* Attachments and deletion *)

Begins(w, pc, d, f) ==
    worker' = [worker EXCEPT ![w] = [pc |-> pc, draft |-> d, file |-> f]]
Ends(w) == worker' = [worker EXCEPT ![w] = IdleWorker]

\* addMailDraftAttachments (one file): the checks, the file, the row.
AddCheck(w, d, f) ==
    /\ worker[w].pc = "idle"
    /\ status[d] \in Editable
    /\ Cardinality(records[d]) + 1 <= MaxFiles
    /\ f \notin UNION {records[e] \cup stored[e] : e \in Drafts}
    /\ \A v \in Workers : worker[v].file # f
    /\ Begins(w, "addFile", d, f)
    /\ UNCHANGED <<row, disk, active, sender, mailbox, counters>>

\* The write fails when the directory was removed meanwhile, or the disk is full:
\* the request ends there.
WriteIgnored(w) == UNCHANGED stored /\ worker' = [worker EXCEPT ![w].pc = "addRecord"]
WriteFails(w) == UNCHANGED stored /\ Ends(w)

AddFile(w) ==
    /\ worker[w].pc = "addFile"
    /\ \/ /\ stored' = [stored EXCEPT ![worker[w].draft] = @ \cup {worker[w].file}]
          /\ worker' = [worker EXCEPT ![w].pc = "addRecord"]
       \/ WriteFails(w)
    /\ UNCHANGED <<row, records, active, sender, mailbox, counters>>

\* Without the draft the foreign key refuses the row, and the file goes.
KeepFile(d, f) == stored' = stored
DropFile(d, f) == stored' = [stored EXCEPT ![d] = @ \ {f}]

AddRecord(w) ==
    LET d == worker[w].draft IN
    /\ worker[w].pc = "addRecord"
    /\ \/ /\ InTable(d)
          /\ records' = [records EXCEPT ![d] = @ \cup {worker[w].file}]
          /\ UNCHANGED stored
       \/ /\ ~InTable(d)
          /\ DropFile(d, worker[w].file)
          /\ UNCHANGED records
    /\ Ends(w)
    /\ UNCHANGED <<row, active, sender, mailbox, counters>>

\* removeMailDraftAttachment: the checks, the file, the row.
RemoveCheck(w, d, f) ==
    /\ worker[w].pc = "idle"
    /\ status[d] \in Editable
    /\ f \in records[d]
    /\ Begins(w, "removeFile", d, f)
    /\ UNCHANGED <<row, disk, active, sender, mailbox, counters>>

RemoveFile(w) ==
    /\ worker[w].pc = "removeFile"
    /\ stored' = [stored EXCEPT ![worker[w].draft] = @ \ {worker[w].file}]
    /\ worker' = [worker EXCEPT ![w].pc = "removeRecord"]
    /\ UNCHANGED <<row, records, active, sender, mailbox, counters>>

RemoveRecord(w) ==
    /\ worker[w].pc = "removeRecord"
    /\ records' = [records EXCEPT ![worker[w].draft] = @ \ {worker[w].file}]
    /\ Ends(w)
    /\ UNCHANGED <<row, stored, active, sender, mailbox, counters>>

Deletable(d) == status[d] \in Editable

\* The foreign key of mail_draft_attachments cascades.
Cascade(d) == records' = [records EXCEPT ![d] = {}]

\* deleteMailDraft, then the directory.
DeleteRow(w, d) ==
    /\ worker[w].pc = "idle"
    /\ Deletable(d)
    /\ status'  = [status EXCEPT ![d] = "deleted"]
    /\ Cascade(d)
    /\ Begins(w, "deleteFiles", d, NoFile)
    /\ UNCHANGED <<key, text, stored, active, sender, mailbox, counters>>

DeleteFiles(w) ==
    /\ worker[w].pc = "deleteFiles"
    /\ stored' = [stored EXCEPT ![worker[w].draft] = {}]
    /\ Ends(w)
    /\ UNCHANGED <<row, records, active, sender, mailbox, counters>>

WorkStep(w) ==
    \/ AddFile(w)
    \/ AddRecord(w)
    \/ RemoveFile(w)
    \/ RemoveRecord(w)
    \/ DeleteFiles(w)

-----------------------------------------------------------------------------
\* The server dies and starts again: nothing looks at rows left "sending".
Crash ==
    /\ MishapsLeft
    /\ crashes' = crashes + 1
    /\ active' = {}
    /\ sender' = [r \in Senders |-> IdleSender]
    /\ worker' = [w \in Workers |-> IdleWorker]
    /\ UNCHANGED <<row, disk, mailbox, sends, faults>>

Next ==
    \/ \E d \in Drafts : Create(d) \/ Save(d)
    \/ \E r \in Senders :
          \/ \E d \in Drafts, k \in Keys : Request(r, d, k)
          \/ SendStep(r)
    \/ \E w \in Workers :
          \/ \E d \in Drafts, f \in Files : AddCheck(w, d, f) \/ RemoveCheck(w, d, f)
          \/ \E d \in Drafts : DeleteRow(w, d)
          \/ WorkStep(w)
    \/ Crash

Spec == Init /\ [][Next]_vars

-----------------------------------------------------------------------------
(* Properties *)

SenderPCs == {"idle", "read", "claim", "load", "list", "transmit", "finish",
              "clearRecords", "clearFiles", "fail", "release"}
WorkerPCs == {"idle", "addFile", "addRecord", "removeFile", "removeRecord",
              "deleteFiles"}

SenderRecord == [pc : SenderPCs, draft : Drafts \cup {NoDraft}, key : Keys \cup {NoKey},
                 text : 0..MaxEdits, files : SUBSET Files]
WorkerRecord == [pc : WorkerPCs, draft : Drafts \cup {NoDraft}, file : Files \cup {NoFile}]
MailRecord == [draft : Drafts, key : Keys, text : 0..MaxEdits, files : SUBSET Files,
               number : 1..MaxSends]

\* The variables keep their types; there are no attachment rows without a draft.
TypeOK ==
    /\ status \in [Drafts -> {"none", "draft", "sending", "sent", "failed", "deleted"}]
    /\ key \in [Drafts -> Keys \cup {NoKey}]
    /\ text \in [Drafts -> 0..MaxEdits]
    /\ records \in [Drafts -> SUBSET Files]
    /\ stored \in [Drafts -> SUBSET Files]
    /\ active \subseteq Drafts
    /\ sender \in [Senders -> SenderRecord]
    /\ worker \in [Workers -> WorkerRecord]
    /\ mails \subseteq MailRecord
    /\ copies \in [Drafts -> 0..MaxSends]
    /\ sends \in 0..MaxSends
    /\ faults \in Nat /\ crashes \in Nat /\ faults + crashes <= MaxMishaps
    /\ \A d \in Drafts : ~InTable(d) => records[d] = {}

\* A draft shown as sent was accepted by the mail server under the key the row
\* names and with the text the row shows: no edit, second confirmation or
\* retry slips in between the claim, the transmission and the final UPDATE.
SentIsWhatWasAccepted ==
    \A d \in Drafts : status[d] = "sent" =>
        \E m \in mails : m.draft = d /\ m.key = key[d] /\ m.text = text[d]

\* However often the user confirms, edits and confirms again, the mail server
\* gets a further copy only if an answer or a statement was lost or the server
\* died.
OneCopyUnlessFault ==
    \A d \in Drafts : copies[d] <= 1 + faults + crashes

\* Without a crash or a lost statement a draft is "sending" only while a request
\* sends it, so it is never left locked against edits, deletion and sending.
SendingHasSender ==
    crashes = 0 /\ faults = 0 =>
        \A d \in Drafts : status[d] = "sending" =>
            \E r \in Senders : sender[r].draft = d

\* A draft that can still be sent has the file of each attachment row, unless a
\* removal is between the file and the row.
RowsHaveFiles ==
    crashes = 0 =>
        \A d \in Drafts : status[d] \in Editable \cup {"sending"} =>
            \A f \in records[d] \ stored[d] :
                \E w \in Workers : worker[w].file = f

\* Files without a row exist only while some request works on the draft: an add
\* that races the deletion or the sending of the draft leaves none behind.
NoOrphanFiles ==
    crashes = 0 =>
        \A d \in Drafts :
            \/ stored[d] \subseteq records[d]
            \/ \E w \in Workers : worker[w].draft = d
            \/ \E r \in Senders : sender[r].draft = d

-----------------------------------------------------------------------------
(* What the properties above rest on *)

\* The requests to send that are before, at, or behind a point of sendMailDraft.
At(r, d, pcs) == sender[r].draft = d /\ sender[r].pc \in pcs

\* A draft in flight is registered as active, so no other request sends it.
OneSenderPerDraft ==
    /\ \A r \in Senders :
          IF sender[r].pc = "idle" THEN sender[r] = IdleSender
          ELSE sender[r].draft \in active /\ sender[r].key \in Keys
    /\ \A r, s \in Senders :
          sender[r].pc # "idle" /\ sender[s].draft = sender[r].draft => r = s

\* From the claim to the final UPDATE nobody else changes the row.
RowIsFrozen ==
    \A r \in Senders, d \in Drafts :
        /\ At(r, d, {"claim"}) => status[d] \in Editable \cup {"deleted"}
        /\ At(r, d, {"load"}) =>
              status[d] = "deleted" \/ (status[d] = "sending" /\ key[d] = sender[r].key)
        /\ At(r, d, {"list", "transmit", "finish"}) =>
              status[d] = "sending" /\ key[d] = sender[r].key /\ text[d] = sender[r].text
        /\ At(r, d, {"finish"}) =>
              \E m \in mails : m.draft = d /\ m.key = key[d] /\ m.text = text[d]
        /\ At(r, d, {"clearRecords", "clearFiles"}) => status[d] = "sent"

\* One copy is free for a draft that is sent, or about to be marked so; each
\* further one was paid for with a mishap.
CopiesArePaid ==
    \A d \in Drafts :
        \/ copies[d] <= faults + crashes
        \/ /\ copies[d] <= 1 + faults + crashes
           /\ status[d] = "sent" \/ \E r \in Senders : At(r, d, {"finish"})

\* A request makes one copy.
CopiesAreAsked ==
    \A d \in Drafts :
        /\ copies[d] <= sends
        /\ (\E r \in Senders : At(r, d, {"read", "claim", "load", "list", "transmit"})) =>
              copies[d] < sends

SendingIsHeld ==
    crashes = 0 /\ faults = 0 =>
        \A d \in Drafts : status[d] = "sending" =>
            \E r \in Senders : At(r, d, {"load", "list", "transmit", "finish", "fail"})

Adding(w) == worker[w].pc \in {"addFile", "addRecord"}

\* A file is nobody else's while it is added, and stays until its row is there
\* unless the draft was sent or deleted.
AdderIsAlone ==
    \A w \in Workers :
        LET d == worker[w].draft
            f == worker[w].file
        IN  Adding(w) =>
              /\ status[d] # "none"
              /\ \A v \in Workers : worker[v].file = f => v = w
              /\ \A e \in Drafts : f \notin records[e]
              /\ worker[w].pc = "addFile" => \A e \in Drafts : f \notin stored[e]
              /\ worker[w].pc = "addRecord" /\ status[d] \in Editable \cup {"sending"} =>
                    f \in stored[d]

\* Other requests name their draft and their attachment; a file is gone before
\* its row, and a draft before its directory.
WorkersKnowTheirs ==
    \A w \in Workers :
        /\ worker[w].pc = "idle" => worker[w] = IdleWorker
        /\ worker[w].pc # "idle" => worker[w].draft \in Drafts
        /\ worker[w].pc \notin {"idle", "deleteFiles"} => worker[w].file \in Files
        /\ worker[w].pc = "removeRecord" => worker[w].file \notin stored[worker[w].draft]
        /\ worker[w].pc = "deleteFiles" => status[worker[w].draft] = "deleted"

MissingFilesAreRemoved ==
    crashes = 0 =>
        \A d \in Drafts : status[d] \in Editable \cup {"sending"} =>
            \A f \in records[d] \ stored[d] : \E w \in Workers :
                worker[w] = [pc |-> "removeRecord", draft |-> d, file |-> f]

ExtraFilesAreHeld ==
    crashes = 0 =>
        \A d \in Drafts : \A f \in stored[d] \ records[d] :
            \/ \E w \in Workers :
                  \/ worker[w] = [pc |-> "addRecord", draft |-> d, file |-> f]
                  \/ worker[w].pc = "deleteFiles" /\ worker[w].draft = d
            \/ \E r \in Senders : At(r, d, {"clearFiles"})

\* The inductive invariant: of the row and its sender, and of the files.
SendInv ==
    /\ OneSenderPerDraft
    /\ RowIsFrozen
    /\ SentIsWhatWasAccepted
    /\ CopiesArePaid
    /\ CopiesAreAsked
    /\ SendingIsHeld

FileInv ==
    /\ AdderIsAlone
    /\ WorkersKnowTheirs
    /\ MissingFilesAreRemoved
    /\ ExtraFilesAreHeld
=============================================================================
