---------------------------- MODULE ExchangeDraft ----------------------------
(***************************************************************************)
(* One draft kept twice, in table mail_drafts and in the drafts folder of  *)
(* an Exchange mailbox, and what keeps the two alike: pushes, pulls, the   *)
(* choice between two versions, deletions and the sending of the Exchange  *)
(* copy (exchange-draft-sync.ts, saveExchangeMailDraft of exchange-mail.ts *)
(* and the Exchange branch of sendMailDraft).                              *)
(*                                                                         *)
(* The content of a draft is the set of the edits it holds.  Rows that     *)
(* stand for the item one after the other have the ids 1, 2, ...           *)
(* The Exchange server is external: it keeps one item, gives it a new      *)
(* change key with every change, and refuses an update, an attachment or   *)
(* a sending that names an old one.                                        *)
(***************************************************************************)
EXTENDS Naturals, FiniteSets

CONSTANTS
    Here,       \* what the user writes in this program, once each
    There,      \* what the user writes in Outlook, once each
    Files,      \* the edits that attach a file
    Runners,    \* requests and synchronisations under way at the same time
    MaxKey,     \* bound: changes of the item in the mailbox
    MaxTwists   \* bound: lost or refused calls, crashes, choices, deletions

Edits == Here \cup There

ASSUME EditsAssumption == Files \subseteq Edits

VARIABLES
    local,      \* the row of mail_drafts: id, status, content; a deleted row
                \* has the status "none"
    link,       \* the row of exchange_draft_links: change_key, local_revision
    claims,     \* the ids in exchange_draft_creates
    remote,     \* the item: state, key, content, DaylineDraftId
    active,     \* kalenderExchangeDraftSyncs; 0 is the key "remote:..."
    run,        \* the runners
    twists,     \* calls that failed, crashes, choices and deletions so far
    created,    \* history: how often CreateItem took effect, per id
    sent,       \* history: <<what the user confirmed, what was sent>>
    made,       \* history: the edits made
    settled,    \* history: edits sent, or given up by a decision of the user
    unseen,     \* history: edits that came between the writes of one push
    exposed     \* history: edits made between the check and the deletion of
                \* AskDrop, or replaced while the link calls the draft alike

tables == <<local, link, claims>>
history == <<created, sent, made, settled, unseen, exposed>>
vars == <<tables, remote, active, run, twists, history>>

Ids == 1..2             \* bound: the row is imported anew once
NoLink == [key |-> 0, sure |-> FALSE, rev |-> {}]
LinkOf(key, content) == [key |-> key, sure |-> TRUE, rev |-> content]
\* The local revision is "": the user has to choose before anything is written.
UnsureLink(key) == [key |-> key, sure |-> FALSE, rev |-> {}]
Unsure(l) == l # NoLink /\ ~l.sure
IsRevision(content, l) == l.sure /\ content = l.rev
Idle == [job |-> "none", pc |-> "idle", id |-> 0, link |-> NoLink, key |-> 0,
         confirmed |-> {}, seen |-> {}, got |-> {}]

NoRow == [id |-> 0, status |-> "none", content |-> {}]
NoItem == [state |-> "none", key |-> 0, content |-> {}, tag |-> 0]

\* The draft begins here, or in Outlook.
Init ==
    /\ \/ local = [id |-> 1, status |-> "draft", content |-> {}] /\ remote = NoItem
       \/ local = NoRow /\ remote = [NoItem EXCEPT !.state = "draft", !.key = 1]
    /\ link = NoLink
    /\ claims = {}
    /\ active = {}
    /\ run = [r \in Runners |-> Idle]
    /\ twists = 0
    /\ created = [i \in Ids |-> 0]
    /\ sent = {}
    /\ made = {}
    /\ settled = {}
    /\ unseen = {}
    /\ exposed = {}

-----------------------------------------------------------------------------
\* A call fails, the server dies, or the user decides.
Twist == twists < MaxTwists /\ twists' = twists + 1

\* Every change of the item gives it a new key.
NewKey == remote.key + 1
Changeable == remote.key < MaxKey

Row(i) == local.status # "none" /\ local.id = i
Editable == local.status \in {"draft", "failed"}
Overwrites(r) == run[r].job \in {"keep", "reload"}
Pushing(r) == run[r].job \in {"push", "keep", "send"}
At(r, step) == run[r].pc = step
GoTo(r, step) == run' = [run EXCEPT ![r].pc = step]

\* A runner is done.  A send that failed marks its draft.
Leave(r) ==
    /\ run' = [run EXCEPT ![r] = Idle]
    /\ local' = IF run[r].job = "send" /\ Row(run[r].id) /\ local.status = "sending"
                THEN [local EXCEPT !.status = "failed"] ELSE local

-----------------------------------------------------------------------------
(* The user and Outlook.                                                   *)

\* A runner of this server is between the check of a deletion and the
\* deletion, or between the writes of one push.
InGap(r) == At(r, "drop")
BetweenWrites(r) == At(r, "detach")

EditHere(e) ==
    /\ e \in Here \ made
    /\ Editable
    /\ local' = [local EXCEPT !.content = @ \cup {e}, !.status = "draft"]
    /\ made' = made \cup {e}
    /\ exposed' = IF \E r \in Runners : InGap(r) THEN exposed \cup {e} ELSE exposed
    /\ UNCHANGED <<link, claims, remote, active, run, twists, created, sent>>
    /\ UNCHANGED <<settled, unseen>>

EditInOutlook(e) ==
    /\ e \in There \ made
    /\ remote.state = "draft" /\ Changeable
    /\ remote' = [remote EXCEPT !.content = @ \cup {e}, !.key = NewKey]
    /\ made' = made \cup {e}
    /\ unseen' = IF \E r \in Runners : BetweenWrites(r) THEN unseen \cup {e} ELSE unseen
    /\ UNCHANGED <<tables, active, run, twists, created, sent, settled, exposed>>

\* The user deletes or sends the draft in Outlook.
LeaveDrafts ==
    /\ remote.state = "draft"
    /\ remote' = [remote EXCEPT !.state = "gone", !.content = {}]
    /\ settled' = settled \cup remote.content
    /\ UNCHANGED <<tables, active, run, twists, created, sent, made, unseen, exposed>>

-----------------------------------------------------------------------------
(* pushExchangeDraft.                                                      *)

Start(r, job, step) ==
    run' = [run EXCEPT ![r] = [Idle EXCEPT !.job = job, !.pc = step, !.id = local.id,
                                           !.seen = local.content]]

\* A saved draft, or one that pushPendingExchangeDrafts comes across.
AskPush(r) ==
    /\ At(r, "idle")
    /\ local.status \notin {"none", "sent"}
    /\ Start(r, "push", "lock")
    /\ UNCHANGED <<tables, remote, active, twists, history>>

\* The user keeps the local version.
KeepLocal(r) ==
    /\ At(r, "idle")
    /\ local.status \notin {"none", "sent"}
    /\ Twist
    /\ Start(r, "keep", "lock")
    /\ UNCHANGED <<tables, remote, active, history>>

\* beginMailDraftSend; what it returns is what the user confirmed.
BeginSend(r) ==
    /\ At(r, "idle")
    /\ Editable
    /\ \A s \in Runners : run[s].job # "send"
    /\ run' = [run EXCEPT ![r] = [Idle EXCEPT !.job = "send", !.pc = "read",
                                              !.id = local.id,
                                              !.confirmed = local.content]]
    /\ local' = [local EXCEPT !.status = "sending"]
    /\ UNCHANGED <<link, claims, remote, active, twists, history>>

ReadDraft(r) ==
    /\ At(r, "read")
    /\ run' = [run EXCEPT ![r].pc = "lock", ![r].seen = local.content]
    /\ UNCHANGED <<tables, remote, active, twists, history>>

\* The draft was read before.  Without the lock the push is refused.
Free(i) == i \notin active
Refused(r) ==
    /\ At(r, "lock") /\ Pushing(r)
    /\ ~Free(run[r].id)
    /\ Leave(r)
    /\ UNCHANGED <<link, claims, remote, active, twists, history>>

\* Without looking at Exchange: both are known to be alike.
KnownAlikeOnceLinked(r, l) == l.sure /\ ~Overwrites(r)
KnownAlike(r, l) == IsRevision(run[r].seen, l) /\ ~Overwrites(r)

LockPush(r) ==
    LET i == run[r].id
        l == IF Row(i) THEN link ELSE NoLink
        step == CASE l = NoLink /\ Row(i) /\ i \in claims -> "recover"
                  [] l = NoLink /\ ~(Row(i) /\ i \in claims) -> "claim"
                  [] l # NoLink -> "fetch"
    IN
    /\ At(r, "lock") /\ Pushing(r)
    /\ Free(i)
    /\ ~KnownAlike(r, l)
    /\ ~Unsure(l) \/ Overwrites(r)
    /\ active' = active \cup {i}
    /\ run' = [run EXCEPT ![r].pc = step, ![r].link = l]
    /\ UNCHANGED <<tables, remote, twists, history>>

\* Nothing to push, or a version to choose first.
PushEndsEarly(r) ==
    /\ At(r, "lock") /\ Pushing(r)
    /\ Free(run[r].id)
    /\ Row(run[r].id)
    /\ \/ /\ KnownAlike(r, link)
          /\ IF run[r].job = "send"
             THEN /\ run' = [run EXCEPT ![r].pc = "send", ![r].key = link.key,
                                        ![r].seen = {}]
                  /\ UNCHANGED local
             ELSE Leave(r)
       \/ Unsure(link) /\ ~Overwrites(r) /\ Leave(r)
    /\ UNCHANGED <<link, claims, remote, active, twists, history>>

\* Past the lock: every way out releases it.
Holds(r) == Pushing(r) \/ At(r, "commit")
Unlock(r) == active' = IF Holds(r) THEN active \ {run[r].id} ELSE active
Fail(r) == Leave(r) /\ Unlock(r)

\* The item is looked up and must be what the link says.
FetchRemote(r) ==
    /\ At(r, "fetch") /\ Pushing(r)
    /\ IF /\ remote.state = "draft"
          /\ Overwrites(r) \/ remote.key = run[r].link.key
       THEN /\ run' = [run EXCEPT ![r].pc = "update", ![r].key = remote.key,
                                  ![r].link = NoLink]
            /\ UNCHANGED <<local, active>>
       ELSE Fail(r)
    /\ UNCHANGED <<link, claims, remote, twists, history>>

Body(content) == content \ Files
FilesOf(content) == content \cap Files

\* What is left to do after the body was written.
StepAfter(r, attached) ==
    IF FilesOf(attached) # {} THEN "detach"
    ELSE IF FilesOf(run[r].seen) # {} THEN "attach" ELSE "confirm"

\* The link, or the link as a pull under way has read it, takes the draft for
\* synchronised while its item is rewritten by a push that read an older draft.
\* Should the push break off and the item be deleted in Outlook, AskDrop finds no
\* reason to keep the draft; nor does the pull to keep its content.
Breakable ==
    \/ IsRevision(local.content, link)
    \/ \E s \in Runners :
          /\ run[s].job = "pull" /\ At(s, "lock")
          /\ IsRevision(local.content, run[s].link)

\* UpdateItem.  The version it replaces is given up only by a choice.  The push
\* of a row that was deleted meanwhile may go on beside the push of the row
\* imported in its place: the lock is one of rows.
Update(r) ==
    LET old == remote.content
        written == Body(run[r].seen) \cup FilesOf(old)
    IN
    /\ At(r, "update") /\ Changeable
    /\ IF remote.state = "draft" /\ remote.key = run[r].key
       THEN /\ remote' = [remote EXCEPT !.content = written, !.key = NewKey]
            /\ settled' = IF Overwrites(r) THEN settled \cup old ELSE settled
            /\ exposed' = IF Breakable THEN exposed \cup old ELSE exposed
            /\ unseen' = IF \E s \in Runners : BetweenWrites(s)
                         THEN unseen \cup old \cup written ELSE unseen
            /\ run' = [run EXCEPT ![r].pc = StepAfter(r, old), ![r].key = NewKey,
                                  ![r].got = FilesOf(old)]
            /\ UNCHANGED <<local, active>>
       ELSE Fail(r) /\ UNCHANGED <<remote, settled, unseen, exposed>>
    /\ UNCHANGED <<link, claims, twists, created, sent, made>>

\* DeleteAttachment names the attachments, not the version of the item: what
\* it returns is the newest key.
Detach(r) ==
    /\ At(r, "detach") /\ Changeable
    /\ IF remote.state = "draft"
       THEN /\ remote' = [remote EXCEPT !.content = @ \ run[r].got, !.key = NewKey]
            /\ run' = [run EXCEPT ![r].pc = StepAfter(r, {}), ![r].key = NewKey,
                                  ![r].got = {}]
            /\ UNCHANGED <<local, active>>
       ELSE Fail(r) /\ UNCHANGED remote
    /\ UNCHANGED <<link, claims, twists, history>>

\* CreateAttachment names both.  A push of the row imported anew may be between
\* its writes: to it this is a change like one in Outlook.
Attach(r) ==
    LET added == FilesOf(run[r].seen) IN
    /\ At(r, "attach") /\ Changeable
    /\ IF remote.state = "draft" /\ remote.key = run[r].key
       THEN /\ remote' = [remote EXCEPT !.content = @ \cup added, !.key = NewKey]
            /\ unseen' = IF \E s \in Runners : BetweenWrites(s) THEN unseen \cup added
                         ELSE unseen
            /\ run' = [run EXCEPT ![r].pc = "confirm", ![r].key = NewKey]
            /\ UNCHANGED <<local, active>>
       ELSE Fail(r) /\ UNCHANGED <<remote, unseen>>
    /\ UNCHANGED <<link, claims, twists, created, sent, made, settled, exposed>>

\* Both sides are alike.
ConfirmReread(r) ==
    /\ At(r, "confirm")
    /\ IF Row(run[r].id)
       THEN /\ link' = LinkOf(run[r].key, local.content)
            /\ IF run[r].job = "send"
               THEN /\ run' = [run EXCEPT ![r].pc = "send", ![r].seen = {}]
                    /\ Unlock(r) /\ UNCHANGED local
               ELSE Fail(r)
       ELSE Fail(r) /\ UNCHANGED link
    /\ UNCHANGED <<claims, remote, twists, history>>

Confirm(r) ==
    /\ At(r, "confirm")
    /\ IF Row(run[r].id)
       THEN /\ link' = LinkOf(run[r].key, run[r].seen)
            /\ IF run[r].job = "send"
               THEN /\ run' = [run EXCEPT ![r].pc = "send", ![r].seen = {}]
                    /\ Unlock(r) /\ UNCHANGED local
               ELSE Fail(r)
       ELSE Fail(r) /\ UNCHANGED link
    /\ UNCHANGED <<claims, remote, twists, history>>

\* A call fails, or the answer to the one before it was lost.
CallFails(r) ==
    /\ run[r].pc \in {"fetch", "update", "detach", "attach", "confirm", "recover",
                     "load", "commit", "unmake", "forget"}
    /\ Twist
    /\ Fail(r)
    /\ UNCHANGED <<link, claims, remote, history>>

-----------------------------------------------------------------------------
(* The first push creates the item.                                        *)

\* The intent is recorded before the call.
ClaimNothing(r) ==
    /\ At(r, "claim")
    /\ GoTo(r, "create")
    /\ UNCHANGED <<tables, active, remote, twists, history>>

Claim(r) ==
    LET i == run[r].id IN
    /\ At(r, "claim")
    /\ IF Row(i) /\ i \notin claims
       THEN claims' = claims \cup {i} /\ GoTo(r, "create") /\ UNCHANGED <<local, active>>
       ELSE Fail(r) /\ UNCHANGED claims
    /\ UNCHANGED <<link, remote, twists, history>>

Create(r) ==
    LET i == run[r].id IN
    /\ At(r, "create")
    /\ remote' = [state |-> "draft", key |-> 1, content |-> Body(run[r].seen), tag |-> i]
    /\ created' = [created EXCEPT ![i] = @ + 1]
    /\ \/ /\ run' = [run EXCEPT ![r].pc = "link", ![r].key = 1]
          /\ UNCHANGED <<local, active, twists>>
       \/ Twist /\ Fail(r)
    /\ UNCHANGED <<link, claims, sent, made, settled, unseen, exposed>>

\* The call is refused for the credentials, or fails without effect.  Only
\* the first is known to be without effect.
CreateRefused(r) ==
    LET i == run[r].id IN
    /\ At(r, "create")
    /\ Twist
    /\ \/ claims' = IF Row(i) /\ link = NoLink THEN claims \ {i} ELSE claims
       \/ UNCHANGED claims
    /\ Fail(r)
    /\ UNCHANGED <<link, remote, history>>

\* onCreated saves the identity before any attachment is sent.
LinkCreated(r) ==
    /\ At(r, "link")
    /\ IF Row(run[r].id)
       THEN /\ link' = UnsureLink(run[r].key)
            /\ GoTo(r, StepAfter(r, {}))
            /\ UNCHANGED <<local, active>>
       ELSE Fail(r) /\ UNCHANGED link
    /\ UNCHANGED <<claims, remote, twists, history>>

\* recoverUncertainDraft asks Exchange for the item of this draft.
Found(i) == remote.state = "draft" /\ remote.tag = i
StepAfterRecovery(r) ==
    CASE run[r].job = "keep" -> "fetch" [] run[r].job = "reload" -> "load"
      [] run[r].job = "delete" -> "unmake"

Recover(r) ==
    LET i == run[r].id
        found == UnsureLink(remote.key)
    IN
    /\ At(r, "recover")
    /\ IF Found(i) /\ Row(i)
       THEN /\ link' = found
            /\ IF run[r].job \in {"push", "send"} THEN Fail(r)
               ELSE /\ run' = [run EXCEPT ![r].pc = StepAfterRecovery(r),
                                          ![r].link = found]
                    /\ UNCHANGED <<local, active>>
       ELSE Fail(r) /\ UNCHANGED link
    /\ UNCHANGED <<claims, remote, twists, history>>

-----------------------------------------------------------------------------
(* sendExchangeSavedDraft and finishMailDraftSend.                         *)

Send(r) ==
    /\ At(r, "send")
    /\ \/ /\ remote.state = "draft" /\ remote.key = run[r].key
          /\ remote' = [remote EXCEPT !.state = "gone", !.content = {}]
          /\ sent' = sent \cup {<<run[r].confirmed, remote.content>>}
          /\ settled' = settled \cup remote.content
          /\ \/ /\ run' = [run EXCEPT ![r] =
                       [Idle EXCEPT !.job = "send", !.pc = "finish", !.id = run[r].id]]
                /\ UNCHANGED <<local, twists>>
             \/ Twist /\ Leave(r)
       \/ /\ ~(remote.state = "draft" /\ remote.key = run[r].key)
          /\ Leave(r)
          /\ UNCHANGED <<remote, sent, settled, twists>>
    /\ UNCHANGED <<link, claims, active, created, made, unseen, exposed>>

\* The UPDATE names the row by its id only.
Finish(r) ==
    /\ At(r, "finish")
    /\ local' = IF Row(run[r].id) THEN [local EXCEPT !.status = "sent"] ELSE local
    /\ run' = [run EXCEPT ![r] = Idle]
    /\ UNCHANGED <<link, claims, remote, active, twists, history>>

-----------------------------------------------------------------------------
(* pullExchangeDraft.                                                      *)

Load(r, job, step) ==
    run' = [run EXCEPT ![r] = [Idle EXCEPT !.job = job, !.pc = step,
                               !.key = remote.key, !.got = remote.content]]

\* A synchronisation lists the folder; the message it got may be old when it
\* is worked on.
AskPull(r) ==
    /\ At(r, "idle")
    /\ remote.state = "draft"
    /\ Load(r, "pull", "look")
    /\ UNCHANGED <<tables, remote, active, twists, history>>

\* The user keeps the version of Exchange.
KeepRemote(r) ==
    /\ At(r, "idle")
    /\ local.status # "none"
    /\ Twist
    /\ run' = [run EXCEPT ![r] =
         [Idle EXCEPT !.job = "reload", !.id = local.id, !.link = link,
                      !.pc = IF link = NoLink THEN "recover" ELSE "load"]]
    /\ UNCHANGED <<tables, remote, active, history>>

LoadRemote(r) ==
    /\ At(r, "load")
    /\ IF remote.state = "draft" THEN Load(r, "reload", "look") /\ UNCHANGED local
       ELSE Leave(r)
    /\ UNCHANGED <<link, claims, remote, active, twists, history>>

\* The link of the item; or else the draft it was created from is adopted,
\* unless that one is being pushed.
Look(r) ==
    LET i == remote.tag IN
    /\ At(r, "look")
    /\ \/ /\ link # NoLink
          /\ run' = [run EXCEPT ![r].pc = "lock", ![r].link = link, ![r].id = local.id]
          /\ UNCHANGED <<link, local>>
       \/ /\ link = NoLink /\ Row(i)
          /\ Leave(r)
          /\ link' = IF Free(i) THEN UnsureLink(run[r].key) ELSE link
       \/ /\ link = NoLink /\ ~Row(i)
          /\ GoTo(r, "lock")
          /\ UNCHANGED <<link, local>>
    /\ UNCHANGED <<claims, remote, active, twists, history>>

\* Nothing new, or edits on both sides: then the user has to choose.
Unneeded(r) ==
    /\ Row(run[r].id) /\ ~Overwrites(r)
    /\ \/ run[r].link.key = run[r].key
       \/ ~IsRevision(local.content, run[r].link)

\* Without a row left the item is imported anew, under the id 0 for now.
LockPull(r) ==
    LET i == IF Row(run[r].id) THEN run[r].id ELSE 0 IN
    /\ At(r, "lock") /\ ~Pushing(r)
    /\ IF \/ i # 0 /\ local.status \in {"sending", "sent"}
          \/ ~Free(i)
          \/ Unneeded(r)
       THEN Leave(r) /\ UNCHANGED active
       ELSE /\ active' = active \cup {i}
            /\ run' = [run EXCEPT ![r].pc = "commit", ![r].id = i, ![r].link = NoLink,
                                  ![r].seen = IF i = 0 THEN {} ELSE local.content]
            /\ UNCHANGED local
    /\ UNCHANGED <<link, claims, remote, twists, history>>

\* The attachments are downloaded; then one transaction, which fails when the
\* draft was edited meanwhile.
UneditedUnchecked(r) == Row(run[r].id) /\ local.status \notin {"sending", "sent"}

Unedited(r) ==
    /\ Row(run[r].id)
    /\ local.content = run[r].seen
    /\ local.status \notin {"sending", "sent"}

Commit(r) ==
    LET i == run[r].id
        imported == [id |-> local.id + 1, status |-> "draft", content |-> run[r].got]
    IN
    /\ At(r, "commit")
    /\ \/ /\ Unedited(r)
          /\ local' = [local EXCEPT !.content = run[r].got]
          /\ settled' = IF Overwrites(r) THEN settled \cup local.content ELSE settled
          /\ link' = LinkOf(run[r].key, run[r].got)
       \/ /\ i = 0 /\ local.status = "none" /\ imported.id \in Ids
          /\ local' = imported
          /\ link' = LinkOf(run[r].key, run[r].got)
          /\ UNCHANGED settled
       \/ /\ ~Unedited(r) /\ ~(i = 0 /\ local.status = "none")
          /\ UNCHANGED <<local, link, settled>>
    /\ run' = [run EXCEPT ![r] = Idle]
    /\ Unlock(r)
    /\ UNCHANGED <<claims, remote, twists, created, sent, made, unseen, exposed>>

-----------------------------------------------------------------------------
(* Deletions: of the item, seen by a synchronisation, or of the draft.     *)

Forget ==
    /\ local' = [NoRow EXCEPT !.id = local.id]
    /\ link' = NoLink
    /\ claims' = claims \ {local.id}

\* synchronizeExchangeDrafts keeps a draft that was edited, or is busy.
AskDrop(r) ==
    /\ At(r, "idle")
    /\ remote.state = "gone"
    /\ link # NoLink
    /\ local.status \notin {"sending", "sent"}
    /\ Free(local.id)
    /\ IsRevision(local.content, link)
    /\ run' = [run EXCEPT ![r] =
         [Idle EXCEPT !.job = "drop", !.pc = "drop", !.id = local.id]]
    /\ UNCHANGED <<tables, remote, active, twists, history>>

\* The attachments go first, whatever the row has become.
Drop(r) ==
    /\ At(r, "drop")
    /\ run' = [run EXCEPT ![r] = Idle]
    /\ IF Row(run[r].id) /\ Editable THEN Forget
       ELSE /\ local' = IF Row(run[r].id) THEN [local EXCEPT !.content = Body(@)]
                        ELSE local
            /\ UNCHANGED <<link, claims>>
    /\ UNCHANGED <<remote, active, twists, history>>

\* deleteLinkedExchangeDraft
AskDelete(r) ==
    /\ At(r, "idle")
    /\ Twist
    /\ local.status \notin {"none", "sending", "sent"}
    /\ Free(local.id)
    /\ run' = [run EXCEPT ![r] =
         [Idle EXCEPT !.job = "delete", !.id = local.id, !.link = link,
                      !.pc = IF link # NoLink THEN "unmake"
                             ELSE IF local.id \in claims THEN "recover" ELSE "forget"]]
    /\ UNCHANGED <<tables, remote, active, history>>

Unmake(r) ==
    /\ At(r, "unmake")
    /\ IF remote.state = "draft" /\ remote.key = run[r].link.key
       THEN /\ remote' = [remote EXCEPT !.state = "gone", !.content = {}]
            /\ settled' = settled \cup remote.content
            /\ run' = [run EXCEPT ![r].pc = "forget", ![r].link = NoLink]
            /\ UNCHANGED local
       ELSE Leave(r) /\ UNCHANGED <<remote, settled>>
    /\ UNCHANGED <<link, claims, active, twists, created, sent, made, unseen, exposed>>

DeleteHere(r) ==
    /\ At(r, "forget")
    /\ run' = [run EXCEPT ![r] = Idle]
    /\ IF Row(run[r].id) /\ Editable
       THEN Forget /\ settled' = settled \cup local.content
       ELSE UNCHANGED <<tables, settled>>
    /\ UNCHANGED <<remote, active, twists, created, sent, made, unseen, exposed>>

\* The locks are gone; a draft being sent stays so.
Crash ==
    /\ Twist
    /\ active' = {}
    /\ run' = [r \in Runners |-> Idle]
    /\ UNCHANGED <<tables, remote, history>>

Step(r) ==
    \/ AskPush(r) \/ KeepLocal(r) \/ BeginSend(r) \/ ReadDraft(r)
    \/ Refused(r) \/ LockPush(r) \/ PushEndsEarly(r)
    \/ FetchRemote(r) \/ Update(r) \/ Detach(r) \/ Attach(r) \/ Confirm(r)
    \/ CallFails(r) \/ Claim(r) \/ Create(r) \/ CreateRefused(r)
    \/ LinkCreated(r) \/ Recover(r) \/ Send(r) \/ Finish(r)
    \/ AskPull(r) \/ KeepRemote(r) \/ LoadRemote(r) \/ Look(r)
    \/ LockPull(r) \/ Commit(r)
    \/ AskDrop(r) \/ Drop(r) \/ AskDelete(r) \/ Unmake(r) \/ DeleteHere(r)

Next ==
    \/ \E r \in Runners : Step(r)
    \/ \E e \in Edits : EditHere(e) \/ EditInOutlook(e)
    \/ LeaveDrafts
    \/ Crash

Spec == Init /\ [][Next]_vars

-----------------------------------------------------------------------------
(* Correctness.                                                            *)

Links == [key : Nat, sure : BOOLEAN, rev : SUBSET Edits]
Statuses == {"none", "draft", "sending", "sent", "failed"}
RunRecords ==
    [job : {"none", "push", "keep", "send", "pull", "reload", "drop", "delete"},
     pc : {"idle", "lock", "read", "claim", "create", "link", "recover", "fetch", "update",
           "detach", "attach", "confirm", "send", "finish", "look", "load", "commit", "drop",
           "unmake", "forget"},
     id : {0} \cup Ids, link : Links, key : Nat,
     confirmed : SUBSET Edits, seen : SUBSET Edits, got : SUBSET Edits]

\* Rows, item and runners keep their types; a draft that is there has an id.
TypeOK ==
    /\ local \in [id : {0} \cup Ids, status : Statuses, content : SUBSET Edits]
    /\ local.status # "none" => local.id \in Ids
    /\ link \in Links
    /\ claims \subseteq Ids
    /\ remote \in [state : {"none", "draft", "gone"}, key : Nat, content : SUBSET Edits,
                   tag : {0} \cup Ids]
    /\ active \subseteq {0} \cup Ids
    /\ run \in [Runners -> RunRecords]
    /\ twists \in Nat
    /\ created \in [Ids -> Nat]
    /\ made \subseteq Edits

\* However answers are lost and pushes are repeated, a draft gets at most one
\* item in the mailbox (docs/project-review-2026-09-09.md:11).
CreatedOnce == \A i \in Ids : created[i] <= 1

\* What is sent is what the user confirmed, and it is sent once.
SentIsConfirmed ==
    /\ Cardinality(sent) <= 1
    /\ \A s \in sent : s[1] \ unseen = s[2] \ unseen

\* Where the link names the key the item has, its content is the one the link
\* was saved for: this is what lets a push or a send skip the comparison.
\* What Outlook, or another push, writes between the writes of a push is the
\* exception.
LinkTellsTruth ==
    (link.sure /\ remote.state = "draft" /\ remote.key = link.key)
        => remote.content \ unseen = link.rev \ unseen

Kept ==
    (IF local.status = "none" THEN {} ELSE local.content) \cup remote.content

\* An edit stays in one of the two versions until the user gives it up or
\* sends it.  The exceptions are the three gaps of the code: an edit here between
\* the check and the deletion of a draft that was deleted in Outlook, an edit in
\* Outlook between the writes of one push, and what a push of an older draft
\* replaces while a link calls the newer one alike (see Breakable).
EditsSurvive == made \subseteq Kept \cup settled \cup unseen \cup exposed

\* The same without the exceptions: "本地修改已保留".
NoEditLost == made \subseteq Kept \cup settled

-----------------------------------------------------------------------------
(* What the properties rest on.                                            *)

Alike(content, other) == content \ unseen = other \ unseen

\* Before there is an item nobody has a key of it, a link to it or its content.
KnowsNoItem(s) ==
    remote.state = "none" =>
        /\ s.key = 0 /\ s.link = NoLink
        /\ s.pc \in {"idle", "lock", "read", "claim", "create", "recover", "load", "forget"}
        /\ s.pc = "lock" => s.job \in {"push", "keep", "send"}

\* A runner names a row that is or was there; a claim made for a row whose item
\* may be there is refused.
NamesRow(s) ==
    /\ s.id <= local.id
    /\ s.pc = "create" => remote.state = "none"
    /\ s.pc = "claim" /\ Row(s.id) /\ remote.state # "none" => s.id \in claims

\* Change keys only grow.
KeysAreOld(s) ==
    /\ s.key <= remote.key
    /\ s.link.key <= remote.key
    /\ s.pc = "link" => s.key = 1

\* What a runner knows of the item from its own writes, or has read, as long as
\* its key is the newest; the files it detaches do not depend on the key.
TellsTruth(s) ==
    LET current == remote.state = "draft" /\ remote.key = s.key IN
    /\ s.pc = "detach" =>
          /\ s.got \subseteq Files
          /\ remote.state = "draft" => Alike(remote.content, Body(s.seen) \cup s.got)
    /\ s.pc \in {"link", "attach"} /\ current => Alike(remote.content, Body(s.seen))
    /\ s.pc = "confirm" /\ current => Alike(remote.content, s.seen)
    /\ s.pc = "send" /\ current => Alike(remote.content, s.confirmed)
    /\ \/ s.pc \in {"look", "commit"}
       \/ s.pc = "lock" /\ s.job \notin {"push", "keep", "send"}
       => (current => Alike(remote.content, s.got))

\* From the confirmation on nobody else changes the row of a send, unless the
\* item is gone and cannot be sent.
SendsConfirmed(s) ==
    /\ s.pc \in {"read", "finish"} => s.job = "send"
    /\ s.pc = "drop" => remote.state = "gone"
    /\ s.job = "send" /\ remote.state # "gone" =>
          /\ Row(s.id) /\ local.status = "sending"
          /\ local.content = s.confirmed
          /\ s.pc \notin {"read", "send", "finish"} => s.seen = s.confirmed

Knows(s) ==
    /\ KnowsNoItem(s)
    /\ NamesRow(s)
    /\ KeysAreOld(s)
    /\ TellsTruth(s)
    /\ SendsConfirmed(s)

RunnersKnow == \A r \in Runners : Knows(run[r])

OneSend == \A r, s \in Runners : run[r].job = "send" /\ run[s].job = "send" => r = s

\* Two pushes between their writes: what they leave is theirs to explain.
DetachedIsUnseen ==
    \A r, s \in Runners :
        At(r, "detach") /\ At(s, "detach") /\ r # s /\ remote.state = "draft" =>
            remote.content \subseteq unseen

\* The item is created once, before there is a link; a row without a link whose
\* item may be there has its claim.
ItemInv ==
    /\ remote.state = "none" =>
          remote.key = 0 /\ remote.content = {} /\ local.id <= 1 /\ link = NoLink
    /\ remote.state # "none" => remote.key >= 1
    /\ remote.state # "none" /\ local.status # "none" /\ link = NoLink => local.id \in claims
    /\ link.key <= remote.key

\* What is sent is gone.
SentIsGone ==
    sent = {} \/ (remote.state = "gone" /\ \E s \in sent : sent = {s})

TruthInv ==
    /\ RunnersKnow
    /\ OneSend
    /\ DetachedIsUnseen
    /\ ItemInv
    /\ SentIsGone
    /\ LinkTellsTruth
    /\ SentIsConfirmed

Saved == settled \cup unseen \cup exposed
Mine(i) == IF Row(i) THEN local.content ELSE {}

\* The steps of a runner that holds the lock of its row, or of "remote:...".
Pushes(s) == s.job \in {"push", "keep", "send"}
Working(s) ==
    \/ s.pc = "commit"
    \/ Pushes(s) /\ s.pc \in {"recover", "claim", "create", "link", "fetch", "update",
                              "detach", "attach", "confirm"}

LocksHeld ==
    /\ \A r \in Runners : Working(run[r]) => run[r].id \in active
    /\ \A r, s \in Runners :
          Working(run[r]) /\ Working(run[s]) /\ run[r].id = run[s].id => r = s

\* What a runner does fits the step it is at.
JobFits(s) ==
    /\ s.pc \in {"fetch", "update", "detach", "attach", "confirm"} => Pushes(s)
    /\ s.pc \in {"look", "commit"} => s.job \in {"pull", "reload"}
    /\ s.pc = "look" => s.link = NoLink
    /\ s.pc = "lock" => Pushes(s) \/ s.job \in {"pull", "reload"}
    /\ s.pc \in {"idle", "load", "unmake", "forget", "drop"} => ~Pushes(s)

\* Nobody knows of an edit that was not made.
OnlyMade ==
    /\ local.content \cup remote.content \cup link.rev \subseteq made
    /\ \A r \in Runners : run[r].seen \cup run[r].got \cup run[r].link.rev \subseteq made
    /\ remote.state # "draft" => remote.content = {}

\* A link, or the link a pull has read, that calls the draft alike may be trusted:
\* the draft can be replaced, or deleted once the item is gone.
CallsAlike(l) == local.status # "none" /\ IsRevision(local.content, l)
Trusted(l) == CallsAlike(l) => local.content \subseteq remote.content \cup Saved
Pulls(s) == s.job = "pull" /\ s.pc = "lock"
SomeLinkCallsAlike ==
    CallsAlike(link) \/ \E r \in Runners : Pulls(run[r]) /\ CallsAlike(run[r].link)

\* Where the link is current the row holds what the item holds.
CurrentIsCovered ==
    link.sure /\ local.status # "none" /\ remote.state = "draft" /\ link.key = remote.key
        => remote.content \subseteq local.content \cup Saved

\* A pull, or a deletion, replaces only what is kept elsewhere.
ReplacesKept(s) ==
    /\ Pulls(s) => Trusted(s.link)
    /\ s.pc = "commit" /\ s.job = "pull" /\ Row(s.id) /\ local.content = s.seen
          => local.content \subseteq remote.content \cup Saved
    /\ s.pc = "drop" => Mine(s.id) \subseteq Saved

\* So does a push, of the item, as long as its key is the newest.
Compared(s) ==
    remote.state = "draft" => remote.content \cup s.seen \subseteq Mine(s.id) \cup Saved
RewritesKept(s) ==
    /\ remote.state = "none" /\ Pushes(s) /\ Row(s.id) => s.seen \subseteq local.content
    /\ s.pc = "fetch" /\ s.job # "keep" /\ s.link.key = remote.key => Compared(s)
    /\ s.pc = "update" /\ s.job # "keep" /\ s.key = remote.key => Compared(s)
    /\ s.pc = "detach" /\ remote.state = "draft" => s.got \subseteq Mine(s.id) \cup Saved
    /\ s.pc = "detach" /\ remote.state = "draft" /\ SomeLinkCallsAlike => s.got \subseteq Saved

\* What a push has written is in the item, and in the row it came from.
WroteKept(s) ==
    Row(s.id) =>
        /\ s.pc \in {"link", "detach", "attach", "confirm"} /\ remote.state = "draft"
              => s.seen \subseteq local.content \cup Saved
        /\ s.pc \in {"link", "detach", "attach"}
              => Body(s.seen) \subseteq remote.content \cup Saved
        /\ s.pc = "confirm" => s.seen \subseteq remote.content \cup Saved

KeepsEdits(s) == JobFits(s) /\ ReplacesKept(s) /\ RewritesKept(s) /\ WroteKept(s)

SurviveInv ==
    /\ LocksHeld
    /\ OnlyMade
    /\ Trusted(link)
    /\ CurrentIsCovered
    /\ \A r \in Runners : KeepsEdits(run[r])
    /\ EditsSurvive
=============================================================================
