------------------------- MODULE ExchangeDraftProofs -------------------------
(* Of ExchangeDraft, for any number of edits and runners and for every value  *)
(* of the bounds: its typing, that a draft gets at most one item, that links  *)
(* tell the truth, that what is sent was confirmed, and that edits survive.   *)
EXTENDS ExchangeDraft, TLAPS, FiniteSetTheorems

\* What a runner does, and to which row, fits the step it is at.
Fit(s) ==
    /\ s.job \in {"push", "keep", "send"} => s.id \in Ids
    /\ s.pc \in {"claim", "create", "link"} => s.job \in {"push", "keep", "send"}
    /\ s.pc = "recover" => s.job \in {"push", "keep", "send", "reload", "delete"}
    /\ s.pc = "send" => s.job = "send"
    /\ s.pc = "look" => s.job \in {"pull", "reload"}

Shape == TypeOK /\ \A r \in Runners : Fit(run[r])

\* The row was deleted, or another one stands for the item since.
Dead(i) == local.id > i \/ (local.id = i /\ local.status = "none")
Taken(i) == i \in claims \/ Dead(i)

\* No second runner comes to the call: whoever is at it, or was, left a claim
\* that only the deletion of the row or a refusal without effect removes.
CreateInv ==
    /\ \A r \in Runners : At(r, "create") => Taken(run[r].id) /\ created[run[r].id] = 0
    /\ \A r, s \in Runners :
          At(r, "create") /\ At(s, "create") /\ run[r].id = run[s].id => r = s
    /\ \A i \in Ids : created[i] > 0 => Taken(i)
    /\ CreatedOnce

Invariant == Shape /\ CreateInv

-----------------------------------------------------------------------------
LEMMA IdleFits == Idle \in RunRecords /\ Fit(Idle) /\ NoLink \in Links
BY DEF Idle, RunRecords, Fit, NoLink, Links

LEMMA InitInvariant == Init => Invariant
<1> SUFFICES ASSUME Init PROVE Invariant  OBVIOUS
<1>1. TypeOK
  <2>1. local \in [id : {0} \cup Ids, status : Statuses, content : SUBSET Edits]
        /\ (local.status # "none" => local.id \in Ids)
    BY DEF Init, NoRow, Ids, Statuses
  <2>2. remote \in [state : {"none", "draft", "gone"}, key : Nat, content : SUBSET Edits,
                    tag : {0} \cup Ids]
    <3>1. \/ remote = [state |-> "none", key |-> 0, content |-> {}, tag |-> 0]
          \/ remote = [state |-> "draft", key |-> 1, content |-> {}, tag |-> 0]
      BY DEF Init, NoItem
    <3>2. QED BY <3>1
  <2>3. run \in [Runners -> RunRecords] /\ link \in Links
    BY IdleFits DEF Init
  <2>4. claims \subseteq Ids /\ active \subseteq {0} \cup Ids /\ made \subseteq Edits
    BY DEF Init
  <2>5. twists \in Nat /\ created \in [Ids -> Nat]
    BY DEF Init
  <2>6. QED BY <2>1, <2>2, <2>3, <2>4, <2>5 DEF TypeOK
<1>2. \A r \in Runners : run[r] = Idle
  BY DEF Init
<1>3. QED BY <1>1, <1>2, IdleFits DEF Init, Invariant, Shape, CreateInv, CreatedOnce, At, Idle

\* One runner changes.
LEMMA RunnerMoves ==
    ASSUME Shape, NEW r \in Runners, NEW y \in RunRecords, Fit(y),
           run' = [run EXCEPT ![r] = y]
    PROVE  run' \in [Runners -> RunRecords] /\ \A s \in Runners : Fit(run'[s])
BY DEF Shape, TypeOK

LEMMA LeaveMoves ==
    ASSUME Shape, NEW r \in Runners, Leave(r)
    PROVE  /\ run' \in [Runners -> RunRecords] /\ \A s \in Runners : Fit(run'[s])
           /\ local' \in [id : {0} \cup Ids, status : Statuses, content : SUBSET Edits]
           /\ local'.id = local.id
           /\ local'.status = "none" <=> local.status = "none"
<1>1. run' = [run EXCEPT ![r] = Idle]
  BY DEF Leave
<1>2. run' \in [Runners -> RunRecords] /\ \A s \in Runners : Fit(run'[s])
  BY <1>1, IdleFits, RunnerMoves
<1>3. QED BY <1>2 DEF Leave, Shape, TypeOK, Statuses

-----------------------------------------------------------------------------
(* Every action keeps the typing.                                          *)

LEMMA PushStepsShape ==
    ASSUME Shape, NEW r \in Runners,
           \/ AskPush(r) \/ KeepLocal(r) \/ BeginSend(r) \/ ReadDraft(r)
           \/ Refused(r) \/ LockPush(r) \/ PushEndsEarly(r)
    PROVE  Shape'
<1> USE DEF tables, history
<1>s. Idle \in RunRecords /\ Fit(Idle) /\ NoLink \in Links
  BY IdleFits
<1>1. CASE AskPush(r)
  <2> DEFINE y == [Idle EXCEPT !.job = "push", !.pc = "lock", !.id = local.id,
                               !.seen = local.content]
  <2>1. y \in RunRecords /\ Fit(y)
    BY <1>1, <1>s DEF AskPush, Shape, TypeOK, RunRecords, Fit, Idle
  <2>2. run' = [run EXCEPT ![r] = y]
    BY <1>1 DEF AskPush, Start
  <2>3. QED BY <1>1, <2>1, <2>2, RunnerMoves DEF AskPush, Shape, TypeOK
<1>2. CASE KeepLocal(r)
  <2> DEFINE y == [Idle EXCEPT !.job = "keep", !.pc = "lock", !.id = local.id,
                               !.seen = local.content]
  <2>1. y \in RunRecords /\ Fit(y)
    BY <1>2, <1>s DEF KeepLocal, Shape, TypeOK, RunRecords, Fit, Idle
  <2>2. run' = [run EXCEPT ![r] = y]
    BY <1>2 DEF KeepLocal, Start
  <2>3. QED BY <1>2, <2>1, <2>2, RunnerMoves DEF KeepLocal, Twist, Shape, TypeOK
<1>3. CASE BeginSend(r)
  <2> DEFINE y == [Idle EXCEPT !.job = "send", !.pc = "read", !.id = local.id,
                               !.confirmed = local.content]
  <2>1. y \in RunRecords /\ Fit(y)
    BY <1>3, <1>s DEF BeginSend, Editable, Shape, TypeOK, RunRecords, Fit, Idle
  <2>2. run' = [run EXCEPT ![r] = y]
    BY <1>3 DEF BeginSend
  <2>3. local' \in [id : {0} \cup Ids, status : Statuses, content : SUBSET Edits]
        /\ local'.id = local.id /\ local.status # "none"
    BY <1>3 DEF BeginSend, Editable, Shape, TypeOK, Statuses
  <2>4. QED BY <1>3, <2>1, <2>2, <2>3, RunnerMoves DEF BeginSend, Shape, TypeOK
<1>4. CASE ReadDraft(r)
  <2> DEFINE y == [run[r] EXCEPT !.pc = "lock", !.seen = local.content]
  <2>1. y \in RunRecords /\ Fit(y)
    BY <1>4, <1>s DEF ReadDraft, Shape, TypeOK, RunRecords, Fit
  <2>2. run' = [run EXCEPT ![r] = y]
    BY <1>4 DEF ReadDraft
  <2>3. QED BY <1>4, <2>1, <2>2, RunnerMoves DEF ReadDraft, Shape, TypeOK
<1>5. CASE Refused(r)
  BY <1>5, LeaveMoves DEF Refused, Shape, TypeOK
<1>6. CASE LockPush(r)
  <2> DEFINE i == run[r].id
             l == IF Row(i) THEN link ELSE NoLink
             p == CASE l = NoLink /\ Row(i) /\ i \in claims -> "recover"
                    [] l = NoLink /\ ~(Row(i) /\ i \in claims) -> "claim"
                    [] l # NoLink -> "fetch"
             y == [run[r] EXCEPT !.pc = p, !.link = l]
  <2>1. l \in Links
    BY <1>s DEF Shape, TypeOK
  <2>2. p \in {"recover", "claim", "fetch"}
    OBVIOUS
  <2>3. run' = [run EXCEPT ![r] = y]
    BY <1>6 DEF LockPush
  <2>4. active' \subseteq {0} \cup Ids
    BY <1>6 DEF LockPush, Pushing, Shape, Fit, TypeOK
  <2> HIDE DEF p, l
  <2>5. y \in RunRecords
    <3>1. run[r] \in RunRecords
      BY DEF Shape, TypeOK
    <3>2. QED BY <3>1, <2>1, <2>2 DEF RunRecords
  <2>6. Fit(y)
    BY <1>6, <2>2 DEF LockPush, Pushing, Shape, TypeOK, RunRecords, Fit
  <2>7. QED BY <1>6, <2>3, <2>4, <2>5, <2>6, RunnerMoves DEF LockPush, Shape, TypeOK
<1>7. CASE PushEndsEarly(r)
  <2>1. CASE Leave(r)
    BY <1>7, <2>1, LeaveMoves DEF PushEndsEarly, Shape, TypeOK
  <2>2. CASE ~Leave(r)
    <3> DEFINE y == [run[r] EXCEPT !.pc = "send", !.key = link.key, !.seen = {}]
    <3>1. run' = [run EXCEPT ![r] = y] /\ local' = local /\ run[r].job = "send"
      BY <1>7, <2>2 DEF PushEndsEarly
    <3>2. y \in RunRecords
      <4>1. link.key \in Nat
        BY DEF Shape, TypeOK, Links
      <4>2. run[r] \in RunRecords
        BY DEF Shape, TypeOK
      <4>3. QED BY <4>1, <4>2 DEF RunRecords
    <3>3. Fit(y)
      BY <3>1 DEF Shape, TypeOK, RunRecords, Fit
    <3>4. QED BY <1>7, <3>1, <3>2, <3>3, RunnerMoves DEF PushEndsEarly, Shape, TypeOK
  <2>3. QED BY <2>1, <2>2
<1>8. QED BY <1>1, <1>2, <1>3, <1>4, <1>5, <1>6, <1>7

LEMMA UnlockTyped ==
    ASSUME Shape, NEW r \in Runners, Unlock(r)
    PROVE  active' \subseteq {0} \cup Ids
BY DEF Shape, TypeOK, Unlock

LEMMA RemoteTyped ==
    ASSUME Shape, NEW c \in SUBSET Edits
    PROVE  /\ [remote EXCEPT !.content = c, !.key = NewKey]
                \in [state : {"none", "draft", "gone"}, key : Nat, content : SUBSET Edits,
                     tag : {0} \cup Ids]
           /\ NewKey \in Nat
<1> DEFINE S == {"none", "draft", "gone"}
<1>1. remote \in [state : S, key : Nat, content : SUBSET Edits, tag : {0} \cup Ids]
  BY DEF Shape, TypeOK
<1> HIDE DEF S
<1>2. NewKey \in Nat
  BY <1>1 DEF NewKey
<1>3. [remote EXCEPT !.content = c, !.key = NewKey]
        \in [state : S, key : Nat, content : SUBSET Edits, tag : {0} \cup Ids]
  BY <1>1, <1>2
<1>4. QED BY <1>2, <1>3 DEF S

LEMMA StepAfterRange ==
    ASSUME NEW r, NEW c
    PROVE  StepAfter(r, c) \in {"detach", "attach", "confirm"}
BY DEF StepAfter

LEMMA RewriteStepsShape ==
    ASSUME Shape, NEW r \in Runners,
           FetchRemote(r) \/ Update(r) \/ Detach(r) \/ Attach(r)
    PROVE  Shape'
<1> USE DEF tables, history
<1>s. run[r] \in RunRecords /\ Fit(run[r]) /\ NoLink \in Links
  BY IdleFits DEF Shape, TypeOK
<1>k. remote.key \in Nat /\ remote.content \subseteq Edits
  BY DEF Shape, TypeOK
<1>1. CASE FetchRemote(r)
  <2> DEFINE y == [run[r] EXCEPT !.pc = "update", !.key = remote.key, !.link = NoLink]
  <2>1. CASE Fail(r)
    BY <1>1, <2>1, LeaveMoves, UnlockTyped DEF Fail, FetchRemote, Shape, TypeOK
  <2>2. CASE ~Fail(r)
    <3>1. run' = [run EXCEPT ![r] = y] /\ UNCHANGED <<local, active>>
      BY <1>1, <2>2 DEF FetchRemote
    <3>2. y \in RunRecords
      BY <1>s, <1>k DEF RunRecords
    <3>3. Fit(y)
      BY <1>s DEF Fit, RunRecords
    <3>4. QED BY <1>1, <3>1, <3>2, <3>3, RunnerMoves DEF FetchRemote, Shape, TypeOK
  <2>3. QED BY <2>1, <2>2
<1>2. CASE Update(r)
  <2> DEFINE old == remote.content
             written == Body(run[r].seen) \cup FilesOf(old)
             p == StepAfter(r, old)
             y == [run[r] EXCEPT !.pc = p, !.key = NewKey, !.got = FilesOf(old)]
  <2>1. CASE remote.state = "draft" /\ remote.key = run[r].key
    <3>1. run' = [run EXCEPT ![r] = y] /\ UNCHANGED <<local, active>>
      BY <1>2, <2>1 DEF Update
    <3>2. written \subseteq Edits /\ FilesOf(old) \subseteq Edits
      BY <1>s, <1>k DEF Body, FilesOf, RunRecords
    <3>3. remote' \in [state : {"none", "draft", "gone"}, key : Nat,
                       content : SUBSET Edits, tag : {0} \cup Ids]
      BY <1>2, <2>1, <3>2, RemoteTyped DEF Update
    <3>4. p \in {"detach", "attach", "confirm"} /\ NewKey \in Nat
      BY <1>k, StepAfterRange DEF NewKey
    <3> HIDE DEF p
    <3>5. y \in RunRecords
      BY <1>s, <3>2, <3>4 DEF RunRecords
    <3>6. Fit(y)
      BY <1>s, <3>4 DEF Fit, RunRecords
    <3>7. QED BY <1>2, <3>1, <3>3, <3>5, <3>6, RunnerMoves DEF Update, Shape, TypeOK
  <2>2. CASE ~(remote.state = "draft" /\ remote.key = run[r].key)
    BY <1>2, <2>2, LeaveMoves, UnlockTyped DEF Fail, Update, Shape, TypeOK
  <2>3. QED BY <2>1, <2>2
<1>3. CASE Detach(r)
  <2> DEFINE p == StepAfter(r, {})
             y == [run[r] EXCEPT !.pc = p, !.key = NewKey, !.got = {}]
  <2>1. CASE remote.state = "draft"
    <3>1. run' = [run EXCEPT ![r] = y] /\ UNCHANGED <<local, active>>
      BY <1>3, <2>1 DEF Detach
    <3>2. remote' \in [state : {"none", "draft", "gone"}, key : Nat,
                       content : SUBSET Edits, tag : {0} \cup Ids]
      BY <1>3, <2>1, <1>k, RemoteTyped DEF Detach
    <3>3. p \in {"detach", "attach", "confirm"} /\ NewKey \in Nat
      BY <1>k, StepAfterRange DEF NewKey
    <3> HIDE DEF p
    <3>4. y \in RunRecords
      BY <1>s, <3>3 DEF RunRecords
    <3>5. Fit(y)
      BY <1>s, <3>3 DEF Fit, RunRecords
    <3>6. QED BY <1>3, <3>1, <3>2, <3>4, <3>5, RunnerMoves DEF Detach, Shape, TypeOK
  <2>2. CASE remote.state # "draft"
    BY <1>3, <2>2, LeaveMoves, UnlockTyped DEF Fail, Detach, Shape, TypeOK
  <2>3. QED BY <2>1, <2>2
<1>4. CASE Attach(r)
  <2> DEFINE y == [run[r] EXCEPT !.pc = "confirm", !.key = NewKey]
  <2>1. CASE remote.state = "draft" /\ remote.key = run[r].key
    <3>1. run' = [run EXCEPT ![r] = y] /\ UNCHANGED <<local, active>>
      BY <1>4, <2>1 DEF Attach
    <3>2. remote.content \cup FilesOf(run[r].seen) \subseteq Edits
      BY <1>s, <1>k DEF FilesOf, RunRecords
    <3>3. remote' \in [state : {"none", "draft", "gone"}, key : Nat,
                       content : SUBSET Edits, tag : {0} \cup Ids]
      BY <1>4, <2>1, <3>2, RemoteTyped DEF Attach
    <3>4. NewKey \in Nat
      BY <1>k DEF NewKey
    <3>5. y \in RunRecords
      BY <1>s, <3>4 DEF RunRecords
    <3>6. Fit(y)
      BY <1>s DEF Fit, RunRecords
    <3>7. QED BY <1>4, <3>1, <3>3, <3>5, <3>6, RunnerMoves DEF Attach, Shape, TypeOK
  <2>2. CASE ~(remote.state = "draft" /\ remote.key = run[r].key)
    BY <1>4, <2>2, LeaveMoves, UnlockTyped DEF Fail, Attach, Shape, TypeOK
  <2>3. QED BY <2>1, <2>2
<1>5. QED BY <1>1, <1>2, <1>3, <1>4

LEMMA ConfirmStepsShape ==
    ASSUME Shape, NEW r \in Runners, Confirm(r) \/ CallFails(r)
    PROVE  Shape'
<1> USE DEF tables, history
<1>s. run[r] \in RunRecords /\ Fit(run[r])
  BY DEF Shape, TypeOK
<1>1. CASE Confirm(r)
  <2> DEFINE y == [run[r] EXCEPT !.pc = "send", !.seen = {}]
  <2>1. link' \in Links
    <3>1. LinkOf(run[r].key, run[r].seen) \in Links
      BY <1>s DEF LinkOf, Links, RunRecords
    <3>2. link \in Links
      BY DEF Shape, TypeOK
    <3>3. link' = LinkOf(run[r].key, run[r].seen) \/ link' = link
      BY <1>1 DEF Confirm
    <3>4. QED BY <3>1, <3>2, <3>3
  <2>2. CASE Fail(r)
    BY <1>1, <2>1, <2>2, LeaveMoves, UnlockTyped DEF Fail, Confirm, Shape, TypeOK
  <2>3. CASE ~Fail(r)
    <3>1. run' = [run EXCEPT ![r] = y] /\ Unlock(r) /\ UNCHANGED local /\ run[r].job = "send"
      BY <1>1, <2>3 DEF Confirm
    <3>2. y \in RunRecords
      BY <1>s DEF RunRecords
    <3>3. Fit(y)
      BY <1>s, <3>1 DEF Fit, RunRecords
    <3>4. QED BY <1>1, <2>1, <3>1, <3>2, <3>3, RunnerMoves, UnlockTyped
              DEF Confirm, Shape, TypeOK
  <2>4. QED BY <2>2, <2>3
<1>2. CASE CallFails(r)
  BY <1>2, LeaveMoves, UnlockTyped DEF Fail, Twist, CallFails, Shape, TypeOK
<1>3. QED BY <1>1, <1>2

LEMMA CreateStepsShape ==
    ASSUME Shape, NEW r \in Runners,
           Claim(r) \/ Create(r) \/ CreateRefused(r) \/ LinkCreated(r) \/ Recover(r)
    PROVE  Shape'
<1> USE DEF tables, history
<1>s. run[r] \in RunRecords /\ Fit(run[r])
  BY DEF Shape, TypeOK
<1>1. CASE Claim(r)
  <2> DEFINE y == [run[r] EXCEPT !.pc = "create"]
  <2>1. Pushing(r) /\ run[r].id \in Ids
    BY <1>1, <1>s DEF Claim, At, Fit, Pushing
  <2>2. claims' \subseteq Ids
    BY <1>1, <2>1 DEF Claim, Shape, TypeOK
  <2>3. CASE Fail(r)
    BY <1>1, <2>2, <2>3, LeaveMoves, UnlockTyped DEF Fail, Claim, Shape, TypeOK
  <2>4. CASE ~Fail(r)
    <3>1. run' = [run EXCEPT ![r] = y] /\ UNCHANGED <<local, active>>
      BY <1>1, <2>4 DEF Claim, GoTo
    <3>2. y \in RunRecords
      BY <1>s DEF RunRecords
    <3>3. Fit(y)
      BY <1>s, <2>1 DEF Fit, RunRecords, Pushing
    <3>4. QED BY <1>1, <2>2, <3>1, <3>2, <3>3, RunnerMoves DEF Claim, Shape, TypeOK
  <2>5. QED BY <2>3, <2>4
<1>2. CASE Create(r)
  <2> DEFINE y == [run[r] EXCEPT !.pc = "link", !.key = 1]
             item == [state |-> "draft", key |-> 1, content |-> Body(run[r].seen),
                      tag |-> run[r].id]
  <2>1. Pushing(r) /\ run[r].id \in Ids
    BY <1>2, <1>s DEF Create, At, Fit, Pushing
  <2>2. remote' \in [state : {"none", "draft", "gone"}, key : Nat, content : SUBSET Edits,
                     tag : {0} \cup Ids]
    <3>1. Body(run[r].seen) \in SUBSET Edits
      BY <1>s DEF Body, RunRecords
    <3>2. remote' = item
      BY <1>2 DEF Create
    <3>3. QED BY <3>1, <3>2, <2>1
  <2>3. created' \in [Ids -> Nat]
    BY <1>2, <2>1 DEF Create, Shape, TypeOK
  <2>4. CASE Fail(r)
    <3>1. twists' \in Nat
      BY <1>2 DEF Create, Twist, Shape, TypeOK
    <3>2. QED BY <1>2, <2>2, <2>3, <2>4, <3>1, LeaveMoves, UnlockTyped
              DEF Fail, Create, Shape, TypeOK
  <2>5. CASE ~Fail(r)
    <3>1. run' = [run EXCEPT ![r] = y] /\ UNCHANGED <<local, active, twists>>
      BY <1>2, <2>5 DEF Create
    <3>2. y \in RunRecords
      BY <1>s DEF RunRecords
    <3>3. Fit(y)
      BY <1>s, <2>1 DEF Fit, RunRecords, Pushing
    <3>4. QED BY <1>2, <2>2, <2>3, <3>1, <3>2, <3>3, RunnerMoves DEF Create, Shape, TypeOK
  <2>6. QED BY <2>4, <2>5
<1>3. CASE CreateRefused(r)
  BY <1>3, LeaveMoves, UnlockTyped DEF Fail, Twist, CreateRefused, Shape, TypeOK
<1>4. CASE LinkCreated(r)
  <2> DEFINE p == StepAfter(r, {})
             y == [run[r] EXCEPT !.pc = p]
  <2>1. link' \in Links
    <3>1. UnsureLink(run[r].key) \in Links
      BY <1>s DEF UnsureLink, Links, RunRecords
    <3>2. QED BY <1>4, <3>1 DEF LinkCreated, Shape, TypeOK
  <2>2. CASE Fail(r)
    BY <1>4, <2>1, <2>2, LeaveMoves, UnlockTyped DEF Fail, LinkCreated, Shape, TypeOK
  <2>3. CASE ~Fail(r)
    <3>1. run' = [run EXCEPT ![r] = y] /\ UNCHANGED <<local, active>>
      BY <1>4, <2>3 DEF LinkCreated, GoTo
    <3>2. p \in {"detach", "attach", "confirm"}
      BY StepAfterRange
    <3> HIDE DEF p
    <3>3. y \in RunRecords
      BY <1>s, <3>2 DEF RunRecords
    <3>4. Fit(y)
      BY <1>s, <3>2 DEF Fit, RunRecords
    <3>5. QED BY <1>4, <2>1, <3>1, <3>3, <3>4, RunnerMoves DEF LinkCreated, Shape, TypeOK
  <2>4. QED BY <2>2, <2>3
<1>5. CASE Recover(r)
  <2> DEFINE found == UnsureLink(remote.key)
             p == StepAfterRecovery(r)
             y == [run[r] EXCEPT !.pc = p, !.link = found]
  <2>1. found \in Links
    BY DEF UnsureLink, Links, Shape, TypeOK
  <2>2. link' \in Links
    BY <1>5, <2>1 DEF Recover, Shape, TypeOK
  <2>3. CASE Fail(r)
    BY <1>5, <2>2, <2>3, LeaveMoves, UnlockTyped DEF Fail, Recover, Shape, TypeOK
  <2>4. CASE ~Fail(r)
    <3>1. /\ run' = [run EXCEPT ![r] = y] /\ UNCHANGED <<local, active>>
          /\ run[r].job \notin {"push", "send"}
      BY <1>5, <2>4 DEF Recover
    <3>2. p \in {"fetch", "load", "unmake"}
      BY <1>5, <1>s, <3>1 DEF Recover, At, Fit, StepAfterRecovery
    <3> HIDE DEF p, found
    <3>3. y \in RunRecords
      BY <1>s, <2>1, <3>2 DEF RunRecords
    <3>4. Fit(y)
      BY <1>s, <3>2 DEF Fit, RunRecords
    <3>5. QED BY <1>5, <2>2, <3>1, <3>3, <3>4, RunnerMoves DEF Recover, Shape, TypeOK
  <2>5. QED BY <2>3, <2>4
<1>6. QED BY <1>1, <1>2, <1>3, <1>4, <1>5

LEMMA SendStepsShape ==
    ASSUME Shape, NEW r \in Runners, Send(r) \/ Finish(r)
    PROVE  Shape'
<1> USE DEF tables, history
<1>s. run[r] \in RunRecords /\ Fit(run[r])
  BY DEF Shape, TypeOK
<1>1. CASE Send(r)
  <2> DEFINE y == [Idle EXCEPT !.job = "send", !.pc = "finish", !.id = run[r].id]
  <2>1. remote' \in [state : {"none", "draft", "gone"}, key : Nat, content : SUBSET Edits,
                     tag : {0} \cup Ids]
    BY <1>1 DEF Send, Shape, TypeOK
  <2>2. twists' \in Nat
    BY <1>1 DEF Send, Twist, Shape, TypeOK
  <2>3. CASE Leave(r)
    BY <1>1, <2>1, <2>2, <2>3, LeaveMoves DEF Send, Shape, TypeOK
  <2>4. CASE ~Leave(r)
    <3>1. run' = [run EXCEPT ![r] = y] /\ UNCHANGED <<local, twists>>
      BY <1>1, <2>4 DEF Send
    <3>2. y \in RunRecords
      BY <1>s, IdleFits DEF RunRecords, Idle
    <3>3. Fit(y)
      BY <1>1, <1>s DEF Send, At, Fit, RunRecords, Idle
    <3>4. QED BY <1>1, <2>1, <3>1, <3>2, <3>3, RunnerMoves DEF Send, Shape, TypeOK
  <2>5. QED BY <2>3, <2>4
<1>2. CASE Finish(r)
  <2>1. run' = [run EXCEPT ![r] = Idle]
    BY <1>2 DEF Finish
  <2>2. /\ local' \in [id : {0} \cup Ids, status : Statuses, content : SUBSET Edits]
        /\ local'.status # "none" => local'.id \in Ids
    BY <1>2 DEF Finish, Row, Shape, TypeOK, Statuses
  <2>3. QED BY <1>2, <2>1, <2>2, IdleFits, RunnerMoves DEF Finish, Shape, TypeOK
<1>3. QED BY <1>1, <1>2

LEMMA PullStepsShape ==
    ASSUME Shape, NEW r \in Runners,
           AskPull(r) \/ KeepRemote(r) \/ LoadRemote(r) \/ Look(r) \/ LockPull(r) \/ Commit(r)
    PROVE  Shape'
<1> USE DEF tables, history
<1>s. run[r] \in RunRecords /\ Fit(run[r]) /\ NoLink \in Links
  BY IdleFits DEF Shape, TypeOK
<1>k. remote.key \in Nat /\ remote.content \subseteq Edits /\ link \in Links
  BY DEF Shape, TypeOK
<1>1. CASE AskPull(r)
  <2> DEFINE y == [Idle EXCEPT !.job = "pull", !.pc = "look", !.key = remote.key,
                               !.got = remote.content]
  <2>1. run' = [run EXCEPT ![r] = y]
    BY <1>1 DEF AskPull, Load
  <2>2. y \in RunRecords
    BY <1>s, <1>k DEF RunRecords, Idle
  <2>3. Fit(y)
    BY DEF Idle, Fit
  <2>4. QED BY <1>1, <2>1, <2>2, <2>3, RunnerMoves DEF AskPull, Shape, TypeOK
<1>2. CASE KeepRemote(r)
  <2> DEFINE p == IF link = NoLink THEN "recover" ELSE "load"
             y == [Idle EXCEPT !.job = "reload", !.id = local.id, !.link = link, !.pc = p]
  <2>1. run' = [run EXCEPT ![r] = y]
    BY <1>2 DEF KeepRemote
  <2>2. p \in {"recover", "load"} /\ local.id \in {0} \cup Ids
    BY DEF Shape, TypeOK
  <2> HIDE DEF p
  <2>3. y \in RunRecords /\ Fit(y)
    BY <1>s, <1>k, <2>2 DEF RunRecords, Idle, Fit
  <2>4. QED BY <1>2, <2>1, <2>3, RunnerMoves DEF KeepRemote, Twist, Shape, TypeOK
<1>3. CASE LoadRemote(r)
  <2> DEFINE y == [Idle EXCEPT !.job = "reload", !.pc = "look", !.key = remote.key,
                               !.got = remote.content]
  <2>1. CASE remote.state = "draft"
    <3>1. run' = [run EXCEPT ![r] = y] /\ UNCHANGED local
      BY <1>3, <2>1 DEF LoadRemote, Load
    <3>2. y \in RunRecords /\ Fit(y)
      BY <1>s, <1>k DEF RunRecords, Idle, Fit
    <3>3. QED BY <1>3, <3>1, <3>2, RunnerMoves DEF LoadRemote, Shape, TypeOK
  <2>2. CASE remote.state # "draft"
    BY <1>3, <2>2, LeaveMoves DEF LoadRemote, Shape, TypeOK
  <2>3. QED BY <2>1, <2>2
<1>4. CASE Look(r)
  <2> DEFINE y == [run[r] EXCEPT !.pc = "lock", !.link = link, !.id = local.id]
             z == [run[r] EXCEPT !.pc = "lock"]
  <2>1. link' \in Links
    <3>1. UnsureLink(run[r].key) \in Links
      BY <1>s DEF UnsureLink, Links, RunRecords
    <3>2. QED BY <1>4, <1>k, <3>1 DEF Look
  <2>2. CASE Leave(r)
    BY <1>4, <2>1, <2>2, LeaveMoves DEF Look, Shape, TypeOK
  <2>3. CASE ~Leave(r) /\ link # NoLink
    <3>1. run' = [run EXCEPT ![r] = y] /\ UNCHANGED local /\ At(r, "look")
      BY <1>4, <2>3 DEF Look
    <3>2. y \in RunRecords
      BY <1>s, <1>k DEF RunRecords, Shape, TypeOK
    <3>3. Fit(y)
      BY <1>s, <3>1 DEF RunRecords, Fit, At
    <3>4. QED BY <1>4, <2>1, <3>1, <3>2, <3>3, RunnerMoves DEF Look, Shape, TypeOK
  <2>4. CASE ~Leave(r) /\ link = NoLink
    <3>1. run' = [run EXCEPT ![r] = z] /\ UNCHANGED local
      BY <1>4, <2>4 DEF Look, GoTo
    <3>2. z \in RunRecords /\ Fit(z)
      BY <1>s DEF RunRecords, Fit
    <3>3. QED BY <1>4, <2>1, <3>1, <3>2, RunnerMoves DEF Look, Shape, TypeOK
  <2>5. QED BY <2>2, <2>3, <2>4
<1>5. CASE LockPull(r)
  <2> DEFINE i == IF Row(run[r].id) THEN run[r].id ELSE 0
             b == IF i = 0 THEN {} ELSE local.content
             y == [run[r] EXCEPT !.pc = "commit", !.id = i, !.link = NoLink, !.seen = b]
  <2>1. CASE Leave(r) /\ UNCHANGED active
    BY <1>5, <2>1, LeaveMoves DEF LockPull, Shape, TypeOK
  <2>2. CASE ~(Leave(r) /\ UNCHANGED active)
    <3>1. /\ run' = [run EXCEPT ![r] = y] /\ UNCHANGED local
          /\ active' = active \cup {i} /\ ~Pushing(r)
      BY <1>5, <2>2 DEF LockPull
    <3>2. i \in {0} \cup Ids /\ b \subseteq Edits
      BY <1>s DEF RunRecords, Shape, TypeOK
    <3> HIDE DEF i, b
    <3>3. y \in RunRecords
      BY <1>s, <3>2 DEF RunRecords
    <3>4. Fit(y)
      BY <1>s, <3>1 DEF RunRecords, Fit, Pushing
    <3>5. active' \subseteq {0} \cup Ids
      BY <3>1, <3>2 DEF Shape, TypeOK
    <3>6. QED BY <1>5, <3>1, <3>3, <3>4, <3>5, RunnerMoves DEF LockPull, Shape, TypeOK
  <2>3. QED BY <2>1, <2>2
<1>6. CASE Commit(r)
  <2>1. run' = [run EXCEPT ![r] = Idle]
    BY <1>6 DEF Commit
  <2>2. /\ local' \in [id : {0} \cup Ids, status : Statuses, content : SUBSET Edits]
        /\ local'.status # "none" => local'.id \in Ids
    BY <1>6, <1>s DEF Commit, Unedited, Row, Shape, TypeOK, Statuses, RunRecords
  <2>3. link' \in Links
    <3>1. LinkOf(run[r].key, run[r].got) \in Links
      BY <1>s DEF LinkOf, Links, RunRecords
    <3>2. QED BY <1>6, <1>k, <3>1 DEF Commit
  <2>4. QED BY <1>6, <2>1, <2>2, <2>3, IdleFits, RunnerMoves, UnlockTyped
            DEF Commit, Shape, TypeOK
<1>7. QED BY <1>1, <1>2, <1>3, <1>4, <1>5, <1>6

LEMMA ForgetTyped ==
    ASSUME Shape, Forget
    PROVE  /\ local' \in [id : {0} \cup Ids, status : Statuses, content : SUBSET Edits]
           /\ local'.id = local.id /\ local'.status = "none"
           /\ link' \in Links /\ claims' \subseteq Ids
BY IdleFits DEF Shape, TypeOK, Forget, NoRow, Statuses

LEMMA DeletionStepsShape ==
    ASSUME Shape, NEW r \in Runners,
           AskDrop(r) \/ Drop(r) \/ AskDelete(r) \/ Unmake(r) \/ DeleteHere(r)
    PROVE  Shape'
<1> USE DEF tables, history
<1>s. run[r] \in RunRecords /\ Fit(run[r]) /\ NoLink \in Links
  BY IdleFits DEF Shape, TypeOK
<1>1. CASE AskDrop(r)
  <2> DEFINE y == [Idle EXCEPT !.job = "drop", !.pc = "drop", !.id = local.id]
  <2>1. run' = [run EXCEPT ![r] = y]
    BY <1>1 DEF AskDrop
  <2>2. y \in RunRecords /\ Fit(y)
    BY <1>s DEF RunRecords, Idle, Fit, Shape, TypeOK
  <2>3. QED BY <1>1, <2>1, <2>2, RunnerMoves DEF AskDrop, Shape, TypeOK
<1>2. CASE Drop(r)
  <2>1. run' = [run EXCEPT ![r] = Idle]
    BY <1>2 DEF Drop
  <2>2. CASE Forget
    BY <1>2, <2>1, <2>2, IdleFits, RunnerMoves, ForgetTyped DEF Drop, Shape, TypeOK
  <2>3. CASE ~Forget
    <3>1. /\ local' \in [id : {0} \cup Ids, status : Statuses, content : SUBSET Edits]
          /\ local'.id = local.id /\ local'.status = local.status
      BY <1>2, <2>3 DEF Drop, Body, Shape, TypeOK
    <3>2. QED BY <1>2, <2>1, <2>3, <3>1, IdleFits, RunnerMoves DEF Drop, Shape, TypeOK
  <2>4. QED BY <2>2, <2>3
<1>3. CASE AskDelete(r)
  <2> DEFINE p == IF link # NoLink THEN "unmake"
                  ELSE IF local.id \in claims THEN "recover" ELSE "forget"
             y == [Idle EXCEPT !.job = "delete", !.id = local.id, !.link = link, !.pc = p]
  <2>1. run' = [run EXCEPT ![r] = y]
    BY <1>3 DEF AskDelete
  <2>2. p \in {"unmake", "recover", "forget"} /\ link \in Links /\ local.id \in {0} \cup Ids
    BY DEF Shape, TypeOK
  <2> HIDE DEF p
  <2>3. y \in RunRecords
    BY <1>s, <2>2 DEF RunRecords, Idle
  <2>4. Fit(y)
    BY <2>2 DEF Idle, Fit
  <2>5. QED BY <1>3, <2>1, <2>3, <2>4, RunnerMoves DEF AskDelete, Twist, Shape, TypeOK
<1>4. CASE Unmake(r)
  <2> DEFINE y == [run[r] EXCEPT !.pc = "forget", !.link = NoLink]
  <2>1. remote' \in [state : {"none", "draft", "gone"}, key : Nat, content : SUBSET Edits,
                     tag : {0} \cup Ids]
    BY <1>4 DEF Unmake, Shape, TypeOK
  <2>2. CASE Leave(r)
    BY <1>4, <2>1, <2>2, LeaveMoves DEF Unmake, Shape, TypeOK
  <2>3. CASE ~Leave(r)
    <3>1. run' = [run EXCEPT ![r] = y] /\ UNCHANGED local
      BY <1>4, <2>3 DEF Unmake
    <3>2. y \in RunRecords
      BY <1>s DEF RunRecords
    <3>3. Fit(y)
      BY <1>s DEF RunRecords, Fit
    <3>4. QED BY <1>4, <2>1, <3>1, <3>2, <3>3, RunnerMoves DEF Unmake, Shape, TypeOK
  <2>4. QED BY <2>2, <2>3
<1>5. CASE DeleteHere(r)
  <2>1. run' = [run EXCEPT ![r] = Idle]
    BY <1>5 DEF DeleteHere
  <2>2. CASE Forget
    BY <1>5, <2>1, <2>2, IdleFits, RunnerMoves, ForgetTyped DEF DeleteHere, Shape, TypeOK
  <2>3. CASE ~Forget
    BY <1>5, <2>1, <2>3, IdleFits, RunnerMoves DEF DeleteHere, Shape, TypeOK
  <2>4. QED BY <2>2, <2>3
<1>6. QED BY <1>1, <1>2, <1>3, <1>4, <1>5

LEMMA OutsideShape ==
    ASSUME Shape,
           \/ \E e \in Edits : EditHere(e) \/ EditInOutlook(e)
           \/ LeaveDrafts
           \/ Crash
    PROVE  Shape'
<1> USE DEF tables, history
<1>1. ASSUME NEW e \in Edits, EditHere(e)
      PROVE  Shape'
  <2>1. /\ local' \in [id : {0} \cup Ids, status : Statuses, content : SUBSET Edits]
        /\ local'.id = local.id /\ local.status # "none"
    BY <1>1 DEF EditHere, Editable, Shape, TypeOK, Statuses
  <2>2. QED BY <1>1, <2>1 DEF EditHere, Shape, TypeOK
<1>2. ASSUME NEW e \in Edits, EditInOutlook(e)
      PROVE  Shape'
  <2>1. remote.content \cup {e} \in SUBSET Edits
    BY DEF Shape, TypeOK
  <2>2. remote' = [remote EXCEPT !.content = remote.content \cup {e}, !.key = NewKey]
    BY <1>2 DEF EditInOutlook
  <2>3. remote' \in [state : {"none", "draft", "gone"}, key : Nat, content : SUBSET Edits,
                     tag : {0} \cup Ids]
    BY <2>1, <2>2, RemoteTyped
  <2>4. QED BY <1>2, <2>3 DEF EditInOutlook, Shape, TypeOK
<1>3. CASE LeaveDrafts
  <2>1. remote' \in [state : {"none", "draft", "gone"}, key : Nat, content : SUBSET Edits,
                     tag : {0} \cup Ids]
    BY <1>3 DEF LeaveDrafts, Shape, TypeOK
  <2>2. QED BY <1>3, <2>1 DEF LeaveDrafts, Shape, TypeOK
<1>4. CASE Crash
  BY <1>4, IdleFits DEF Crash, Twist, Shape, TypeOK
<1>5. QED BY <1>1, <1>2, <1>3, <1>4

LEMMA NextShape == Shape /\ [Next]_vars => Shape'
<1> SUFFICES ASSUME Shape, [Next]_vars PROVE Shape'  OBVIOUS
<1>1. CASE \E r \in Runners : Step(r)
  BY <1>1, PushStepsShape, RewriteStepsShape, ConfirmStepsShape, CreateStepsShape,
     SendStepsShape, PullStepsShape, DeletionStepsShape DEF Step
<1>2. CASE UNCHANGED vars
  BY <1>2 DEF vars, tables, history, Shape, TypeOK
<1>3. QED BY <1>1, <1>2, OutsideShape DEF Next

-----------------------------------------------------------------------------
(* One creation.                                                           *)

\* The steps that neither claim nor create.
NoneComes == \A s \in Runners : At(s, "create")' => At(s, "create") /\ run'[s].id = run[s].id
TakenStays == \A i \in Nat : Taken(i) => Taken(i)'
Calm == NoneComes /\ TakenStays /\ UNCHANGED created

LEMMA IdsOf == Shape => local.id \in Nat /\ \A r \in Runners : run[r].id \in Nat
BY DEF Shape, TypeOK, RunRecords, Ids

LEMMA CalmKeeps == Invariant /\ Calm => CreateInv'
BY IdsOf DEF Invariant, CreateInv, Calm, NoneComes, TakenStays, CreatedOnce, Ids, At

\* Where the row keeps its id, and is not made again, claims only grow.
LEMMA RowKept ==
    ASSUME local'.id = local.id, local.status = "none" => local'.status = "none",
           claims \subseteq claims'
    PROVE  TakenStays
BY DEF TakenStays, Taken, Dead

\* The runner that steps is not at the call afterwards.
LEMMA OneMoves ==
    ASSUME Shape, NEW r \in Runners, NEW y, y.pc # "create", run' = [run EXCEPT ![r] = y]
    PROVE  NoneComes
BY DEF Shape, TypeOK, NoneComes, At

LEMMA LeaveCalm ==
    ASSUME Shape, NEW r \in Runners, Leave(r)
    PROVE  NoneComes /\ local'.id = local.id /\ (local.status = "none" <=> local'.status = "none")
<1>1. run' = [run EXCEPT ![r] = Idle]
  BY DEF Leave
<1>2. Idle.pc # "create"
  BY DEF Idle
<1>3. QED BY <1>1, <1>2, OneMoves, LeaveMoves

LEMMA ForgetCalm == Shape /\ Forget => TakenStays
BY IdsOf DEF Forget, NoRow, TakenStays, Taken, Dead

LEMMA PushStepsCalm ==
    ASSUME Shape, NEW r \in Runners,
           \/ AskPush(r) \/ KeepLocal(r) \/ BeginSend(r) \/ ReadDraft(r)
           \/ Refused(r) \/ LockPush(r) \/ PushEndsEarly(r)
    PROVE  Calm
<1> USE DEF tables, history
<1>t. run \in [Runners -> RunRecords]
  BY DEF Shape, TypeOK
<1>1. CASE AskPush(r) \/ KeepLocal(r) \/ ReadDraft(r) \/ LockPush(r)
  <2>1. NoneComes
    <3>1. CASE AskPush(r) \/ KeepLocal(r)
      BY <1>t, <3>1 DEF AskPush, KeepLocal, Start, NoneComes, At, Idle
    <3>2. CASE ReadDraft(r)
      BY <1>t, <3>2 DEF ReadDraft, NoneComes, At
    <3>3. CASE LockPush(r)
      <4> DEFINE i == run[r].id
                 l == IF Row(i) THEN link ELSE NoLink
                 p == CASE l = NoLink /\ Row(i) /\ i \in claims -> "recover"
                        [] l = NoLink /\ ~(Row(i) /\ i \in claims) -> "claim"
                        [] l # NoLink -> "fetch"
                 y == [run[r] EXCEPT !.pc = p, !.link = l]
      <4>1. p # "create"
        OBVIOUS
      <4>2. run' = [run EXCEPT ![r] = y]
        BY <3>3 DEF LockPush
      <4> HIDE DEF p, l
      <4>3. y.pc # "create"
        BY <1>t, <4>1 DEF RunRecords
      <4>4. QED BY <4>2, <4>3, OneMoves
    <3>4. QED BY <1>1, <3>1, <3>2, <3>3
  <2>2. local' = local /\ claims' = claims /\ created' = created
    BY <1>1 DEF AskPush, KeepLocal, ReadDraft, LockPush
  <2>3. QED BY <2>1, <2>2, RowKept DEF Calm
<1>2. CASE BeginSend(r)
  <2>1. NoneComes
    BY <1>t, <1>2 DEF BeginSend, NoneComes, At, Idle
  <2>2. /\ local'.id = local.id /\ local.status # "none"
        /\ claims' = claims /\ created' = created
    BY <1>2 DEF BeginSend, Editable, Shape, TypeOK
  <2>3. QED BY <2>1, <2>2, RowKept DEF Calm
<1>3. CASE Refused(r)
  BY <1>3, LeaveCalm, RowKept DEF Refused, Calm
<1>4. CASE PushEndsEarly(r)
  <2>1. CASE Leave(r)
    BY <1>4, <2>1, LeaveCalm, RowKept DEF PushEndsEarly, Calm
  <2>2. CASE ~Leave(r)
    <3>1. NoneComes
      BY <1>t, <1>4, <2>2 DEF PushEndsEarly, NoneComes, At, RunRecords
    <3>2. local' = local /\ claims' = claims /\ created' = created
      BY <1>4, <2>2 DEF PushEndsEarly
    <3>3. QED BY <3>1, <3>2, RowKept DEF Calm
  <2>3. QED BY <2>1, <2>2
<1>5. QED BY <1>1, <1>2, <1>3, <1>4

LEMMA RewriteStepsCalm ==
    ASSUME Shape, NEW r \in Runners,
           \/ FetchRemote(r) \/ Update(r) \/ Detach(r) \/ Attach(r) \/ Confirm(r)
           \/ CallFails(r) \/ LinkCreated(r) \/ Recover(r)
    PROVE  Calm
<1> USE DEF tables, history
<1>t. run \in [Runners -> RunRecords]
  BY DEF Shape, TypeOK
<1>1. claims' = claims /\ created' = created
  BY DEF FetchRemote, Update, Detach, Attach, Confirm, CallFails, LinkCreated, Recover
<1>2. CASE Fail(r)
  BY <1>1, <1>2, LeaveCalm, RowKept DEF Fail, Calm
<1>3. CASE ~Fail(r)
  <2>1. local' = local
    BY <1>3 DEF FetchRemote, Update, Detach, Attach, Confirm, CallFails, LinkCreated, Recover
  <2>2. NoneComes
    <3>1. CASE FetchRemote(r)
      <4> DEFINE y == [run[r] EXCEPT !.pc = "update", !.key = remote.key, !.link = NoLink]
      <4>1. run' = [run EXCEPT ![r] = y]
        BY <1>3, <3>1 DEF FetchRemote
      <4>2. y.pc # "create"
        BY <1>t DEF RunRecords
      <4>3. QED BY <4>1, <4>2, OneMoves
    <3>2. CASE Update(r)
      <4> DEFINE p == StepAfter(r, remote.content)
                 y == [run[r] EXCEPT !.pc = p, !.key = NewKey,
                                    !.got = FilesOf(remote.content)]
      <4>1. run' = [run EXCEPT ![r] = y]
        BY <1>3, <3>2 DEF Update
      <4>2. p # "create"
        BY StepAfterRange
      <4> HIDE DEF p
      <4>3. y.pc # "create"
        BY <1>t, <4>2 DEF RunRecords
      <4>4. QED BY <4>1, <4>3, OneMoves
    <3>3. CASE Detach(r)
      <4> DEFINE p == StepAfter(r, {})
                 y == [run[r] EXCEPT !.pc = p, !.key = NewKey, !.got = {}]
      <4>1. run' = [run EXCEPT ![r] = y]
        BY <1>3, <3>3 DEF Detach
      <4>2. p # "create"
        BY StepAfterRange
      <4> HIDE DEF p
      <4>3. y.pc # "create"
        BY <1>t, <4>2 DEF RunRecords
      <4>4. QED BY <4>1, <4>3, OneMoves
    <3>4. CASE Attach(r)
      <4> DEFINE y == [run[r] EXCEPT !.pc = "confirm", !.key = NewKey]
      <4>1. run' = [run EXCEPT ![r] = y]
        BY <1>3, <3>4 DEF Attach
      <4>2. y.pc # "create"
        BY <1>t DEF RunRecords
      <4>3. QED BY <4>1, <4>2, OneMoves
    <3>5. CASE Confirm(r)
      <4> DEFINE y == [run[r] EXCEPT !.pc = "send", !.seen = {}]
      <4>1. run' = [run EXCEPT ![r] = y]
        BY <1>3, <3>5 DEF Confirm
      <4>2. y.pc # "create"
        BY <1>t DEF RunRecords
      <4>3. QED BY <4>1, <4>2, OneMoves
    <3>6. CASE CallFails(r)
      BY <1>3, <3>6 DEF CallFails
    <3>7. CASE LinkCreated(r)
      <4> DEFINE p == StepAfter(r, {})
                 y == [run[r] EXCEPT !.pc = p]
      <4>1. run' = [run EXCEPT ![r] = y]
        BY <1>3, <3>7 DEF LinkCreated, GoTo
      <4>2. p # "create"
        BY StepAfterRange
      <4> HIDE DEF p
      <4>3. y.pc # "create"
        BY <1>t, <4>2 DEF RunRecords
      <4>4. QED BY <4>1, <4>3, OneMoves
    <3>8. CASE Recover(r)
      <4> DEFINE p == StepAfterRecovery(r)
                 y == [run[r] EXCEPT !.pc = p, !.link = UnsureLink(remote.key)]
      <4>1. run' = [run EXCEPT ![r] = y] /\ run[r].job \notin {"push", "send"}
        BY <1>3, <3>8 DEF Recover
      <4>2. run[r].job \in {"keep", "reload", "delete"}
        BY <3>8, <4>1 DEF Recover, At, Shape, Fit
      <4>3. p # "create"
        BY <4>2 DEF StepAfterRecovery
      <4> HIDE DEF p
      <4>4. y.pc # "create"
        BY <1>t, <4>3 DEF RunRecords
      <4>5. QED BY <4>1, <4>4, OneMoves
    <3>9. QED BY <3>1, <3>2, <3>3, <3>4, <3>5, <3>6, <3>7, <3>8
  <2>3. QED BY <1>1, <2>1, <2>2, RowKept DEF Calm
<1>4. QED BY <1>2, <1>3

LEMMA SendAndPullStepsCalm ==
    ASSUME Shape, NEW r \in Runners,
           \/ Send(r) \/ Finish(r) \/ AskPull(r) \/ KeepRemote(r) \/ LoadRemote(r)
           \/ Look(r) \/ LockPull(r)
    PROVE  Calm
<1> USE DEF tables, history
<1>t. run \in [Runners -> RunRecords]
  BY DEF Shape, TypeOK
<1>1. claims' = claims /\ created' = created
  BY DEF Send, Finish, AskPull, KeepRemote, LoadRemote, Look, LockPull
<1>2. CASE Leave(r)
  BY <1>1, <1>2, LeaveCalm, RowKept DEF Calm
<1>3. CASE ~Leave(r)
  <2>1. local'.id = local.id /\ (local.status = "none" => local'.status = "none")
    BY <1>3 DEF Send, Finish, Row, AskPull, KeepRemote, LoadRemote, Look, LockPull, Shape, TypeOK
  <2>2. NoneComes
    <3>1. CASE Send(r) \/ Finish(r)
      <4> DEFINE y == [Idle EXCEPT !.job = "send", !.pc = "finish", !.id = run[r].id]
      <4>1. run' = [run EXCEPT ![r] = y] \/ run' = [run EXCEPT ![r] = Idle]
        BY <1>3, <3>1 DEF Send, Finish
      <4>2. y.pc # "create" /\ Idle.pc # "create"
        BY DEF Idle
      <4>3. QED BY <4>1, <4>2, OneMoves
    <3>2. CASE AskPull(r) \/ KeepRemote(r) \/ LoadRemote(r)
      BY <1>t, <1>3, <3>2 DEF AskPull, KeepRemote, LoadRemote, Load, NoneComes, At, Idle
    <3>3. CASE Look(r)
      <4> DEFINE y == [run[r] EXCEPT !.pc = "lock", !.link = link, !.id = local.id]
                 z == [run[r] EXCEPT !.pc = "lock"]
      <4>1. run' = [run EXCEPT ![r] = y] \/ run' = [run EXCEPT ![r] = z]
        BY <1>3, <3>3 DEF Look, GoTo
      <4>2. y.pc # "create" /\ z.pc # "create"
        BY <1>t DEF RunRecords
      <4>3. QED BY <4>1, <4>2, OneMoves
    <3>4. CASE LockPull(r)
      <4> DEFINE i == IF Row(run[r].id) THEN run[r].id ELSE 0
                 b == IF i = 0 THEN {} ELSE local.content
                 y == [run[r] EXCEPT !.pc = "commit", !.id = i, !.link = NoLink, !.seen = b]
      <4>1. run' = [run EXCEPT ![r] = y]
        BY <1>3, <3>4 DEF LockPull
      <4> HIDE DEF i, b
      <4>2. y.pc # "create"
        BY <1>t DEF RunRecords
      <4>3. QED BY <4>1, <4>2, OneMoves
    <3>5. QED BY <3>1, <3>2, <3>3, <3>4
  <2>3. QED BY <1>1, <2>1, <2>2, RowKept DEF Calm
<1>4. QED BY <1>2, <1>3

LEMMA TableStepsCalm ==
    ASSUME Shape, NEW r \in Runners,
           \/ Commit(r)
           \/ AskDrop(r) \/ Drop(r) \/ AskDelete(r) \/ Unmake(r) \/ DeleteHere(r)
    PROVE  Calm
<1> USE DEF tables, history
<1>t. run \in [Runners -> RunRecords]
  BY DEF Shape, TypeOK
<1>1. CASE Commit(r)
  <2>1. NoneComes
    BY <1>t, <1>1 DEF Commit, NoneComes, At, Idle
  <2>2. CASE local.status # "none"
    <3>1. local'.id = local.id
      BY <1>1, <2>2 DEF Commit, Shape, TypeOK
    <3>2. QED BY <1>1, <2>1, <2>2, <3>1, RowKept DEF Commit, Calm
  <2>3. CASE local.status = "none"
    <3>1. local' = local \/ local'.id = local.id + 1
      BY <1>1, <2>3 DEF Commit, Unedited, Row
    <3>2. claims' = claims /\ created' = created
      BY <1>1 DEF Commit
    <3>3. TakenStays
      BY <3>1, <3>2, IdsOf DEF TakenStays, Taken, Dead
    <3>4. QED BY <2>1, <3>2, <3>3 DEF Calm
  <2>4. QED BY <2>2, <2>3
<1>2. CASE AskDrop(r) \/ AskDelete(r)
  <2>1. NoneComes
    BY <1>t, <1>2 DEF AskDrop, AskDelete, NoneComes, At, Idle
  <2>2. QED BY <1>2, <2>1, RowKept DEF AskDrop, AskDelete, Calm
<1>3. CASE Drop(r) \/ DeleteHere(r)
  <2>1. NoneComes /\ created' = created
    BY <1>t, <1>3 DEF Drop, DeleteHere, NoneComes, At, Idle
  <2>2. TakenStays
    <3>1. CASE Forget
      BY <3>1, ForgetCalm
    <3>2. CASE ~Forget
      <4>1. local'.id = local.id /\ local'.status = local.status /\ claims' = claims
        BY <1>3, <3>2 DEF Drop, DeleteHere, Shape, TypeOK
      <4>2. QED BY <4>1, RowKept
    <3>3. QED BY <3>1, <3>2
  <2>3. QED BY <2>1, <2>2 DEF Calm
<1>4. CASE Unmake(r)
  <2>1. claims' = claims /\ created' = created
    BY <1>4 DEF Unmake
  <2>2. CASE Leave(r)
    BY <2>1, <2>2, LeaveCalm, RowKept DEF Calm
  <2>3. CASE ~Leave(r)
    <3> DEFINE y == [run[r] EXCEPT !.pc = "forget", !.link = NoLink]
    <3>1. run' = [run EXCEPT ![r] = y] /\ local' = local
      BY <1>4, <2>3 DEF Unmake
    <3>2. y.pc # "create"
      BY <1>t DEF RunRecords
    <3>3. NoneComes
      BY <3>1, <3>2, OneMoves
    <3>4. QED BY <2>1, <3>1, <3>3, RowKept DEF Calm
  <2>4. QED BY <2>2, <2>3
<1>5. QED BY <1>1, <1>2, <1>3, <1>4

LEMMA OutsideCalm ==
    ASSUME Shape,
           \/ \E e \in Edits : EditHere(e) \/ EditInOutlook(e)
           \/ LeaveDrafts
           \/ Crash
    PROVE  Calm
<1> USE DEF tables, history
<1>1. claims' = claims /\ created' = created
  BY DEF EditHere, EditInOutlook, LeaveDrafts, Crash
<1>2. local'.id = local.id /\ (local.status = "none" => local'.status = "none")
  BY DEF EditHere, Editable, EditInOutlook, LeaveDrafts, Crash, Shape, TypeOK
<1>3. NoneComes
  <2>1. CASE Crash
    BY <2>1 DEF Crash, NoneComes, At, Idle
  <2>2. CASE run' = run
    BY <2>2 DEF NoneComes, At
  <2>3. QED BY <2>1, <2>2 DEF EditHere, EditInOutlook, LeaveDrafts
<1>4. QED BY <1>1, <1>2, <1>3, RowKept DEF Calm

\* Claiming needs a row without a claim: nobody is at the call for it, and none
\* has been.
LEMMA ClaimKeeps ==
    ASSUME Invariant, NEW r \in Runners, Claim(r)
    PROVE  CreateInv'
<1> USE DEF tables, history
<1>t. Shape /\ CreateInv /\ run \in [Runners -> RunRecords]
  BY DEF Invariant, Shape, TypeOK
<1>1. CASE Fail(r)
  <2>1. local'.id = local.id /\ (local.status = "none" => local'.status = "none") /\ NoneComes
    BY <1>1, <1>t, LeaveCalm DEF Fail
  <2>2. claims \subseteq claims' /\ created' = created
    BY DEF Claim
  <2>3. Calm
    BY <2>1, <2>2, RowKept DEF Calm
  <2>4. QED BY <2>3, CalmKeeps
<1>2. CASE ~Fail(r)
  <2> DEFINE i == run[r].id
             y == [run[r] EXCEPT !.pc = "create"]
  <2>1. /\ Row(i) /\ i \notin claims /\ claims' = claims \cup {i}
        /\ run' = [run EXCEPT ![r] = y] /\ local' = local /\ created' = created
    BY <1>2 DEF Claim, GoTo
  <2>2. i \in Ids
    BY <1>t DEF Claim, At, Shape, Fit
  <2>3. ~Taken(i)
    BY <2>1, <1>t, IdsOf DEF Taken, Dead, Row
  <2>4. created[i] = 0 /\ \A s \in Runners : At(s, "create") => run[s].id # i
    BY <2>2, <2>3, <1>t DEF CreateInv, Shape, TypeOK
  <2>5. \A j : Taken(j) => Taken(j)'
    BY <2>1 DEF Taken, Dead
  <2>6. /\ run'[r].id = i
        /\ \A s \in Runners : s # r => run'[s] = run[s]
    BY <2>1, <1>t DEF RunRecords
  <2>7. Taken(run[r].id)'
    BY <2>1, <2>6 DEF Taken
  <2> HIDE DEF i, y
  <2>8. \A s \in Runners : At(s, "create")' => (Taken(run[s].id) /\ created[run[s].id] = 0)'
    <3> SUFFICES ASSUME NEW s \in Runners, At(s, "create")'
                 PROVE  (Taken(run[s].id) /\ created[run[s].id] = 0)'
      OBVIOUS
    <3>1. CASE s = r
      BY <3>1, <2>1, <2>4, <2>6, <2>7
    <3>2. CASE s # r
      <4>1. run'[s] = run[s] /\ At(s, "create")
        BY <3>2, <2>6 DEF At
      <4>2. Taken(run[s].id) /\ created[run[s].id] = 0
        BY <4>1, <1>t DEF CreateInv
      <4>3. QED BY <4>1, <4>2, <2>1, <2>5
    <3>3. QED BY <3>1, <3>2
  <2>9. \A q, s \in Runners :
          At(q, "create")' /\ At(s, "create")' /\ run'[q].id = run'[s].id => q = s
    BY <2>4, <2>6, <1>t DEF CreateInv, At
  <2>10. QED BY <2>1, <2>5, <2>8, <2>9, <1>t DEF CreateInv, CreatedOnce
<1>3. QED BY <1>1, <1>2

LEMMA CreateKeeps ==
    ASSUME Invariant, NEW r \in Runners, Create(r)
    PROVE  CreateInv'
<1> USE DEF tables, history
<1> DEFINE i == run[r].id
<1>t. Shape /\ CreateInv /\ run \in [Runners -> RunRecords] /\ created \in [Ids -> Nat]
  BY DEF Invariant, Shape, TypeOK
<1>1. /\ created' = [created EXCEPT ![i] = @ + 1] /\ claims' = claims /\ At(r, "create")
  BY DEF Create
<1>2. /\ NoneComes /\ ~At(r, "create")' /\ local'.id = local.id
      /\ local.status = "none" => local'.status = "none"
  <2>1. CASE Fail(r)
    <3>1. run'[r] = Idle
      BY <2>1, <1>t DEF Fail, Leave
    <3>2. QED BY <2>1, <3>1, <1>t, LeaveCalm DEF Fail, At, Idle
  <2>2. CASE ~Fail(r)
    <3> DEFINE y == [run[r] EXCEPT !.pc = "link", !.key = 1]
    <3>1. run' = [run EXCEPT ![r] = y] /\ local' = local
      BY <2>2 DEF Create
    <3>2. y.pc # "create"
      BY <1>t DEF RunRecords
    <3>3. run'[r] = y
      BY <3>1, <1>t
    <3>4. QED BY <3>1, <3>2, <3>3, <1>t, OneMoves DEF At
  <2>3. QED BY <2>1, <2>2
<1>3. \A j \in Nat : Taken(j) => Taken(j)'
  BY <1>1, <1>2, RowKept DEF TakenStays
<1>4. i \in Ids /\ i \in Nat /\ Taken(i) /\ created[i] = 0
  BY <1>1, <1>t DEF Shape, Fit, CreateInv, At, Ids
<1>5. \A s \in Runners : At(s, "create")' => run'[s].id # i
  BY <1>1, <1>2, <1>t DEF NoneComes, CreateInv
<1>6. created'[i] = 1 /\ \A j \in Ids : j # i => created'[j] = created[j]
  BY <1>1, <1>4, <1>t
<1> HIDE DEF i
<1>7. \A s \in Runners : At(s, "create")' => (Taken(run[s].id) /\ created[run[s].id] = 0)'
  <2> SUFFICES ASSUME NEW s \in Runners, At(s, "create")'
               PROVE  (Taken(run[s].id) /\ created[run[s].id] = 0)'
    OBVIOUS
  <2>1. At(s, "create") /\ run'[s].id = run[s].id /\ run[s].id \in Ids
    BY <1>2, <1>t DEF NoneComes, Shape, Fit, At
  <2>2. run[s].id \in Nat
    BY <1>t, IdsOf
  <2>3. QED BY <2>1, <2>2, <1>3, <1>5, <1>6, <1>t DEF CreateInv
<1>8. \A q, s \in Runners :
        At(q, "create")' /\ At(s, "create")' /\ run'[q].id = run'[s].id => q = s
  BY <1>2, <1>t DEF NoneComes, CreateInv
<1>9. \A j \in Ids : created'[j] <= 1 /\ (created'[j] > 0 => Taken(j)')
  BY <1>3, <1>4, <1>6, <1>t DEF CreateInv, CreatedOnce, Ids
<1>10. QED BY <1>7, <1>8, <1>9 DEF CreateInv, CreatedOnce

\* The claim is taken back by the only runner that could have used it.
LEMMA RefusalKeeps ==
    ASSUME Invariant, NEW r \in Runners, CreateRefused(r)
    PROVE  CreateInv'
<1> USE DEF tables, history
<1> DEFINE i == run[r].id
<1>t. Shape /\ CreateInv /\ run \in [Runners -> RunRecords] /\ created \in [Ids -> Nat]
  BY DEF Invariant, Shape, TypeOK
<1>1. /\ created' = created /\ At(r, "create") /\ claims \ {i} \subseteq claims'
      /\ Leave(r)
  BY DEF CreateRefused, Fail
<1>2. /\ NoneComes /\ local'.id = local.id
      /\ local.status = "none" => local'.status = "none"
  BY <1>1, <1>t, LeaveCalm
<1>3. ~At(r, "create")'
  BY <1>1, <1>t DEF Leave, At, Idle
<1>4. \A j : Taken(j) /\ j # i => Taken(j)'
  BY <1>1, <1>2 DEF Taken, Dead
<1>5. created[i] = 0 /\ \A s \in Runners : At(s, "create")' => run[s].id # i
  BY <1>1, <1>2, <1>3, <1>t DEF NoneComes, CreateInv
<1> HIDE DEF i
<1>6. QED BY <1>1, <1>2, <1>4, <1>5, <1>t DEF NoneComes, CreateInv, CreatedOnce

LEMMA NextInvariant == Invariant /\ [Next]_vars => Invariant'
<1> SUFFICES ASSUME Invariant, [Next]_vars PROVE Invariant'  OBVIOUS
<1>1. Shape /\ Shape'
  BY NextShape DEF Invariant
<1>2. CreateInv'
  <2>1. ASSUME NEW r \in Runners, Step(r)
        PROVE  CreateInv'
    BY <2>1, <1>1, PushStepsCalm, RewriteStepsCalm, SendAndPullStepsCalm, TableStepsCalm,
       CalmKeeps, ClaimKeeps, CreateKeeps, RefusalKeeps DEF Step
  <2>2. CASE UNCHANGED vars
    BY <2>2 DEF vars, tables, history, Invariant, CreateInv, CreatedOnce, At, Taken, Dead
  <2>3. QED BY <2>1, <2>2, <1>1, OutsideCalm, CalmKeeps DEF Next
<1>3. QED BY <1>1, <1>2 DEF Invariant

-----------------------------------------------------------------------------
(* What the link and the runners know of the item (TruthInv).              *)

Truth == Invariant /\ TruthInv

\* One edit is in the content of an item exactly if it is in the other.
LEMMA AlikeMeans ==
    ASSUME NEW c, NEW d
    PROVE  Alike(c, d) <=> \A e : e \notin unseen => (e \in c <=> e \in d)
BY DEF Alike

LEMMA BodyAndFiles ==
    ASSUME NEW c
    PROVE  /\ FilesOf(c) \subseteq Files
           /\ \A e : e \in Body(c) <=> e \in c /\ e \notin Files
           /\ c = Body(c) \cup FilesOf(c)
           /\ FilesOf(c) = {} => Body(c) = c
BY DEF FilesOf, Body

LEMMA InitTruth == Init => TruthInv
<1> SUFFICES ASSUME Init PROVE TruthInv  OBVIOUS
<1>1. \A r \in Runners : run[r] = Idle
  BY DEF Init
<1>2. /\ \/ local = [id |-> 1, status |-> "draft", content |-> {}]
            /\ remote = [state |-> "none", key |-> 0, content |-> {}, tag |-> 0]
         \/ local = [id |-> 0, status |-> "none", content |-> {}]
            /\ remote = [state |-> "draft", key |-> 1, content |-> {}, tag |-> 0]
      /\ link = NoLink /\ sent = {} /\ unseen = {}
  BY DEF Init, NoRow, NoItem
<1>3. Knows(Idle)
  BY <1>2 DEF Knows, KnowsNoItem, NamesRow, KeysAreOld, TellsTruth, SendsConfirmed, Idle, NoLink
<1>4. RunnersKnow /\ OneSend /\ DetachedIsUnseen
  BY <1>1, <1>3 DEF RunnersKnow, OneSend, DetachedIsUnseen, At, Idle
<1>5. ItemInv /\ SentIsGone /\ LinkTellsTruth
  BY <1>2 DEF ItemInv, SentIsGone, LinkTellsTruth, NoLink
<1>6. SentIsConfirmed
  BY <1>2, FS_EmptySet DEF SentIsConfirmed
<1>7. QED BY <1>4, <1>5, <1>6 DEF TruthInv

\* Ids of rows only grow, and a row that is there was there, with its claim.
RowsGrow ==
    /\ local.id <= local'.id
    /\ remote.state # "none" =>
          \A i \in Nat : i <= local.id /\ local'.status # "none" /\ local'.id = i =>
              Row(i) /\ (i \in claims => i \in claims')

\* The row a send is about stays as it is, as long as it can be sent.
SendUndisturbed(r) == run[r].job = "send" /\ remote.state # "gone" => local' = local

LEMMA Typing ==
    ASSUME Shape
    PROVE  /\ local.id \in Nat /\ remote.key \in Nat /\ link.key \in Nat
           /\ \A s \in Runners :
                 /\ run[s] \in RunRecords
                 /\ run[s].id \in Nat /\ run[s].key \in Nat /\ run[s].link.key \in Nat
BY DEF Shape, TypeOK, Links, RunRecords, Ids

\* A runner that another one does not disturb, while the item stays as it is.
LEMMA QuietKnows ==
    ASSUME Truth, Shape', NEW q \in Runners, run'[q] = run[q],
           remote' = remote, unseen' = unseen, RowsGrow, SendUndisturbed(q)
    PROVE  Knows(run[q])'
<1> DEFINE s == run[q]
<1>1. Knows(s) /\ run'[q] = s
  BY DEF Truth, TruthInv, RunnersKnow
<1>2. s.id \in Nat /\ local.id \in Nat /\ local'.id \in Nat
  BY Typing DEF Truth, Invariant, Shape, TypeOK, Ids
<1> HIDE DEF s
<1>3. KnowsNoItem(run[q])'
  BY <1>1 DEF Knows, KnowsNoItem
<1>4. NamesRow(run[q])'
  BY <1>1, <1>2 DEF Knows, NamesRow, RowsGrow, Row
<1>5. KeysAreOld(run[q])'
  BY <1>1 DEF Knows, KeysAreOld
<1>6. TellsTruth(run[q])'
  BY <1>1 DEF Knows, TellsTruth, Alike
<1>7. SendsConfirmed(run[q])'
  BY <1>1 DEF Knows, SendsConfirmed, SendUndisturbed, Row, s
<1>8. QED BY <1>3, <1>4, <1>5, <1>6, <1>7 DEF Knows

\* One runner steps, and the item stays as it is.
LEMMA QuietStep ==
    ASSUME Truth, Shape', NEW r \in Runners, NEW y, run' = [run EXCEPT ![r] = y],
           remote' = remote, unseen' = unseen, sent' = sent, RowsGrow,
           \A q \in Runners \ {r} : SendUndisturbed(q),
           y.pc # "detach",
           y.job = "send" => run[r].job = "send" \/ \A q \in Runners : run[q].job # "send",
           Knows(run[r])', ItemInv', LinkTellsTruth'
    PROVE  TruthInv'
<1>1. \A q \in Runners : q # r => run'[q] = run[q]
  BY DEF Truth, Invariant, Shape, TypeOK
<1>2. run'[r] = y
  BY DEF Truth, Invariant, Shape, TypeOK
<1>3. RunnersKnow'
  BY <1>1, QuietKnows DEF RunnersKnow
<1>4. OneSend'
  BY <1>1, <1>2 DEF Truth, TruthInv, OneSend
<1>5. DetachedIsUnseen'
  <2>1. \A q \in Runners : At(q, "detach")' => At(q, "detach")
    BY <1>1, <1>2 DEF At
  <2>2. QED BY <2>1 DEF Truth, TruthInv, DetachedIsUnseen
<1>6. SentIsGone' /\ SentIsConfirmed'
  BY DEF Truth, TruthInv, SentIsGone, SentIsConfirmed
<1>7. QED BY <1>3, <1>4, <1>5, <1>6 DEF TruthInv

\* The same, where the rows stay as they are too.
LEMMA MoveStep ==
    ASSUME Truth, Shape', NEW r \in Runners, NEW y \in RunRecords, run' = [run EXCEPT ![r] = y],
           UNCHANGED <<local, link, claims, remote, unseen, sent>>,
           y.pc # "detach",
           y.job = "send" => run[r].job = "send" \/ \A q \in Runners : run[q].job # "send",
           Knows(y)
    PROVE  TruthInv'
<1>1. run'[r] = y
  BY DEF Truth, Invariant, Shape, TypeOK
<1>2. Knows(run[r])'
  <2>1. KnowsNoItem(run[r])' /\ KeysAreOld(run[r])' /\ SendsConfirmed(run[r])'
    BY <1>1 DEF Knows, KnowsNoItem, KeysAreOld, SendsConfirmed, Row
  <2>2. NamesRow(run[r])' /\ TellsTruth(run[r])'
    BY <1>1 DEF Knows, NamesRow, TellsTruth, Row, Alike
  <2>3. QED BY <2>1, <2>2 DEF Knows
<1>3. ItemInv' /\ LinkTellsTruth'
  BY DEF Truth, TruthInv, ItemInv, LinkTellsTruth
<1>4. RowsGrow /\ \A q \in Runners : SendUndisturbed(q)
  BY Typing DEF RowsGrow, SendUndisturbed, Row, Truth, Invariant
<1>5. QED BY <1>2, <1>3, <1>4, QuietStep

\* A runner gives up: it knows nothing any more.
LEMMA IdleKnows ==
    ASSUME TruthInv, Shape
    PROVE  Knows(Idle)
<1>1. NoLink.key = 0 /\ 0 <= local.id /\ 0 <= remote.key
  BY Typing DEF NoLink
<1>2. /\ Idle.id = 0 /\ Idle.link = NoLink /\ Idle.key = 0
      /\ Idle.pc = "idle" /\ Idle.job = "none"
  BY DEF Idle
<1>3. KnowsNoItem(Idle) /\ NamesRow(Idle) /\ KeysAreOld(Idle)
  BY <1>1, <1>2 DEF KnowsNoItem, NamesRow, KeysAreOld
<1>4. TellsTruth(Idle) /\ SendsConfirmed(Idle)
  BY <1>2 DEF TellsTruth, SendsConfirmed
<1>5. QED BY <1>3, <1>4 DEF Knows

LEMMA IdleMoves ==
    ASSUME Truth, Shape', NEW r \in Runners, run' = [run EXCEPT ![r] = Idle],
           remote' = remote, unseen' = unseen, local.id <= local'.id
    PROVE  Knows(run[r])'
<1>1. run'[r] = Idle
  BY DEF Truth, Invariant, Shape, TypeOK
<1>2. NoLink.key = 0 /\ 0 <= local'.id /\ 0 <= remote'.key
  BY Typing DEF NoLink, Shape, TypeOK, Ids
<1>3. /\ Idle.id = 0 /\ Idle.link = NoLink /\ Idle.key = 0
      /\ Idle.pc = "idle" /\ Idle.job = "none"
  BY DEF Idle
<1>4. KnowsNoItem(run[r])' /\ NamesRow(run[r])' /\ KeysAreOld(run[r])'
  BY <1>1, <1>2, <1>3 DEF KnowsNoItem, NamesRow, KeysAreOld
<1>5. TellsTruth(run[r])' /\ SendsConfirmed(run[r])'
  BY <1>1, <1>3 DEF TellsTruth, SendsConfirmed
<1>6. QED BY <1>4, <1>5 DEF Knows

\* A runner leaves; the row of a send that failed is marked, and no other.
LEMMA LeaveStep ==
    ASSUME Truth, Shape', NEW r \in Runners, Leave(r),
           remote' = remote, unseen' = unseen, sent' = sent,
           claims \subseteq claims' \/ remote.state = "none",
           ItemInv', LinkTellsTruth'
    PROVE  TruthInv'
<1>1. run' = [run EXCEPT ![r] = Idle]
  BY DEF Leave
<1>2. local'.id = local.id /\ (local'.status = "none" <=> local.status = "none")
  BY LeaveMoves DEF Truth, Invariant
<1>3. RowsGrow
  BY <1>2, Typing DEF RowsGrow, Row, Truth, Invariant
<1>4. \A q \in Runners \ {r} : SendUndisturbed(q)
  <2> SUFFICES ASSUME NEW q \in Runners, q # r, run[q].job = "send" PROVE local' = local
    BY DEF SendUndisturbed
  <2>1. run[r].job # "send"
    BY DEF Truth, TruthInv, OneSend
  <2>2. QED BY <2>1 DEF Leave
<1>5. Knows(run[r])'
  <2>1. local.id <= local'.id
    BY <1>2, Typing DEF Truth, Invariant
  <2>2. QED BY <1>1, <2>1, IdleMoves
<1>6. Idle.pc # "detach" /\ Idle.job # "send"
  BY DEF Idle
<1>7. QED BY <1>1, <1>3, <1>4, <1>5, <1>6, QuietStep

\* Where link and claims stay too.
LEMMA LeaveQuietly ==
    ASSUME Truth, Shape', NEW r \in Runners, Leave(r),
           UNCHANGED <<link, claims, remote, unseen, sent>>
    PROVE  TruthInv'
<1>1. local'.id = local.id /\ (local'.status = "none" <=> local.status = "none")
  BY LeaveMoves DEF Truth, Invariant
<1>2. ItemInv' /\ LinkTellsTruth'
  BY <1>1 DEF Truth, TruthInv, ItemInv, LinkTellsTruth
<1>3. QED BY <1>2, LeaveStep

LEMMA AskStepsTruth ==
    ASSUME Truth, Shape', NEW r \in Runners,
           \/ AskPush(r) \/ KeepLocal(r) \/ ReadDraft(r)
           \/ AskPull(r) \/ KeepRemote(r) \/ AskDrop(r) \/ AskDelete(r)
    PROVE  TruthInv'
<1> USE DEF tables, history
<1>t. /\ TruthInv /\ Shape /\ run \in [Runners -> RunRecords]
      /\ Knows(run[r]) /\ run[r] \in RunRecords /\ Fit(run[r])
  BY DEF Truth, TruthInv, RunnersKnow, Invariant, Shape, TypeOK
<1>n. local.id \in Nat /\ remote.key \in Nat /\ link.key \in Nat /\ NoLink.key = 0
  BY <1>t, Typing DEF NoLink
<1>i. /\ Idle.id = 0 /\ Idle.link = NoLink /\ Idle.key = 0
      /\ Idle.pc = "idle" /\ Idle.job = "none"
  BY DEF Idle
<1>m. link.key <= remote.key /\ (remote.state = "none" => link = NoLink)
  BY <1>t DEF TruthInv, ItemInv
<1>u. UNCHANGED <<local, link, claims, remote, unseen, sent>>
  BY DEF AskPush, KeepLocal, ReadDraft, AskPull, KeepRemote, AskDrop, AskDelete
<1>r. run'[r] \in RunRecords
  BY DEF Shape, TypeOK
<1>1. CASE AskPush(r) \/ KeepLocal(r)
  <2>1. PICK j \in {"push", "keep"} :
          run' = [run EXCEPT ![r] = [Idle EXCEPT !.job = j, !.pc = "lock",
                                     !.id = local.id, !.seen = local.content]]
    BY <1>1 DEF AskPush, KeepLocal, Start
  <2>2. PICK y : y = [Idle EXCEPT !.job = j, !.pc = "lock",
                                  !.id = local.id, !.seen = local.content]
    OBVIOUS
  <2>3. y.job = j /\ y.pc = "lock" /\ y.id = local.id /\ y.key = 0 /\ y.link = NoLink
    BY <2>2 DEF Idle
  <2>4. Knows(y)
    BY <2>3, <1>n DEF Knows, KnowsNoItem, NamesRow, KeysAreOld, TellsTruth, SendsConfirmed
  <2>5. run' = [run EXCEPT ![r] = y] /\ y \in RunRecords
    BY <2>1, <2>2, <1>r, <1>t
  <2>6. QED BY <1>u, <2>3, <2>4, <2>5, MoveStep
<1>2. CASE ReadDraft(r)
  <2>1. PICK y : y = [run[r] EXCEPT !.pc = "lock", !.seen = local.content]
    OBVIOUS
  <2>2. run' = [run EXCEPT ![r] = y] /\ y \in RunRecords
    BY <2>1, <1>2, <1>r, <1>t DEF ReadDraft
  <2>3. /\ y.job = run[r].job /\ y.pc = "lock" /\ y.id = run[r].id /\ y.key = run[r].key
        /\ y.link = run[r].link /\ y.seen = local.content /\ y.confirmed = run[r].confirmed
        /\ run[r].pc = "read"
    BY <2>1, <1>t, <1>2 DEF RunRecords, ReadDraft, At
  <2>4. y.job = "send"
    BY <2>3, <1>t DEF Knows, SendsConfirmed
  <2>5. KnowsNoItem(y) /\ NamesRow(y) /\ KeysAreOld(y)
    BY <2>3, <2>4, <1>t DEF Knows, KnowsNoItem, NamesRow, KeysAreOld
  <2>6. TellsTruth(y) /\ SendsConfirmed(y)
    BY <2>3, <2>4, <1>t DEF Knows, TellsTruth, SendsConfirmed
  <2>7. QED BY <1>u, <2>2, <2>3, <2>5, <2>6, MoveStep DEF Knows
<1>3. CASE AskPull(r)
  <2>1. PICK y : y = [Idle EXCEPT !.job = "pull", !.pc = "look", !.key = remote.key,
                                  !.got = remote.content]
    OBVIOUS
  <2>2. run' = [run EXCEPT ![r] = y] /\ y \in RunRecords /\ remote.state = "draft"
    BY <2>1, <1>3, <1>r, <1>t DEF AskPull, Load
  <2>3. /\ y.job = "pull" /\ y.pc = "look" /\ y.id = 0 /\ y.key = remote.key
        /\ y.link = NoLink /\ y.got = remote.content
    BY <2>1 DEF Idle
  <2>4. Knows(y)
    BY <2>2, <2>3, <1>n
       DEF Knows, KnowsNoItem, NamesRow, KeysAreOld, TellsTruth, SendsConfirmed, Alike
  <2>5. QED BY <1>u, <2>2, <2>3, <2>4, MoveStep
<1>4. CASE KeepRemote(r)
  <2>1. PICK p \in {"recover", "load"} : p = IF link = NoLink THEN "recover" ELSE "load"
    OBVIOUS
  <2>2. PICK y : y = [Idle EXCEPT !.job = "reload", !.id = local.id, !.link = link, !.pc = p]
    OBVIOUS
  <2>3. run' = [run EXCEPT ![r] = y] /\ y \in RunRecords
    BY <2>1, <2>2, <1>4, <1>r, <1>t DEF KeepRemote
  <2>4. y.job = "reload" /\ y.pc = p /\ y.id = local.id /\ y.key = 0 /\ y.link = link
    BY <2>2 DEF Idle
  <2>5. Knows(y)
    BY <2>1, <2>4, <1>n, <1>m
       DEF Knows, KnowsNoItem, NamesRow, KeysAreOld, TellsTruth, SendsConfirmed
  <2>6. QED BY <1>u, <2>1, <2>3, <2>4, <2>5, MoveStep
<1>5. CASE AskDrop(r)
  <2>1. PICK y : y = [Idle EXCEPT !.job = "drop", !.pc = "drop", !.id = local.id]
    OBVIOUS
  <2>2. run' = [run EXCEPT ![r] = y] /\ y \in RunRecords /\ remote.state = "gone"
    BY <2>1, <1>5, <1>r, <1>t DEF AskDrop
  <2>3. y.job = "drop" /\ y.pc = "drop" /\ y.id = local.id /\ y.key = 0 /\ y.link = NoLink
    BY <2>1 DEF Idle
  <2>4. Knows(y)
    BY <2>2, <2>3, <1>n
       DEF Knows, KnowsNoItem, NamesRow, KeysAreOld, TellsTruth, SendsConfirmed
  <2>5. QED BY <1>u, <2>2, <2>3, <2>4, MoveStep
<1>6. CASE AskDelete(r)
  <2>1. PICK p \in {"unmake", "recover", "forget"} :
          p = IF link # NoLink THEN "unmake"
              ELSE IF local.id \in claims THEN "recover" ELSE "forget"
    OBVIOUS
  <2>2. PICK y : y = [Idle EXCEPT !.job = "delete", !.id = local.id, !.link = link, !.pc = p]
    OBVIOUS
  <2>3. run' = [run EXCEPT ![r] = y] /\ y \in RunRecords
    BY <2>1, <2>2, <1>6, <1>r, <1>t DEF AskDelete
  <2>4. y.job = "delete" /\ y.pc = p /\ y.id = local.id /\ y.key = 0 /\ y.link = link
    BY <2>2 DEF Idle
  <2>5. p = "unmake" => link # NoLink
    BY <2>1
  <2>6. Knows(y)
    BY <2>1, <2>4, <2>5, <1>n, <1>m
       DEF Knows, KnowsNoItem, NamesRow, KeysAreOld, TellsTruth, SendsConfirmed
  <2>7. QED BY <1>u, <2>1, <2>3, <2>4, <2>6, MoveStep
<1>7. QED BY <1>1, <1>2, <1>3, <1>4, <1>5, <1>6

\* The mover has confirmed, as long as the item can be sent.
LEMMA SendTruth ==
    ASSUME Truth, NEW r \in Runners, run[r].job = "send", remote.state # "gone"
    PROVE  /\ Row(run[r].id) /\ local.status = "sending"
           /\ local.content = run[r].confirmed
           /\ run[r].pc \notin {"read", "send", "finish"} => run[r].seen = run[r].confirmed
BY DEF Truth, TruthInv, RunnersKnow, Knows, SendsConfirmed

LEMMA BeginSendTruth ==
    ASSUME Truth, Shape', NEW r \in Runners, BeginSend(r)
    PROVE  TruthInv'
<1> USE DEF tables, history
<1>t. TruthInv /\ Shape /\ run \in [Runners -> RunRecords]
  BY DEF Truth, Invariant, Shape, TypeOK
<1>1. PICK y : y = [Idle EXCEPT !.job = "send", !.pc = "read", !.id = local.id,
                                !.confirmed = local.content]
  OBVIOUS
<1>2. run' = [run EXCEPT ![r] = y] /\ run'[r] = y
  BY <1>1, <1>t DEF BeginSend
<1>3. /\ y.job = "send" /\ y.pc = "read" /\ y.id = local.id /\ y.key = 0
      /\ y.link = NoLink /\ y.confirmed = local.content
  BY <1>1 DEF Idle
<1>4. /\ local'.id = local.id /\ local'.status = "sending" /\ local'.content = local.content
      /\ local.status # "none" /\ local.id \in Nat /\ remote.key \in Nat
      /\ UNCHANGED <<link, claims, remote, unseen, sent>>
      /\ \A q \in Runners : run[q].job # "send"
  <2>1. local' = [local EXCEPT !.status = "sending"]
    BY DEF BeginSend
  <2>2. QED BY <2>1, <1>t, Typing DEF BeginSend, Editable, Shape, TypeOK
<1>5. NoLink.key = 0
  BY DEF NoLink
<1>6. KnowsNoItem(run[r])' /\ NamesRow(run[r])' /\ KeysAreOld(run[r])'
  BY <1>2, <1>3, <1>4, <1>5 DEF KnowsNoItem, NamesRow, KeysAreOld
<1>7. TellsTruth(run[r])' /\ SendsConfirmed(run[r])'
  BY <1>2, <1>3, <1>4 DEF TellsTruth, SendsConfirmed, Row
<1>8. RowsGrow
  BY <1>4 DEF RowsGrow, Row
<1>9. ItemInv' /\ LinkTellsTruth'
  BY <1>t, <1>4 DEF TruthInv, ItemInv, LinkTellsTruth
<1>10. QED BY <1>2, <1>3, <1>4, <1>6, <1>7, <1>8, <1>9, QuietStep DEF Knows, SendUndisturbed

LEMMA LockStepsTruth ==
    ASSUME Truth, Shape', NEW r \in Runners,
           LockPush(r) \/ PushEndsEarly(r) \/ FetchRemote(r)
    PROVE  TruthInv'
<1> USE DEF tables, history
<1>t. /\ TruthInv /\ Shape /\ run \in [Runners -> RunRecords]
      /\ Knows(run[r]) /\ run[r] \in RunRecords /\ Fit(run[r])
  BY DEF Truth, TruthInv, RunnersKnow, Invariant, Shape, TypeOK
<1>n. /\ local.id \in Nat /\ remote.key \in Nat /\ link.key \in Nat /\ NoLink.key = 0
      /\ run[r].id \in Nat /\ run[r].key \in Nat
  BY <1>t, Typing DEF NoLink
<1>m. /\ link.key <= remote.key /\ (remote.state = "none" => link = NoLink)
      /\ (remote.state # "none" /\ local.status # "none" /\ link = NoLink => local.id \in claims)
  BY <1>t DEF TruthInv, ItemInv
<1>u. UNCHANGED <<link, claims, remote, unseen, sent>>
  BY DEF LockPush, PushEndsEarly, FetchRemote
<1>r. run'[r] \in RunRecords
  BY DEF Shape, TypeOK
<1>l. ASSUME Leave(r) PROVE TruthInv'
  BY <1>l, <1>u, LeaveQuietly
<1>1. CASE LockPush(r)
  <2>1. PICK l : l = IF Row(run[r].id) THEN link ELSE NoLink
    OBVIOUS
  <2>2. PICK p \in {"recover", "claim", "fetch"} :
          p = CASE l = NoLink /\ Row(run[r].id) /\ run[r].id \in claims -> "recover"
                [] l = NoLink /\ ~(Row(run[r].id) /\ run[r].id \in claims) -> "claim"
                [] l # NoLink -> "fetch"
    OBVIOUS
  <2>3. PICK y : y = [run[r] EXCEPT !.pc = p, !.link = l]
    OBVIOUS
  <2>4. /\ run' = [run EXCEPT ![r] = y] /\ UNCHANGED local
        /\ run[r].pc = "lock" /\ run[r].job \in {"push", "keep", "send"}
    BY <2>1, <2>2, <2>3, <1>1 DEF LockPush, At, Pushing
  <2>5. y \in RunRecords
    BY <2>4, <1>r, <1>t
  <2>6. /\ y.pc = p /\ y.link = l /\ y.job = run[r].job /\ y.id = run[r].id
        /\ y.key = run[r].key /\ y.seen = run[r].seen /\ y.confirmed = run[r].confirmed
    BY <2>3, <1>t DEF RunRecords
  <2>7. p = "claim" /\ remote.state # "none" /\ Row(run[r].id) => run[r].id \in claims
    BY <2>1, <2>2, <1>m DEF Row
  <2>8. remote.state = "none" => l = NoLink /\ p \in {"recover", "claim"}
    BY <2>1, <2>2, <1>m
  <2>9. l.key <= remote.key
    BY <2>1, <1>n, <1>m
  <2>10. KnowsNoItem(y) /\ NamesRow(y) /\ KeysAreOld(y)
    BY <2>2, <2>4, <2>6, <2>7, <2>8, <2>9, <1>t DEF Knows, KnowsNoItem, NamesRow, KeysAreOld
  <2>11. TellsTruth(y) /\ SendsConfirmed(y)
    BY <2>2, <2>4, <2>6, <1>t DEF Knows, TellsTruth, SendsConfirmed
  <2>12. QED BY <1>u, <2>2, <2>4, <2>5, <2>6, <2>10, <2>11, MoveStep DEF Knows
<1>2. CASE PushEndsEarly(r)
  <2>1. CASE Leave(r)
    BY <2>1, <1>l
  <2>2. CASE ~Leave(r)
    <3>1. PICK y : y = [run[r] EXCEPT !.pc = "send", !.key = link.key, !.seen = {}]
      OBVIOUS
    <3>2. /\ run' = [run EXCEPT ![r] = y] /\ UNCHANGED local
          /\ run[r].pc = "lock" /\ run[r].job = "send"
          /\ link.sure /\ run[r].seen = link.rev
      BY <3>1, <2>2, <1>2 DEF PushEndsEarly, At, KnownAlike, IsRevision
    <3>3. y \in RunRecords
      BY <3>2, <1>r, <1>t
    <3>4. /\ y.pc = "send" /\ y.key = link.key /\ y.job = run[r].job /\ y.id = run[r].id
          /\ y.link = run[r].link /\ y.confirmed = run[r].confirmed
      BY <3>1, <1>t DEF RunRecords
    <3>5. remote.state # "none"
      BY <3>2, <1>m DEF NoLink
    <3>6. remote.state = "draft" /\ remote.key = link.key
            => Alike(remote.content, run[r].confirmed)
      BY <3>2, <1>t, SendTruth DEF TruthInv, LinkTellsTruth, Alike
    <3>7. KnowsNoItem(y) /\ NamesRow(y) /\ KeysAreOld(y)
      BY <3>4, <3>5, <1>m, <1>t DEF Knows, KnowsNoItem, NamesRow, KeysAreOld
    <3>8. TellsTruth(y) /\ SendsConfirmed(y)
      BY <3>2, <3>4, <3>6, <1>t DEF Knows, TellsTruth, SendsConfirmed
    <3>9. QED BY <1>u, <3>2, <3>3, <3>4, <3>7, <3>8, MoveStep DEF Knows
  <2>3. QED BY <2>1, <2>2
<1>3. CASE FetchRemote(r)
  <2>1. CASE Leave(r)
    BY <2>1, <1>l
  <2>2. CASE ~Leave(r)
    <3>1. PICK y : y = [run[r] EXCEPT !.pc = "update", !.key = remote.key, !.link = NoLink]
      OBVIOUS
    <3>2. /\ run' = [run EXCEPT ![r] = y] /\ UNCHANGED local
          /\ run[r].pc = "fetch" /\ remote.state = "draft"
      BY <3>1, <2>2, <1>3 DEF FetchRemote, Fail, At
    <3>3. y \in RunRecords
      BY <3>2, <1>r, <1>t
    <3>4. /\ y.pc = "update" /\ y.key = remote.key /\ y.job = run[r].job /\ y.id = run[r].id
          /\ y.link = NoLink /\ y.confirmed = run[r].confirmed /\ y.seen = run[r].seen
      BY <3>1, <1>t DEF RunRecords
    <3>5. KnowsNoItem(y) /\ NamesRow(y) /\ KeysAreOld(y)
      BY <3>2, <3>4, <1>n, <1>t DEF Knows, KnowsNoItem, NamesRow, KeysAreOld
    <3>6. TellsTruth(y) /\ SendsConfirmed(y)
      BY <3>2, <3>4, <1>t DEF Knows, TellsTruth, SendsConfirmed
    <3>7. QED BY <1>u, <3>2, <3>3, <3>4, <3>5, <3>6, MoveStep DEF Knows
  <2>3. QED BY <2>1, <2>2
<1>4. QED BY <1>1, <1>2, <1>3

\* Steps that change the item.
Rewritten ==
    /\ remote.state = "draft" /\ remote'.state = "draft"
    /\ remote'.key = remote.key + 1
    /\ unseen \subseteq unseen'
    /\ UNCHANGED <<local, link, claims, sent>>

\* What a runner between its writes leaves is still what it reckons with.
StillExplained(q) ==
    run[q].pc = "detach" =>
        \A e : e \notin unseen' =>
            (e \in remote'.content <=> e \in Body(run[q].seen) \cup run[q].got)

\* The keys of the others are old then, and those between their writes do not
\* go by keys.
LEMMA RewrittenKnows ==
    ASSUME Truth, NEW q \in Runners, run'[q] = run[q], Rewritten, StillExplained(q)
    PROVE  Knows(run[q])'
<1>0. PICK s : s = run[q]
  OBVIOUS
<1>1. Knows(s) /\ run'[q] = s
  BY <1>0 DEF Truth, TruthInv, RunnersKnow
<1>2. s.key \in Nat /\ s.link.key \in Nat /\ remote.key \in Nat
  BY <1>0, Typing DEF Truth, Invariant
<1>3. s.pc = "detach" =>
        \A e : e \notin unseen' => (e \in remote'.content <=> e \in Body(s.seen) \cup s.got)
  BY <1>0 DEF StillExplained
<1>4. remote'.key # s.key
  BY <1>1, <1>2 DEF Knows, KeysAreOld, Rewritten
<1>5. KnowsNoItem(run[q])' /\ NamesRow(run[q])' /\ KeysAreOld(run[q])'
  BY <1>1, <1>2 DEF Knows, KnowsNoItem, NamesRow, KeysAreOld, Row, Rewritten
<1>6. TellsTruth(run[q])'
  <2>1. s.pc = "detach" => s.got \subseteq Files
    BY <1>1 DEF Knows, TellsTruth
  <2>2. s.pc = "detach" =>
               remote'.content \ unseen' = (Body(s.seen) \cup s.got) \ unseen'
    BY <1>3
  <2>3. QED BY <1>1, <1>4, <2>1, <2>2 DEF TellsTruth, Alike, Body
<1>7. SendsConfirmed(run[q])'
  BY <1>1 DEF Knows, SendsConfirmed, Row, Rewritten
<1>8. QED BY <1>5, <1>6, <1>7 DEF Knows

LEMMA RewrittenRest ==
    ASSUME Truth, Rewritten
    PROVE  ItemInv' /\ SentIsGone' /\ LinkTellsTruth' /\ SentIsConfirmed'
<1>1. ItemInv /\ SentIsGone /\ remote.key \in Nat /\ link.key \in Nat
  BY Typing DEF Truth, TruthInv, Invariant
<1>2. sent = {} /\ sent' = {}
  BY <1>1 DEF SentIsGone, Rewritten
<1>3. ItemInv' /\ LinkTellsTruth'
  BY <1>1 DEF ItemInv, LinkTellsTruth, Rewritten
<1>4. SentIsGone' /\ SentIsConfirmed'
  BY <1>2, FS_EmptySet DEF SentIsGone, SentIsConfirmed
<1>5. QED BY <1>3, <1>4

\* A runner changes the item.
LEMMA RewriteStep ==
    ASSUME Truth, NEW r \in Runners, NEW y, run' = [run EXCEPT ![r] = y], Rewritten,
           \A q \in Runners \ {r} : StillExplained(q),
           y.job = run[r].job,
           Knows(run[r])', DetachedIsUnseen'
    PROVE  TruthInv'
<1>1. run'[r] = y /\ \A q \in Runners : q # r => run'[q] = run[q]
  BY DEF Truth, Invariant, Shape, TypeOK
<1>2. RunnersKnow'
  BY <1>1, RewrittenKnows DEF RunnersKnow
<1>3. OneSend'
  BY <1>1 DEF Truth, TruthInv, OneSend
<1>4. QED BY <1>2, <1>3, RewrittenRest DEF TruthInv

\* What is at the runners between their writes when the item is as it is.
LEMMA Explained ==
    ASSUME Truth, NEW q \in Runners, run[q].pc = "detach", remote.state = "draft"
    PROVE  \A e : e \notin unseen =>
              (e \in remote.content <=> e \in Body(run[q].seen) \cup run[q].got)
<1>1. Alike(remote.content, Body(run[q].seen) \cup run[q].got)
  BY DEF Truth, TruthInv, RunnersKnow, Knows, TellsTruth
<1>2. QED BY <1>1, AlikeMeans

LEMMA UpdateTruth ==
    ASSUME Truth, Shape', NEW r \in Runners, Update(r)
    PROVE  TruthInv'
<1> USE DEF tables, history
<1>t. /\ TruthInv /\ Shape /\ run \in [Runners -> RunRecords]
      /\ Knows(run[r]) /\ run[r] \in RunRecords
  BY DEF Truth, TruthInv, RunnersKnow, Invariant, Shape, TypeOK
<1>n. local.id \in Nat /\ remote.key \in Nat /\ run[r].id \in Nat /\ run[r].link.key \in Nat
  BY <1>t, Typing
<1>1. CASE ~(remote.state = "draft" /\ remote.key = run[r].key)
  BY <1>1, LeaveQuietly DEF Update, Fail
<1>2. CASE remote.state = "draft" /\ remote.key = run[r].key
  <2>0. PICK old : old = remote.content
    OBVIOUS
  <2>1. PICK written : written = Body(run[r].seen) \cup FilesOf(old)
    OBVIOUS
  <2>2. PICK p \in {"detach", "attach", "confirm"} :
          p = IF FilesOf(old) # {} THEN "detach"
              ELSE IF FilesOf(run[r].seen) # {} THEN "attach" ELSE "confirm"
    OBVIOUS
  <2>3. PICK k : k = remote.key + 1
    OBVIOUS
  <2>4. PICK y : y = [run[r] EXCEPT !.pc = p, !.key = k, !.got = FilesOf(old)]
    OBVIOUS
  <2>5. /\ run' = [run EXCEPT ![r] = y]
        /\ remote' = [remote EXCEPT !.content = written, !.key = k]
        /\ unseen' = IF \E s \in Runners : BetweenWrites(s) THEN unseen \cup old \cup written
                     ELSE unseen
        /\ UNCHANGED <<local, link, claims, sent>> /\ run[r].pc = "update"
    BY <1>2, <2>0, <2>1, <2>2, <2>3, <2>4 DEF Update, At, StepAfter, NewKey
  <2>6. /\ y.pc = p /\ y.key = k /\ y.got = FilesOf(old) /\ y.job = run[r].job
        /\ y.id = run[r].id /\ y.link = run[r].link /\ y.seen = run[r].seen
        /\ y.confirmed = run[r].confirmed
    BY <2>4, <1>t DEF RunRecords
  <2>7. run'[r] = y
    BY <2>5, <1>t
  <2>8. /\ remote'.content = written /\ remote'.key = k /\ remote'.state = "draft"
        /\ remote'.tag = remote.tag
    BY <2>5, <1>2, <1>t DEF Shape, TypeOK
  <2>9. Rewritten
    BY <2>3, <2>5, <2>8, <1>2 DEF Rewritten
  <2>10. ASSUME NEW q \in Runners, run[q].pc = "detach"
         PROVE  written \subseteq unseen' /\ old \subseteq unseen'
    BY <2>5, <2>10 DEF BetweenWrites, At
  <2>11. \A q \in Runners \ {r} : StillExplained(q)
    <3> SUFFICES ASSUME NEW q \in Runners, run[q].pc = "detach", NEW e, e \notin unseen'
                 PROVE  e \in remote'.content <=> e \in Body(run[q].seen) \cup run[q].got
      BY DEF StillExplained
    <3>1. e \notin written /\ e \notin old /\ e \notin unseen
      BY <2>9, <2>10 DEF Rewritten
    <3>2. e \notin Body(run[q].seen) \cup run[q].got
      BY <3>1, <2>0, <1>2, Explained
    <3>3. QED BY <3>1, <3>2, <2>8
  <2>12. /\ FilesOf(old) \subseteq Files
         /\ p = "attach" => written = Body(run[r].seen)
         /\ p = "confirm" => written = run[r].seen
    <3>1. p # "detach" => FilesOf(old) = {}
      BY <2>2
    <3>2. p = "confirm" => FilesOf(run[r].seen) = {}
      BY <2>2
    <3>3. QED BY <3>1, <3>2, <2>1, BodyAndFiles
  <2>13. KnowsNoItem(run[r])' /\ NamesRow(run[r])' /\ KeysAreOld(run[r])'
    <3>1. run[r].id <= local.id /\ run[r].link.key <= remote.key
      BY <1>t DEF Knows, NamesRow, KeysAreOld
    <3>2. QED BY <3>1, <2>2, <2>3, <2>5, <2>6, <2>7, <2>8, <1>n
              DEF KnowsNoItem, NamesRow, KeysAreOld
  <2>14. TellsTruth(run[r])'
    BY <2>1, <2>2, <2>6, <2>7, <2>8, <2>12 DEF TellsTruth, Alike, Body
  <2>15. SendsConfirmed(run[r])'
    <3>1. y.job = "send" =>
            /\ Row(y.id) /\ local.status = "sending" /\ local.content = y.confirmed
            /\ y.seen = y.confirmed
      BY <2>5, <2>6, <1>2, <1>t, SendTruth
    <3>2. QED BY <3>1, <2>2, <2>5, <2>6, <2>7 DEF SendsConfirmed, Row
  <2>16. DetachedIsUnseen'
    <3> SUFFICES ASSUME NEW q \in Runners, NEW s \in Runners, q # s,
                        run'[q].pc = "detach", run'[s].pc = "detach"
                 PROVE  remote'.content \subseteq unseen'
      BY DEF DetachedIsUnseen, At
    <3>1. (q # r => run'[q] = run[q]) /\ (s # r => run'[s] = run[s])
      BY <2>5, <1>t
    <3>2. QED BY <3>1, <2>8, <2>10
  <2>17. Knows(run[r])'
    BY <2>13, <2>14, <2>15 DEF Knows
  <2>18. QED BY <2>5, <2>6, <2>9, <2>11, <2>16, <2>17, RewriteStep
<1>3. QED BY <1>1, <1>2

LEMMA DetachTruth ==
    ASSUME Truth, Shape', NEW r \in Runners, Detach(r)
    PROVE  TruthInv'
<1> USE DEF tables, history
<1>t. /\ TruthInv /\ Shape /\ run \in [Runners -> RunRecords]
      /\ Knows(run[r]) /\ run[r] \in RunRecords
  BY DEF Truth, TruthInv, RunnersKnow, Invariant, Shape, TypeOK
<1>n. local.id \in Nat /\ remote.key \in Nat /\ run[r].id \in Nat /\ run[r].link.key \in Nat
  BY <1>t, Typing
<1>1. CASE remote.state # "draft"
  BY <1>1, LeaveQuietly DEF Detach, Fail
<1>2. CASE remote.state = "draft"
  <2>1. PICK left : left = remote.content \ run[r].got
    OBVIOUS
  <2>2. PICK p \in {"attach", "confirm"} :
          p = IF FilesOf(run[r].seen) # {} THEN "attach" ELSE "confirm"
    OBVIOUS
  <2>3. PICK k : k = remote.key + 1
    OBVIOUS
  <2>4. PICK y : y = [run[r] EXCEPT !.pc = p, !.key = k, !.got = {}]
    OBVIOUS
  <2>5. StepAfter(r, {}) = p
    BY <2>2 DEF StepAfter, FilesOf
  <2>6. /\ run' = [run EXCEPT ![r] = y]
        /\ remote' = [remote EXCEPT !.content = left, !.key = k]
        /\ unseen' = unseen
        /\ UNCHANGED <<local, link, claims, sent>> /\ run[r].pc = "detach"
    BY <1>2, <2>1, <2>3, <2>4, <2>5 DEF Detach, At, NewKey
  <2>7. /\ y.pc = p /\ y.key = k /\ y.job = run[r].job
        /\ y.id = run[r].id /\ y.link = run[r].link /\ y.seen = run[r].seen
        /\ y.confirmed = run[r].confirmed
    BY <2>4, <1>t DEF RunRecords
  <2>8. run'[r] = y
    BY <2>6, <1>t
  <2>9. remote'.content = left /\ remote'.key = k /\ remote'.state = "draft"
    BY <2>6, <1>2, <1>t DEF Shape, TypeOK
  <2>10. Rewritten
    BY <2>3, <2>6, <2>9, <1>2 DEF Rewritten
  <2>11. \A q \in Runners \ {r} : StillExplained(q)
    <3> SUFFICES ASSUME NEW q \in Runners, q # r, run[q].pc = "detach",
                        NEW e, e \notin unseen'
                 PROVE  e \in remote'.content <=> e \in Body(run[q].seen) \cup run[q].got
      BY DEF StillExplained
    <3>1. remote.content \subseteq unseen
      BY <2>6, <1>2, <1>t DEF TruthInv, DetachedIsUnseen, At
    <3>2. e \notin Body(run[q].seen) \cup run[q].got
      BY <3>1, <2>6, <1>2, Explained
    <3>3. QED BY <3>1, <3>2, <2>1, <2>6, <2>9
  <2>12. \A e : e \notin unseen => (e \in left <=> e \in Body(run[r].seen))
    <3>1. run[r].got \subseteq Files
      BY <2>6, <1>t DEF Knows, TellsTruth
    <3>2. QED BY <3>1, <2>1, <2>6, <1>2, Explained, BodyAndFiles
  <2>13. left \ unseen = Body(run[r].seen) \ unseen
         /\ (p = "confirm" => left \ unseen = run[r].seen \ unseen)
    <3>1. p = "confirm" => Body(run[r].seen) = run[r].seen
      BY <2>2, BodyAndFiles
    <3>2. QED BY <3>1, <2>12
  <2>14. KnowsNoItem(run[r])' /\ NamesRow(run[r])' /\ KeysAreOld(run[r])'
    <3>1. run[r].id <= local.id /\ run[r].link.key <= remote.key
      BY <1>t DEF Knows, NamesRow, KeysAreOld
    <3>2. QED BY <3>1, <2>2, <2>3, <2>6, <2>7, <2>8, <2>9, <1>n
              DEF KnowsNoItem, NamesRow, KeysAreOld
  <2>15. TellsTruth(run[r])'
    BY <2>2, <2>6, <2>7, <2>8, <2>9, <2>13 DEF TellsTruth, Alike, Body
  <2>16. SendsConfirmed(run[r])'
    <3>1. y.job = "send" =>
            /\ Row(y.id) /\ local.status = "sending" /\ local.content = y.confirmed
            /\ y.seen = y.confirmed
      BY <2>6, <2>7, <1>2, <1>t, SendTruth
    <3>2. QED BY <3>1, <2>2, <2>6, <2>7, <2>8 DEF SendsConfirmed, Row
  <2>17. DetachedIsUnseen'
    <3> SUFFICES ASSUME NEW q \in Runners, NEW s \in Runners, q # s,
                        run'[q].pc = "detach", run'[s].pc = "detach"
                 PROVE  remote'.content \subseteq unseen'
      BY DEF DetachedIsUnseen, At
    <3>1. q # r /\ s # r
      BY <2>2, <2>7, <2>8
    <3>2. run[q].pc = "detach" /\ run[s].pc = "detach"
      BY <3>1, <2>6, <1>t
    <3>3. remote.content \subseteq unseen
      BY <3>2, <1>2, <1>t DEF TruthInv, DetachedIsUnseen, At
    <3>4. QED BY <3>3, <2>1, <2>6, <2>9
  <2>18. Knows(run[r])'
    BY <2>14, <2>15, <2>16 DEF Knows
  <2>19. QED BY <2>6, <2>7, <2>10, <2>11, <2>17, <2>18, RewriteStep
<1>3. QED BY <1>1, <1>2

LEMMA AttachTruth ==
    ASSUME Truth, Shape', NEW r \in Runners, Attach(r)
    PROVE  TruthInv'
<1> USE DEF tables, history
<1>t. /\ TruthInv /\ Shape /\ run \in [Runners -> RunRecords]
      /\ Knows(run[r]) /\ run[r] \in RunRecords
  BY DEF Truth, TruthInv, RunnersKnow, Invariant, Shape, TypeOK
<1>n. local.id \in Nat /\ remote.key \in Nat /\ run[r].id \in Nat /\ run[r].link.key \in Nat
  BY <1>t, Typing
<1>1. CASE ~(remote.state = "draft" /\ remote.key = run[r].key)
  BY <1>1, LeaveQuietly DEF Attach, Fail
<1>2. CASE remote.state = "draft" /\ remote.key = run[r].key
  <2>1. PICK added : added = FilesOf(run[r].seen)
    OBVIOUS
  <2>2. PICK k : k = remote.key + 1
    OBVIOUS
  <2>3. PICK y : y = [run[r] EXCEPT !.pc = "confirm", !.key = k]
    OBVIOUS
  <2>4. /\ run' = [run EXCEPT ![r] = y]
        /\ remote' = [remote EXCEPT !.content = remote.content \cup added, !.key = k]
        /\ unseen' = IF \E s \in Runners : BetweenWrites(s) THEN unseen \cup added ELSE unseen
        /\ UNCHANGED <<local, link, claims, sent>> /\ run[r].pc = "attach"
    BY <1>2, <2>1, <2>2, <2>3 DEF Attach, At, NewKey
  <2>5. /\ y.pc = "confirm" /\ y.key = k /\ y.job = run[r].job
        /\ y.id = run[r].id /\ y.link = run[r].link /\ y.seen = run[r].seen
        /\ y.confirmed = run[r].confirmed
    BY <2>3, <1>t DEF RunRecords
  <2>6. run'[r] = y
    BY <2>4, <1>t
  <2>7. /\ remote'.content = remote.content \cup added /\ remote'.key = k
        /\ remote'.state = "draft"
    BY <2>4, <1>2, <1>t DEF Shape, TypeOK
  <2>8. Rewritten
    BY <2>2, <2>4, <2>7, <1>2 DEF Rewritten
  <2>9. ASSUME NEW q \in Runners, run[q].pc = "detach"
        PROVE  added \subseteq unseen'
    BY <2>4, <2>9 DEF BetweenWrites, At
  <2>10. \A q \in Runners \ {r} : StillExplained(q)
    <3> SUFFICES ASSUME NEW q \in Runners, run[q].pc = "detach", NEW e, e \notin unseen'
                 PROVE  e \in remote'.content <=> e \in Body(run[q].seen) \cup run[q].got
      BY DEF StillExplained
    <3>1. e \notin added /\ e \notin unseen
      BY <2>8, <2>9 DEF Rewritten
    <3>2. QED BY <3>1, <2>7, <1>2, Explained
  <2>11. remote'.content \ unseen' = run[r].seen \ unseen'
    <3>1. Alike(remote.content, Body(run[r].seen))
      BY <2>4, <1>2, <1>t DEF Knows, TellsTruth
    <3>2. \A e : e \notin unseen' => (e \in remote.content <=> e \in Body(run[r].seen))
      BY <3>1, <2>8, AlikeMeans DEF Rewritten
    <3>3. run[r].seen = Body(run[r].seen) \cup added
      BY <2>1, BodyAndFiles
    <3>4. QED BY <3>2, <3>3, <2>7
  <2>12. KnowsNoItem(run[r])' /\ NamesRow(run[r])' /\ KeysAreOld(run[r])'
    <3>1. run[r].id <= local.id /\ run[r].link.key <= remote.key
      BY <1>t DEF Knows, NamesRow, KeysAreOld
    <3>2. QED BY <3>1, <2>2, <2>4, <2>5, <2>6, <2>7, <1>n
              DEF KnowsNoItem, NamesRow, KeysAreOld
  <2>13. TellsTruth(run[r])'
    BY <2>5, <2>6, <2>7, <2>11 DEF TellsTruth, Alike
  <2>14. SendsConfirmed(run[r])'
    <3>1. y.job = "send" =>
            /\ Row(y.id) /\ local.status = "sending" /\ local.content = y.confirmed
            /\ y.seen = y.confirmed
      BY <2>4, <2>5, <1>2, <1>t, SendTruth
    <3>2. QED BY <3>1, <2>4, <2>5, <2>6 DEF SendsConfirmed, Row
  <2>15. DetachedIsUnseen'
    <3> SUFFICES ASSUME NEW q \in Runners, NEW s \in Runners, q # s,
                        run'[q].pc = "detach", run'[s].pc = "detach"
                 PROVE  remote'.content \subseteq unseen'
      BY DEF DetachedIsUnseen, At
    <3>1. q # r /\ s # r
      BY <2>5, <2>6
    <3>2. run[q].pc = "detach" /\ run[s].pc = "detach"
      BY <3>1, <2>4, <1>t
    <3>3. remote.content \subseteq unseen
      BY <3>2, <1>2, <1>t DEF TruthInv, DetachedIsUnseen, At
    <3>4. QED BY <3>2, <3>3, <2>7, <2>8, <2>9 DEF Rewritten
  <2>16. Knows(run[r])'
    BY <2>12, <2>13, <2>14 DEF Knows
  <2>17. QED BY <2>4, <2>5, <2>8, <2>10, <2>15, <2>16, RewriteStep
<1>3. QED BY <1>1, <1>2

LEMMA OutlookTruth ==
    ASSUME Truth, NEW e \in Edits, EditInOutlook(e)
    PROVE  TruthInv'
<1> USE DEF tables, history
<1>t. TruthInv /\ Shape
  BY DEF Truth, Invariant
<1>1. /\ remote' = [remote EXCEPT !.content = remote.content \cup {e}, !.key = remote.key + 1]
      /\ unseen' = IF \E r \in Runners : BetweenWrites(r) THEN unseen \cup {e} ELSE unseen
      /\ UNCHANGED <<local, link, claims, sent, run>> /\ remote.state = "draft"
  BY DEF EditInOutlook, NewKey
<1>2. /\ remote'.content = remote.content \cup {e} /\ remote'.key = remote.key + 1
      /\ remote'.state = "draft"
  BY <1>1, <1>t DEF Shape, TypeOK
<1>3. Rewritten
  BY <1>1, <1>2 DEF Rewritten
<1>4. ASSUME NEW q \in Runners, run[q].pc = "detach"
      PROVE  e \in unseen'
  BY <1>1, <1>4 DEF BetweenWrites, At
<1>5. \A q \in Runners : StillExplained(q)
  <2> SUFFICES ASSUME NEW q \in Runners, run[q].pc = "detach", NEW f, f \notin unseen'
               PROVE  f \in remote'.content <=> f \in Body(run[q].seen) \cup run[q].got
    BY DEF StillExplained
  <2>1. f # e /\ f \notin unseen
    BY <1>3, <1>4 DEF Rewritten
  <2>2. QED BY <2>1, <1>1, <1>2, Explained
<1>6. RunnersKnow'
  BY <1>1, <1>3, <1>5, RewrittenKnows DEF RunnersKnow
<1>7. OneSend'
  BY <1>1, <1>t DEF TruthInv, OneSend
<1>8. DetachedIsUnseen'
  <2> SUFFICES ASSUME NEW q \in Runners, NEW s \in Runners, q # s,
                      run'[q].pc = "detach", run'[s].pc = "detach"
               PROVE  remote'.content \subseteq unseen'
    BY DEF DetachedIsUnseen, At
  <2>1. remote.content \subseteq unseen
    BY <1>1, <1>t DEF TruthInv, DetachedIsUnseen, At
  <2>2. QED BY <2>1, <1>1, <1>2, <1>3, <1>4 DEF Rewritten
<1>9. QED BY <1>3, <1>6, <1>7, <1>8, RewrittenRest DEF TruthInv

\* The item leaves the drafts folder.
LEMMA GoneKnows ==
    ASSUME Truth, NEW q \in Runners, run'[q] = run[q],
           remote.state = "draft", remote'.state = "gone", remote'.key = remote.key,
           local'.id = local.id, local'.status = "none" <=> local.status = "none",
           claims' = claims
    PROVE  Knows(run[q])'
<1>1. PICK s : s = run[q]
  OBVIOUS
<1>2. Knows(s) /\ run'[q] = s
  BY <1>1 DEF Truth, TruthInv, RunnersKnow
<1>3. KnowsNoItem(run[q])' /\ NamesRow(run[q])' /\ KeysAreOld(run[q])'
  BY <1>2 DEF Knows, KnowsNoItem, NamesRow, KeysAreOld, Row
<1>4. TellsTruth(run[q])' /\ SendsConfirmed(run[q])'
  BY <1>2 DEF Knows, TellsTruth, SendsConfirmed
<1>5. QED BY <1>3, <1>4 DEF Knows

LEMMA GoneRest ==
    ASSUME Truth, remote.state = "draft", remote'.state = "gone", remote'.key = remote.key,
           local'.id = local.id, local'.status = "none" <=> local.status = "none",
           link' = link, claims' = claims
    PROVE  ItemInv' /\ LinkTellsTruth' /\ sent = {}
BY DEF Truth, TruthInv, ItemInv, LinkTellsTruth, SentIsGone

LEMMA LeaveDraftsTruth ==
    ASSUME Truth, LeaveDrafts
    PROVE  TruthInv'
<1> USE DEF tables, history
<1>t. TruthInv /\ Shape
  BY DEF Truth, Invariant
<1>1. /\ remote.state = "draft" /\ remote'.state = "gone" /\ remote'.key = remote.key
      /\ UNCHANGED <<local, link, claims, run, sent, unseen>>
  BY <1>t DEF LeaveDrafts, Shape, TypeOK
<1>2. RunnersKnow'
  BY <1>1, GoneKnows DEF RunnersKnow
<1>3. OneSend' /\ DetachedIsUnseen'
  BY <1>1, <1>t DEF TruthInv, OneSend, DetachedIsUnseen, At
<1>4. ItemInv' /\ LinkTellsTruth' /\ sent = {}
  BY <1>1, GoneRest
<1>5. SentIsGone' /\ SentIsConfirmed'
  BY <1>1, <1>4, FS_EmptySet DEF SentIsGone, SentIsConfirmed
<1>6. QED BY <1>2, <1>3, <1>4, <1>5 DEF TruthInv

\* A runner that knows next to nothing, once the item is gone.
LEMMA GoneMover ==
    ASSUME Shape', NEW r \in Runners, remote'.state = "gone",
           run'[r].id <= local'.id, run'[r].key <= remote'.key, run'[r].link.key <= remote'.key,
           run'[r].pc \in {"idle", "finish", "forget"},
           run'[r].pc = "finish" => run'[r].job = "send"
    PROVE  Knows(run[r])'
<1>1. KnowsNoItem(run[r])' /\ NamesRow(run[r])' /\ KeysAreOld(run[r])'
  BY DEF KnowsNoItem, NamesRow, KeysAreOld
<1>2. TellsTruth(run[r])' /\ SendsConfirmed(run[r])'
  BY DEF TellsTruth, SendsConfirmed
<1>3. QED BY <1>1, <1>2 DEF Knows

LEMMA UnmakeTruth ==
    ASSUME Truth, Shape', NEW r \in Runners, Unmake(r)
    PROVE  TruthInv'
<1> USE DEF tables, history
<1>t. /\ TruthInv /\ Shape /\ run \in [Runners -> RunRecords]
      /\ Knows(run[r]) /\ run[r] \in RunRecords
  BY DEF Truth, TruthInv, RunnersKnow, Invariant, Shape, TypeOK
<1>n. remote.key \in Nat /\ NoLink.key = 0
  BY <1>t, Typing DEF NoLink
<1>1. CASE Leave(r) /\ remote' = remote
  BY <1>1, LeaveQuietly DEF Unmake
<1>2. CASE remote.state = "draft" /\ remote.key = run[r].link.key
  <2>1. PICK y : y = [run[r] EXCEPT !.pc = "forget", !.link = NoLink]
    OBVIOUS
  <2>2. /\ run' = [run EXCEPT ![r] = y]
        /\ remote' = [remote EXCEPT !.state = "gone", !.content = {}]
        /\ UNCHANGED <<local, link, claims, sent, unseen>>
    BY <1>2, <2>1 DEF Unmake
  <2>3. /\ y.pc = "forget" /\ y.link = NoLink /\ y.job = run[r].job /\ y.id = run[r].id
        /\ y.key = run[r].key
    BY <2>1, <1>t DEF RunRecords
  <2>4. run'[r] = y /\ \A q \in Runners : q # r => run'[q] = run[q]
    BY <2>2, <1>t
  <2>5. remote'.state = "gone" /\ remote'.key = remote.key
    BY <2>2, <1>t DEF Shape, TypeOK
  <2>6. Knows(run[r])'
    <3>1. run[r].id <= local.id /\ run[r].key <= remote.key
      BY <1>t DEF Knows, NamesRow, KeysAreOld
    <3>2. QED BY <3>1, <2>2, <2>3, <2>4, <2>5, <1>n, GoneMover
  <2>7. RunnersKnow'
    BY <1>2, <2>2, <2>4, <2>5, <2>6, GoneKnows DEF RunnersKnow
  <2>8. OneSend' /\ DetachedIsUnseen'
    BY <2>3, <2>4, <2>5, <1>t DEF TruthInv, OneSend, DetachedIsUnseen
  <2>9. ItemInv' /\ LinkTellsTruth' /\ sent = {}
    BY <1>2, <2>2, <2>5, GoneRest
  <2>10. SentIsGone' /\ SentIsConfirmed'
    BY <2>2, <2>9, FS_EmptySet DEF SentIsGone, SentIsConfirmed
  <2>11. QED BY <2>7, <2>8, <2>9, <2>10 DEF TruthInv
<1>3. QED BY <1>1, <1>2 DEF Unmake

\* What is sent is what the user confirmed: the send comes to the call with the
\* key of the item it compared, or wrote.
LEMMA SendStepTruth ==
    ASSUME Truth, Shape', NEW r \in Runners, Send(r)
    PROVE  TruthInv'
<1> USE DEF tables, history
<1>t. /\ TruthInv /\ Shape /\ run \in [Runners -> RunRecords]
      /\ Knows(run[r]) /\ run[r] \in RunRecords /\ Fit(run[r])
  BY DEF Truth, TruthInv, RunnersKnow, Invariant, Shape, TypeOK
<1>n. remote.key \in Nat /\ NoLink.key = 0 /\ local.id \in Nat
  BY <1>t, Typing DEF NoLink
<1>1. CASE ~(remote.state = "draft" /\ remote.key = run[r].key)
  BY <1>1, LeaveQuietly DEF Send
<1>2. CASE remote.state = "draft" /\ remote.key = run[r].key
  <2>1. PICK y : y = [Idle EXCEPT !.job = "send", !.pc = "finish", !.id = run[r].id]
    OBVIOUS
  <2>2. PICK pair : pair = <<run[r].confirmed, remote.content>>
    OBVIOUS
  <2>3. /\ (run' = [run EXCEPT ![r] = y] /\ local' = local) \/ Leave(r)
        /\ remote' = [remote EXCEPT !.state = "gone", !.content = {}]
        /\ sent' = sent \cup {pair}
        /\ UNCHANGED <<link, claims, unseen>>
        /\ run[r].pc = "send" /\ run[r].job = "send"
    <3>1. run[r].pc = "send"
      BY DEF Send, At
    <3>2. run[r].job = "send"
      BY <3>1, <1>t DEF Fit
    <3>3. QED BY <3>1, <3>2, <1>2, <2>1, <2>2 DEF Send
  <2>4. /\ y.pc = "finish" /\ y.link = NoLink /\ y.job = "send" /\ y.id = run[r].id
        /\ y.key = 0
    BY <2>1 DEF Idle
  <2>5. Idle.pc = "idle" /\ Idle.link = NoLink /\ Idle.job = "none" /\ Idle.id = 0 /\ Idle.key = 0
    BY DEF Idle
  <2>6. run'[r] \in {y, Idle} /\ \A q \in Runners : q # r => run'[q] = run[q]
    BY <2>3, <1>t DEF Leave
  <2>7. local'.id = local.id /\ (local'.status = "none" <=> local.status = "none")
    BY <2>3, <1>t, LeaveMoves
  <2>8. remote'.state = "gone" /\ remote'.key = remote.key
    BY <2>3, <1>t DEF Shape, TypeOK
  <2>9. Knows(run[r])'
    <3>1. run[r].id <= local.id
      BY <1>t DEF Knows, NamesRow
    <3>2. QED BY <3>1, <2>4, <2>5, <2>6, <2>7, <2>8, <1>n, GoneMover
  <2>10. RunnersKnow'
    BY <1>2, <2>3, <2>6, <2>7, <2>8, <2>9, GoneKnows DEF RunnersKnow
  <2>11. OneSend' /\ DetachedIsUnseen'
    BY <2>3, <2>4, <2>5, <2>6, <2>8, <1>t DEF TruthInv, OneSend, DetachedIsUnseen
  <2>12. ItemInv' /\ LinkTellsTruth' /\ sent = {}
    BY <1>2, <2>3, <2>7, <2>8, GoneRest
  <2>13. sent' = {pair}
    BY <2>3, <2>12
  <2>14. pair[1] \ unseen' = pair[2] \ unseen'
    <3>1. Alike(remote.content, run[r].confirmed)
      BY <1>2, <2>3, <1>t DEF Knows, TellsTruth
    <3>2. QED BY <3>1, <2>2, <2>3 DEF Alike
  <2>15. Cardinality(sent') = 1
    BY <2>13, FS_Singleton
  <2>16. SentIsGone' /\ SentIsConfirmed'
    BY <2>8, <2>13, <2>14, <2>15 DEF SentIsGone, SentIsConfirmed
  <2>17. QED BY <2>10, <2>11, <2>12, <2>16 DEF TruthInv
<1>3. QED BY <1>1, <1>2

\* There was no item before: only the runner at the call knows of one now.
LEMMA CreateTruth ==
    ASSUME Truth, Shape', NEW r \in Runners, Create(r)
    PROVE  TruthInv'
<1> USE DEF tables, history
<1>t. /\ TruthInv /\ Shape /\ CreateInv /\ run \in [Runners -> RunRecords]
      /\ \A q \in Runners : Knows(run[q]) /\ run[q] \in RunRecords /\ Fit(run[q])
  BY DEF Truth, TruthInv, RunnersKnow, Invariant, Shape, TypeOK
<1>n. local.id \in Nat /\ NoLink.key = 0
  BY <1>t, Typing DEF NoLink
<1>1. PICK y : y = [run[r] EXCEPT !.pc = "link", !.key = 1]
  OBVIOUS
<1>2. /\ (run' = [run EXCEPT ![r] = y] /\ local' = local) \/ Leave(r)
      /\ remote' = [state |-> "draft", key |-> 1, content |-> Body(run[r].seen),
                    tag |-> run[r].id]
      /\ run[r].pc = "create"
      /\ UNCHANGED <<link, claims, sent, unseen>>
  BY <1>1 DEF Create, At, Fail
<1>3. /\ y.pc = "link" /\ y.key = 1 /\ y.job = run[r].job /\ y.id = run[r].id
      /\ y.link = run[r].link /\ y.seen = run[r].seen /\ y.confirmed = run[r].confirmed
  BY <1>1, <1>t DEF RunRecords
<1>4. run'[r] \in {y, Idle} /\ \A q \in Runners : q # r => run'[q] = run[q]
  BY <1>2, <1>t DEF Leave
<1>5. local'.id = local.id /\ (local'.status = "none" <=> local.status = "none")
  BY <1>2, <1>t, LeaveMoves
<1>6. /\ remote'.state = "draft" /\ remote'.key = 1 /\ remote'.content = Body(run[r].seen)
  BY <1>2
<1>7. remote.state = "none" /\ run[r].id \in Ids
  BY <1>2, <1>t DEF Knows, NamesRow, Fit
<1>8. /\ local.id <= 1 /\ link = NoLink /\ sent = {} /\ run[r].id = 1
  <2>1. local.id <= 1 /\ link = NoLink /\ sent = {}
    BY <1>7, <1>t DEF TruthInv, ItemInv, SentIsGone
  <2>2. run[r].id <= local.id
    BY <1>t DEF Knows, NamesRow
  <2>3. QED BY <2>1, <2>2, <1>7, <1>n DEF Ids
<1>9. local.id = 1 /\ (local.status # "none" => 1 \in claims)
  <2>1. run[r].id <= local.id
    BY <1>t DEF Knows, NamesRow
  <2>2. Taken(run[r].id)
    BY <1>2, <1>t DEF CreateInv, At
  <2>3. QED BY <2>1, <2>2, <1>8, <1>n DEF Taken, Dead
<1>10. ASSUME NEW q \in Runners, q # r
       PROVE  Knows(run[q])'
  <2>1. PICK s : s = run[q]
    OBVIOUS
  <2>2. Knows(s) /\ run'[q] = s /\ Fit(s) /\ s.id \in Nat
    BY <2>1, <1>4, <1>10, <1>t, Typing
  <2>3. /\ s.key = 0 /\ s.link = NoLink
        /\ s.pc \in {"idle", "lock", "read", "claim", "create", "recover", "load", "forget"}
    BY <2>2, <1>7 DEF Knows, KnowsNoItem
  <2>4. s.pc # "create"
    <3> SUFFICES ASSUME s.pc = "create" PROVE FALSE  OBVIOUS
    <3>1. s.id \in Ids /\ s.id <= local.id
      BY <2>2 DEF Fit, Knows, NamesRow
    <3>2. s.id = 1
      BY <3>1, <1>8, <1>n DEF Ids
    <3>3. At(q, "create") /\ At(r, "create") /\ run[q].id = run[r].id
      BY <3>2, <2>1, <1>2, <1>8 DEF At
    <3>4. QED BY <3>3, <1>10, <1>t DEF CreateInv
  <2>5. s.pc = "claim" => s.id = 1
    BY <2>2, <1>8, <1>n DEF Fit, Knows, NamesRow, Ids
  <2>6. KnowsNoItem(run[q])' /\ NamesRow(run[q])' /\ KeysAreOld(run[q])'
    BY <2>2, <2>3, <2>4, <2>5, <1>2, <1>5, <1>6, <1>9, <1>n
       DEF KnowsNoItem, NamesRow, KeysAreOld, Knows, Row
  <2>7. TellsTruth(run[q])'
    BY <2>2, <2>3, <1>6 DEF TellsTruth
  <2>8. SendsConfirmed(run[q])'
    <3>1. s.job = "send" => local' = local
      BY <2>1, <1>2, <1>10, <1>t DEF TruthInv, OneSend, Leave
    <3>2. QED BY <3>1, <2>2, <2>3, <1>6, <1>7 DEF Knows, SendsConfirmed, Row
  <2>9. QED BY <2>6, <2>7, <2>8 DEF Knows
<1>11. Knows(run[r])'
  <2>1. CASE run'[r] = Idle
    <3>1. /\ Idle.id = 0 /\ Idle.link = NoLink /\ Idle.key = 0
          /\ Idle.pc = "idle" /\ Idle.job = "none"
      BY DEF Idle
    <3>2. KnowsNoItem(run[r])' /\ NamesRow(run[r])' /\ KeysAreOld(run[r])'
      BY <2>1, <3>1, <1>5, <1>6, <1>n DEF KnowsNoItem, NamesRow, KeysAreOld
    <3>3. TellsTruth(run[r])' /\ SendsConfirmed(run[r])'
      BY <2>1, <3>1 DEF TellsTruth, SendsConfirmed
    <3>4. QED BY <3>2, <3>3 DEF Knows
  <2>2. CASE run'[r] # Idle
    <3>1. run'[r] = y /\ local' = local
      BY <2>2, <1>2, <1>4, <1>t DEF Leave
    <3>2. run[r].link = NoLink /\ run[r].id <= local.id
      BY <1>7, <1>t DEF Knows, KnowsNoItem, NamesRow
    <3>3. KnowsNoItem(run[r])' /\ NamesRow(run[r])' /\ KeysAreOld(run[r])'
      BY <3>1, <3>2, <1>3, <1>6, <1>n DEF KnowsNoItem, NamesRow, KeysAreOld
    <3>4. TellsTruth(run[r])'
      BY <3>1, <1>3, <1>6 DEF TellsTruth, Alike, Body
    <3>5. SendsConfirmed(run[r])'
      <4>1. y.job = "send" =>
              /\ Row(y.id) /\ local.status = "sending" /\ local.content = y.confirmed
              /\ y.seen = y.confirmed
        BY <1>2, <1>3, <1>7, <1>t, SendTruth
      <4>2. QED BY <4>1, <3>1, <1>3 DEF SendsConfirmed, Row
    <3>6. QED BY <3>3, <3>4, <3>5 DEF Knows
  <2>3. QED BY <2>1, <2>2
<1>12. RunnersKnow'
  BY <1>10, <1>11 DEF RunnersKnow
<1>13. OneSend' /\ DetachedIsUnseen'
  <2>1. Idle.pc = "idle" /\ Idle.job = "none"
    BY DEF Idle
  <2>2. \A q \in Runners : (run'[q].job = "send" => run[q].job = "send")
    BY <2>1, <1>3, <1>4
  <2>3. \A q \in Runners : run'[q].pc # "detach"
    <3>1. \A q \in Runners : run[q].pc # "detach"
      BY <1>7, <1>t DEF Knows, KnowsNoItem
    <3>2. QED BY <3>1, <2>1, <1>3, <1>4
  <2>4. QED BY <2>2, <2>3, <1>t DEF TruthInv, OneSend, DetachedIsUnseen, At
<1>14. ItemInv' /\ LinkTellsTruth'
  BY <1>2, <1>5, <1>6, <1>8, <1>9, <1>n DEF ItemInv, LinkTellsTruth, NoLink
<1>15. SentIsGone' /\ SentIsConfirmed'
  BY <1>2, <1>8, FS_EmptySet DEF SentIsGone, SentIsConfirmed
<1>16. QED BY <1>12, <1>13, <1>14, <1>15 DEF TruthInv

LEMMA RefusedTruth ==
    ASSUME Truth, Shape', NEW r \in Runners, CreateRefused(r)
    PROVE  TruthInv'
<1> USE DEF tables, history
<1>1. remote.state = "none" /\ Leave(r) /\ UNCHANGED <<link, remote, unseen, sent>>
  BY DEF CreateRefused, Fail, At, Truth, TruthInv, RunnersKnow, Knows, NamesRow
<1>2. local'.id = local.id
  BY <1>1, LeaveMoves DEF Truth, Invariant
<1>3. ItemInv' /\ LinkTellsTruth'
  BY <1>1, <1>2 DEF Truth, TruthInv, ItemInv, LinkTellsTruth
<1>4. QED BY <1>1, <1>3, LeaveStep

LEMMA ClaimTruth ==
    ASSUME Truth, Shape', NEW r \in Runners, Claim(r)
    PROVE  TruthInv'
<1> USE DEF tables, history
<1>t. /\ TruthInv /\ Shape /\ run \in [Runners -> RunRecords]
      /\ Knows(run[r]) /\ run[r] \in RunRecords /\ Fit(run[r])
  BY DEF Truth, TruthInv, RunnersKnow, Invariant, Shape, TypeOK
<1>n. local.id \in Nat
  BY <1>t, Typing
<1>1. CASE Leave(r) /\ claims' = claims
  BY <1>1, LeaveQuietly DEF Claim
<1>2. CASE Row(run[r].id) /\ run[r].id \notin claims
  <2>1. PICK y : y = [run[r] EXCEPT !.pc = "create"]
    OBVIOUS
  <2>2. /\ run' = [run EXCEPT ![r] = y] /\ claims' = claims \cup {run[r].id}
        /\ UNCHANGED <<local, link, remote, unseen, sent>> /\ run[r].pc = "claim"
    BY <1>2, <2>1 DEF Claim, GoTo, At
  <2>3. /\ y.pc = "create" /\ y.key = run[r].key /\ y.job = run[r].job /\ y.id = run[r].id
        /\ y.link = run[r].link /\ y.seen = run[r].seen /\ y.confirmed = run[r].confirmed
    BY <2>1, <1>t DEF RunRecords
  <2>4. run'[r] = y
    BY <2>2, <1>t
  <2>5. remote.state = "none"
    BY <2>2, <1>2, <1>t DEF Knows, NamesRow
  <2>6. KnowsNoItem(run[r])' /\ NamesRow(run[r])' /\ KeysAreOld(run[r])'
    BY <2>2, <2>3, <2>4, <2>5, <1>t DEF Knows, KnowsNoItem, NamesRow, KeysAreOld
  <2>7. TellsTruth(run[r])' /\ SendsConfirmed(run[r])'
    BY <2>2, <2>3, <2>4, <2>5, <1>t DEF Knows, TellsTruth, SendsConfirmed, Row
  <2>8. ItemInv' /\ LinkTellsTruth'
    BY <2>2, <1>t DEF TruthInv, ItemInv, LinkTellsTruth
  <2>9. RowsGrow /\ \A q \in Runners : SendUndisturbed(q)
    BY <2>2, <1>n DEF RowsGrow, SendUndisturbed, Row
  <2>10. QED BY <2>2, <2>3, <2>6, <2>7, <2>8, <2>9, QuietStep DEF Knows
<1>3. QED BY <1>1, <1>2 DEF Claim, Fail

LEMMA LinkCreatedTruth ==
    ASSUME Truth, Shape', NEW r \in Runners, LinkCreated(r)
    PROVE  TruthInv'
<1> USE DEF tables, history
<1>t. /\ TruthInv /\ Shape /\ run \in [Runners -> RunRecords]
      /\ Knows(run[r]) /\ run[r] \in RunRecords /\ Fit(run[r])
  BY DEF Truth, TruthInv, RunnersKnow, Invariant, Shape, TypeOK
<1>n. local.id \in Nat
  BY <1>t, Typing
<1>1. CASE Leave(r) /\ link' = link
  BY <1>1, LeaveQuietly DEF LinkCreated
<1>2. CASE Row(run[r].id)
  <2>1. PICK p \in {"attach", "confirm"} :
          p = IF FilesOf(run[r].seen) # {} THEN "attach" ELSE "confirm"
    OBVIOUS
  <2>2. StepAfter(r, {}) = p
    BY <2>1 DEF StepAfter, FilesOf
  <2>3. PICK y : y = [run[r] EXCEPT !.pc = p]
    OBVIOUS
  <2>4. /\ run' = [run EXCEPT ![r] = y]
        /\ link' = [key |-> run[r].key, sure |-> FALSE, rev |-> {}]
        /\ UNCHANGED <<local, claims, remote, unseen, sent>> /\ run[r].pc = "link"
    BY <1>2, <2>2, <2>3 DEF LinkCreated, GoTo, At, UnsureLink
  <2>5. /\ y.pc = p /\ y.key = run[r].key /\ y.job = run[r].job /\ y.id = run[r].id
        /\ y.link = run[r].link /\ y.seen = run[r].seen /\ y.confirmed = run[r].confirmed
    BY <2>3, <1>t DEF RunRecords
  <2>6. run'[r] = y
    BY <2>4, <1>t
  <2>7. remote.state # "none" /\ run[r].key = 1 /\ run[r].key <= remote.key
    BY <2>4, <1>t DEF Knows, KnowsNoItem, KeysAreOld
  <2>8. KnowsNoItem(run[r])' /\ NamesRow(run[r])' /\ KeysAreOld(run[r])'
    BY <2>1, <2>4, <2>5, <2>6, <2>7, <1>t DEF Knows, KnowsNoItem, NamesRow, KeysAreOld
  <2>9. TellsTruth(run[r])'
    <3>1. p = "confirm" => Body(run[r].seen) = run[r].seen
      BY <2>1, BodyAndFiles
    <3>2. QED BY <3>1, <2>1, <2>4, <2>5, <2>6, <1>t DEF Knows, TellsTruth, Alike, Body
  <2>10. SendsConfirmed(run[r])'
    BY <2>1, <2>4, <2>5, <2>6, <1>t DEF Knows, SendsConfirmed, Row
  <2>11. ItemInv' /\ LinkTellsTruth'
    <3>1. link'.key = run[r].key /\ ~link'.sure /\ link' # NoLink
      BY <2>4, <2>7 DEF NoLink
    <3>2. QED BY <3>1, <2>4, <2>7, <1>t DEF TruthInv, ItemInv, LinkTellsTruth
  <2>12. RowsGrow /\ \A q \in Runners : SendUndisturbed(q)
    BY <2>4, <1>n DEF RowsGrow, SendUndisturbed, Row
  <2>13. QED BY <2>1, <2>4, <2>5, <2>8, <2>9, <2>10, <2>11, <2>12, QuietStep DEF Knows
<1>3. QED BY <1>1, <1>2 DEF LinkCreated, Fail

LEMMA ConfirmTruth ==
    ASSUME Truth, Shape', NEW r \in Runners, Confirm(r)
    PROVE  TruthInv'
<1> USE DEF tables, history
<1>t. /\ TruthInv /\ Shape /\ run \in [Runners -> RunRecords]
      /\ Knows(run[r]) /\ run[r] \in RunRecords /\ Fit(run[r])
  BY DEF Truth, TruthInv, RunnersKnow, Invariant, Shape, TypeOK
<1>n. local.id \in Nat
  BY <1>t, Typing
<1>1. run[r].pc = "confirm" /\ UNCHANGED <<claims, remote, unseen, sent>>
  BY DEF Confirm, At
<1>2. CASE Leave(r) /\ link' = link
  BY <1>1, <1>2, LeaveQuietly
<1>3. CASE Row(run[r].id)
  <2>1. /\ link' = LinkOf(run[r].key, run[r].seen)
        /\ link'.key = run[r].key /\ link'.sure /\ link'.rev = run[r].seen /\ link' # NoLink
    BY <1>3 DEF Confirm, LinkOf, NoLink
  <2>2. remote.state # "none" /\ run[r].key <= remote.key
    BY <1>1, <1>t DEF Knows, KnowsNoItem, KeysAreOld
  <2>3. remote.state = "draft" /\ remote.key = run[r].key => Alike(remote.content, run[r].seen)
    BY <1>1, <1>t DEF Knows, TellsTruth
  <2>4. LinkTellsTruth'
    BY <2>1, <2>3, <1>1 DEF LinkTellsTruth, Alike
  <2>5. ASSUME local'.id = local.id, local'.status = "none" <=> local.status = "none"
        PROVE  ItemInv'
    BY <2>1, <2>2, <2>5, <1>1, <1>t DEF TruthInv, ItemInv
  <2>6. CASE Leave(r)
    <3>1. ItemInv'
      BY <2>5, <2>6, <1>t, LeaveMoves
    <3>2. QED BY <2>4, <2>6, <3>1, <1>1, LeaveStep
  <2>7. CASE ~Leave(r)
    <3>1. PICK y : y = [run[r] EXCEPT !.pc = "send", !.seen = {}]
      OBVIOUS
    <3>2. run' = [run EXCEPT ![r] = y] /\ local' = local /\ run[r].job = "send"
      BY <1>3, <2>7, <3>1 DEF Confirm, Fail
    <3>3. /\ y.pc = "send" /\ y.key = run[r].key /\ y.job = run[r].job /\ y.id = run[r].id
          /\ y.link = run[r].link /\ y.confirmed = run[r].confirmed
      BY <3>1, <1>t DEF RunRecords
    <3>4. run'[r] = y
      BY <3>2, <1>t
    <3>5. KnowsNoItem(run[r])' /\ NamesRow(run[r])' /\ KeysAreOld(run[r])'
      BY <2>2, <3>2, <3>3, <3>4, <1>1, <1>t DEF Knows, KnowsNoItem, NamesRow, KeysAreOld
    <3>6. TellsTruth(run[r])'
      <4>1. remote.state = "draft" => run[r].seen = run[r].confirmed
        BY <3>2, <1>1, SendTruth
      <4>2. QED BY <2>3, <3>3, <3>4, <4>1, <1>1 DEF TellsTruth, Alike
    <3>7. SendsConfirmed(run[r])'
      BY <3>2, <3>3, <3>4, <1>1, <1>t DEF Knows, SendsConfirmed, Row
    <3>8. RowsGrow /\ \A q \in Runners : SendUndisturbed(q)
      BY <3>2, <1>1, <1>n DEF RowsGrow, SendUndisturbed, Row
    <3>9. ItemInv'
      BY <2>5, <3>2
    <3>10. QED BY <1>1, <2>4, <3>2, <3>3, <3>5, <3>6, <3>7, <3>8, <3>9, QuietStep DEF Knows
  <2>8. QED BY <2>6, <2>7
<1>4. QED BY <1>2, <1>3 DEF Confirm, Fail

LEMMA RecoverTruth ==
    ASSUME Truth, Shape', NEW r \in Runners, Recover(r)
    PROVE  TruthInv'
<1> USE DEF tables, history
<1>t. /\ TruthInv /\ Shape /\ run \in [Runners -> RunRecords]
      /\ Knows(run[r]) /\ run[r] \in RunRecords /\ Fit(run[r])
  BY DEF Truth, TruthInv, RunnersKnow, Invariant, Shape, TypeOK
<1>n. local.id \in Nat /\ remote.key \in Nat
  BY <1>t, Typing
<1>1. run[r].pc = "recover" /\ UNCHANGED <<claims, remote, unseen, sent>>
  BY DEF Recover, At
<1>2. CASE Leave(r) /\ link' = link
  BY <1>1, <1>2, LeaveQuietly
<1>3. CASE Found(run[r].id) /\ Row(run[r].id)
  <2>1. PICK found : found = [key |-> remote.key, sure |-> FALSE, rev |-> {}]
    OBVIOUS
  <2>2. remote.state = "draft" /\ remote.key >= 1
    BY <1>3, <1>t DEF Found, TruthInv, ItemInv
  <2>3. found.key = remote.key /\ ~found.sure /\ found # NoLink
    BY <2>1, <2>2, <1>n DEF NoLink
  <2>4. link' = found
    BY <1>3, <2>1 DEF Recover, UnsureLink
  <2>5. LinkTellsTruth'
    BY <2>3, <2>4 DEF LinkTellsTruth
  <2>6. ASSUME local'.id = local.id, local'.status = "none" <=> local.status = "none"
        PROVE  ItemInv'
    BY <2>2, <2>3, <2>4, <2>6, <1>1, <1>n, <1>t DEF TruthInv, ItemInv
  <2>7. CASE Leave(r)
    <3>1. ItemInv'
      BY <2>6, <2>7, <1>t, LeaveMoves
    <3>2. QED BY <2>5, <2>7, <3>1, <1>1, LeaveStep
  <2>8. CASE ~Leave(r)
    <3>1. PICK p : p = StepAfterRecovery(r)
      OBVIOUS
    <3>2. PICK y : y = [run[r] EXCEPT !.pc = p, !.link = found]
      OBVIOUS
    <3>3. /\ run' = [run EXCEPT ![r] = y] /\ local' = local
          /\ run[r].job \notin {"push", "send"}
      BY <1>3, <2>1, <2>8, <3>1, <3>2 DEF Recover, Fail, UnsureLink
    <3>4. p \in {"fetch", "load", "unmake"}
      BY <3>1, <3>3, <1>1, <1>t DEF StepAfterRecovery, Fit
    <3>5. /\ y.pc = p /\ y.key = run[r].key /\ y.job = run[r].job /\ y.id = run[r].id
          /\ y.link = found
      BY <3>2, <1>t DEF RunRecords
    <3>6. run'[r] = y
      BY <3>3, <1>t
    <3>7. KnowsNoItem(run[r])' /\ NamesRow(run[r])' /\ KeysAreOld(run[r])'
      BY <2>2, <2>3, <3>3, <3>4, <3>5, <3>6, <1>1, <1>n, <1>t
         DEF Knows, KnowsNoItem, NamesRow, KeysAreOld
    <3>8. TellsTruth(run[r])' /\ SendsConfirmed(run[r])'
      BY <3>3, <3>4, <3>5, <3>6, <1>1, <1>t DEF Knows, TellsTruth, SendsConfirmed
    <3>9. RowsGrow /\ \A q \in Runners : SendUndisturbed(q)
      BY <3>3, <1>1, <1>n DEF RowsGrow, SendUndisturbed, Row
    <3>10. ItemInv'
      BY <2>6, <3>3
    <3>11. QED BY <1>1, <2>5, <3>3, <3>4, <3>5, <3>7, <3>8, <3>9, <3>10, QuietStep DEF Knows
  <2>9. QED BY <2>7, <2>8
<1>4. QED BY <1>2, <1>3 DEF Recover, Fail

LEMMA PullStepsTruth ==
    ASSUME Truth, Shape', NEW r \in Runners, LoadRemote(r) \/ Look(r) \/ LockPull(r)
    PROVE  TruthInv'
<1> USE DEF tables, history
<1>t. /\ TruthInv /\ Shape /\ run \in [Runners -> RunRecords]
      /\ Knows(run[r]) /\ run[r] \in RunRecords /\ Fit(run[r])
  BY DEF Truth, TruthInv, RunnersKnow, Invariant, Shape, TypeOK
<1>n. /\ local.id \in Nat /\ remote.key \in Nat /\ link.key \in Nat /\ NoLink.key = 0
      /\ run[r].id \in Nat
  BY <1>t, Typing DEF NoLink
<1>m. link.key <= remote.key
  BY <1>t DEF TruthInv, ItemInv
<1>u. UNCHANGED <<claims, remote, unseen, sent>>
  BY DEF LoadRemote, Look, LockPull
<1>r. run'[r] \in RunRecords
  BY DEF Shape, TypeOK
<1>l. ASSUME Leave(r), link' = link PROVE TruthInv'
  BY <1>l, <1>u, LeaveQuietly
<1>1. CASE LoadRemote(r)
  <2>1. CASE Leave(r)
    BY <2>1, <1>1, <1>l DEF LoadRemote
  <2>2. CASE ~Leave(r)
    <3>1. PICK y : y = [Idle EXCEPT !.job = "reload", !.pc = "look", !.key = remote.key,
                                    !.got = remote.content]
      OBVIOUS
    <3>2. /\ run' = [run EXCEPT ![r] = y] /\ remote.state = "draft"
          /\ UNCHANGED <<local, link>>
      BY <3>1, <2>2, <1>1 DEF LoadRemote, Load
    <3>3. y \in RunRecords
      BY <3>2, <1>r, <1>t
    <3>4. /\ y.job = "reload" /\ y.pc = "look" /\ y.id = 0 /\ y.key = remote.key
          /\ y.link = NoLink /\ y.got = remote.content
      BY <3>1 DEF Idle
    <3>5. Knows(y)
      BY <3>2, <3>4, <1>n
         DEF Knows, KnowsNoItem, NamesRow, KeysAreOld, TellsTruth, SendsConfirmed, Alike
    <3>6. QED BY <1>u, <3>2, <3>3, <3>4, <3>5, MoveStep
  <2>3. QED BY <2>1, <2>2
<1>2. CASE Look(r)
  <2>0. /\ run[r].pc = "look" /\ run[r].job \in {"pull", "reload"} /\ remote.state # "none"
        /\ run[r].key <= remote.key
    BY <1>2, <1>t DEF Look, At, Fit, Knows, KnowsNoItem, KeysAreOld
  <2>1. CASE Leave(r) /\ link' = link
    BY <2>1, <1>l
  <2>2. CASE Leave(r) /\ link' # link
    <3>1. PICK l : l = UnsureLink(run[r].key)
      OBVIOUS
    <3>2. link' = l /\ link = NoLink
      BY <3>1, <2>2, <1>2 DEF Look
    <3>3. l.key = run[r].key /\ ~l.sure /\ l # NoLink
      BY <3>1, <3>2, <2>2 DEF UnsureLink
    <3>4. LinkTellsTruth'
      BY <3>2, <3>3 DEF LinkTellsTruth
    <3>5. local'.id = local.id /\ (local'.status = "none" <=> local.status = "none")
      BY <2>2, <1>t, LeaveMoves
    <3>6. ItemInv'
      BY <2>0, <3>2, <3>3, <3>5, <1>u, <1>t DEF TruthInv, ItemInv
    <3>7. QED BY <2>2, <3>4, <3>6, <1>u, LeaveStep
  <2>3. CASE ~Leave(r)
    <3>1. PICK y :
            /\ run' = [run EXCEPT ![r] = y]
            /\ y.pc = "lock" /\ y.job = run[r].job /\ y.key = run[r].key /\ y.got = run[r].got
            /\ \/ y.link = link /\ y.id = local.id
               \/ y.link = run[r].link /\ y.id = run[r].id
      <4>1. CASE run' = [run EXCEPT ![r].pc = "lock", ![r].link = link, ![r].id = local.id]
        <5>1. PICK y : y = [run[r] EXCEPT !.pc = "lock", !.link = link, !.id = local.id]
          OBVIOUS
        <5>2. /\ y.pc = "lock" /\ y.job = run[r].job /\ y.key = run[r].key
              /\ y.got = run[r].got /\ y.link = link /\ y.id = local.id
          BY <5>1, <1>t DEF RunRecords
        <5>3. QED BY <4>1, <5>1, <5>2
      <4>2. CASE run' = [run EXCEPT ![r].pc = "lock"]
        <5>1. PICK y : y = [run[r] EXCEPT !.pc = "lock"]
          OBVIOUS
        <5>2. /\ y.pc = "lock" /\ y.job = run[r].job /\ y.key = run[r].key
              /\ y.got = run[r].got /\ y.link = run[r].link /\ y.id = run[r].id
          BY <5>1, <1>t DEF RunRecords
        <5>3. QED BY <4>2, <5>1, <5>2
      <4>3. QED BY <4>1, <4>2, <2>3, <1>2 DEF Look, GoTo
    <3>2. UNCHANGED <<local, link>>
      BY <2>3, <1>2 DEF Look
    <3>3. y \in RunRecords
      BY <3>1, <1>r, <1>t
    <3>4. KnowsNoItem(y) /\ NamesRow(y) /\ KeysAreOld(y)
      BY <2>0, <3>1, <1>m, <1>n, <1>t DEF Knows, KnowsNoItem, NamesRow, KeysAreOld
    <3>5. TellsTruth(y) /\ SendsConfirmed(y)
      BY <2>0, <3>1, <1>t DEF Knows, TellsTruth, SendsConfirmed
    <3>6. QED BY <1>u, <2>0, <3>1, <3>2, <3>3, <3>4, <3>5, MoveStep DEF Knows
  <2>4. QED BY <2>1, <2>2, <2>3
<1>3. CASE LockPull(r)
  <2>1. CASE Leave(r)
    BY <2>1, <1>3, <1>l DEF LockPull
  <2>2. CASE ~Leave(r)
    <3>1. PICK i \in {0, run[r].id} : i = IF Row(run[r].id) THEN run[r].id ELSE 0
      OBVIOUS
    <3>2. PICK y : y = [run[r] EXCEPT !.pc = "commit", !.id = i, !.link = NoLink,
                                      !.seen = IF i = 0 THEN {} ELSE local.content]
      OBVIOUS
    <3>3. /\ run' = [run EXCEPT ![r] = y] /\ UNCHANGED <<local, link>>
          /\ run[r].pc = "lock" /\ run[r].job \notin {"push", "keep", "send"}
      BY <3>1, <3>2, <2>2, <1>3 DEF LockPull, Pushing, At
    <3>4. y \in RunRecords
      BY <3>3, <1>r, <1>t
    <3>5. /\ y.pc = "commit" /\ y.id = i /\ y.job = run[r].job /\ y.link = NoLink
          /\ y.key = run[r].key /\ y.got = run[r].got
      BY <3>2, <1>t DEF RunRecords
    <3>6. KnowsNoItem(y) /\ NamesRow(y) /\ KeysAreOld(y)
      BY <3>1, <3>3, <3>5, <1>n, <1>t DEF Knows, KnowsNoItem, NamesRow, KeysAreOld
    <3>7. TellsTruth(y) /\ SendsConfirmed(y)
      BY <3>3, <3>5, <1>t DEF Knows, TellsTruth, SendsConfirmed
    <3>8. QED BY <1>u, <3>3, <3>4, <3>5, <3>6, <3>7, MoveStep DEF Knows
  <2>3. QED BY <2>1, <2>2
<1>4. QED BY <1>1, <1>2, <1>3

LEMMA CommitTruth ==
    ASSUME Truth, Shape', NEW r \in Runners, Commit(r)
    PROVE  TruthInv'
<1> USE DEF tables, history
<1>t. /\ TruthInv /\ Shape /\ run \in [Runners -> RunRecords]
      /\ Knows(run[r]) /\ run[r] \in RunRecords
  BY DEF Truth, TruthInv, RunnersKnow, Invariant, Shape, TypeOK
<1>n. local.id \in Nat
  BY <1>t, Typing
<1>i. Idle.pc # "detach" /\ Idle.job # "send"
  BY DEF Idle
<1>1. /\ run' = [run EXCEPT ![r] = Idle] /\ run[r].pc = "commit"
      /\ UNCHANGED <<claims, remote, unseen, sent>>
  BY DEF Commit, At
<1>2. remote.state # "none" /\ run[r].key <= remote.key
  BY <1>1, <1>t DEF Knows, KnowsNoItem, KeysAreOld
<1>3. CASE UNCHANGED <<local, link>>
  <2>1. ItemInv' /\ LinkTellsTruth'
    BY <1>1, <1>3, <1>t DEF TruthInv, ItemInv, LinkTellsTruth
  <2>2. RowsGrow /\ \A q \in Runners : SendUndisturbed(q)
    BY <1>1, <1>3, <1>n DEF RowsGrow, SendUndisturbed, Row
  <2>3. Knows(run[r])'
    <3>1. local.id <= local'.id
      BY <1>3, <1>n
    <3>2. QED BY <1>1, <3>1, IdleMoves
  <2>4. QED BY <1>1, <1>i, <2>1, <2>2, <2>3, QuietStep
<1>4. CASE ~UNCHANGED <<local, link>>
  <2>1. /\ link' = LinkOf(run[r].key, run[r].got)
        /\ link'.key = run[r].key /\ link'.sure /\ link'.rev = run[r].got /\ link' # NoLink
    BY <1>4 DEF Commit, LinkOf, NoLink
  <2>2. LinkTellsTruth'
    <3>1. remote.state = "draft" /\ remote.key = run[r].key
            => Alike(remote.content, run[r].got)
      BY <1>1, <1>t DEF Knows, TellsTruth
    <3>2. QED BY <2>1, <3>1, <1>1 DEF LinkTellsTruth, Alike
  <2>3. ItemInv'
    BY <1>1, <1>2, <2>1, <1>t DEF TruthInv, ItemInv
  <2>4. RowsGrow /\ local.id <= local'.id
    <3>1. CASE Unedited(r)
      <4>1. local'.id = local.id /\ local'.status = local.status
        BY <3>1, <1>4, <1>t DEF Commit, Unedited, Row, Shape, TypeOK
      <4>2. QED BY <4>1, <1>1, <1>n DEF RowsGrow, Row
    <3>2. CASE ~Unedited(r)
      <4>1. local' = [id |-> local.id + 1, status |-> "draft", content |-> run[r].got]
        BY <3>2, <1>4 DEF Commit
      <4>2. QED BY <4>1, <1>n DEF RowsGrow
    <3>3. QED BY <3>1, <3>2
  <2>5. local.status # "sending"
    BY <1>4 DEF Commit, Unedited
  <2>6. \A q \in Runners : SendUndisturbed(q)
    BY <2>5, SendTruth DEF SendUndisturbed
  <2>7. Knows(run[r])'
    BY <1>1, <2>4, IdleMoves
  <2>8. QED BY <1>1, <1>i, <2>2, <2>3, <2>4, <2>6, <2>7, QuietStep
<1>5. QED BY <1>3, <1>4

LEMMA ForgetKeeps ==
    ASSUME Truth, Forget, remote' = remote, unseen' = unseen
    PROVE  RowsGrow /\ ItemInv' /\ LinkTellsTruth' /\ local'.id = local.id
<1>1. local'.id = local.id /\ local'.status = "none" /\ link' = NoLink
  BY DEF Forget, NoRow
<1>2. ItemInv /\ local.id \in Nat /\ remote.key \in Nat
  BY Typing DEF Truth, TruthInv, Invariant
<1>3. RowsGrow
  BY <1>1, <1>2 DEF RowsGrow
<1>4. ItemInv' /\ LinkTellsTruth'
  BY <1>1, <1>2 DEF ItemInv, LinkTellsTruth, NoLink
<1>5. QED BY <1>1, <1>3, <1>4

LEMMA LastStepsTruth ==
    ASSUME Truth, Shape', NEW r \in Runners, Drop(r) \/ DeleteHere(r) \/ Finish(r)
    PROVE  TruthInv'
<1> USE DEF tables, history
<1>t. /\ TruthInv /\ Shape /\ run \in [Runners -> RunRecords]
      /\ Knows(run[r]) /\ run[r] \in RunRecords
  BY DEF Truth, TruthInv, RunnersKnow, Invariant, Shape, TypeOK
<1>n. local.id \in Nat
  BY <1>t, Typing
<1>i. Idle.pc # "detach" /\ Idle.job # "send"
  BY DEF Idle
<1>1. /\ run' = [run EXCEPT ![r] = Idle]
      /\ UNCHANGED <<remote, unseen, sent>>
  BY DEF Drop, DeleteHere, Finish
<1>2. \A q \in Runners \ {r} : SendUndisturbed(q)
  <2> SUFFICES ASSUME NEW q \in Runners, q # r, run[q].job = "send", remote.state # "gone"
               PROVE  local' = local
    BY DEF SendUndisturbed
  <2>1. local.status = "sending"
    BY SendTruth
  <2>2. run[r].pc # "finish" /\ run[r].pc # "drop"
    BY <1>t DEF TruthInv, OneSend, Knows, SendsConfirmed
  <2>3. QED BY <2>1, <2>2 DEF Drop, DeleteHere, Finish, At, Editable
<1>3. RowsGrow /\ ItemInv' /\ LinkTellsTruth' /\ local'.id = local.id
  <2>1. CASE Forget
    BY <2>1, <1>1, ForgetKeeps
  <2>2. CASE ~Forget
    <3>1. /\ UNCHANGED <<link, claims>>
          /\ local'.id = local.id /\ (local'.status = "none" <=> local.status = "none")
      BY <2>2, <1>t DEF Drop, DeleteHere, Finish, Row, Shape, TypeOK
    <3>2. ItemInv' /\ LinkTellsTruth'
      BY <1>1, <3>1, <1>t DEF TruthInv, ItemInv, LinkTellsTruth
    <3>3. QED BY <3>1, <3>2, <1>n DEF RowsGrow, Row
  <2>3. QED BY <2>1, <2>2
<1>4. Knows(run[r])'
  <2>1. local.id <= local'.id
    BY <1>3, <1>n
  <2>2. QED BY <1>1, <2>1, IdleMoves
<1>5. QED BY <1>1, <1>2, <1>3, <1>4, <1>i, QuietStep

LEMMA EditTruth ==
    ASSUME Truth, Shape', NEW e \in Edits, EditHere(e)
    PROVE  TruthInv'
<1> USE DEF tables, history
<1>t. TruthInv /\ Shape
  BY DEF Truth, Invariant
<1>1. /\ UNCHANGED <<link, claims, remote, run, sent, unseen>>
      /\ local.status # "none" /\ local.status # "sending"
      /\ local'.id = local.id /\ local'.status = "draft" /\ local.id \in Nat
  BY <1>t, Typing DEF EditHere, Editable, Shape, TypeOK
<1>2. RowsGrow /\ \A q \in Runners : SendUndisturbed(q)
  BY <1>1, SendTruth DEF RowsGrow, SendUndisturbed, Row
<1>3. RunnersKnow'
  BY <1>1, <1>2, QuietKnows DEF RunnersKnow
<1>4. OneSend' /\ DetachedIsUnseen' /\ SentIsGone' /\ SentIsConfirmed'
  BY <1>1, <1>t DEF TruthInv, OneSend, DetachedIsUnseen, At, SentIsGone, SentIsConfirmed
<1>5. ItemInv' /\ LinkTellsTruth'
  BY <1>1, <1>t DEF TruthInv, ItemInv, LinkTellsTruth
<1>6. QED BY <1>3, <1>4, <1>5 DEF TruthInv

LEMMA CrashTruth ==
    ASSUME Truth, Crash
    PROVE  TruthInv'
<1> USE DEF tables, history
<1>t. TruthInv /\ Shape
  BY DEF Truth, Invariant
<1>1. UNCHANGED <<local, link, claims, remote, sent, unseen>> /\ run' = [r \in Runners |-> Idle]
  BY DEF Crash
<1>2. Knows(Idle)
  BY <1>t, IdleKnows
<1>3. RunnersKnow'
  <2> SUFFICES ASSUME NEW r \in Runners PROVE Knows(run[r])'
    BY DEF RunnersKnow
  <2>1. PICK y : y = Idle
    OBVIOUS
  <2>2. run'[r] = y /\ Knows(y)
    BY <2>1, <1>1, <1>2
  <2>3. KnowsNoItem(run[r])' /\ NamesRow(run[r])' /\ KeysAreOld(run[r])'
    BY <1>1, <2>2 DEF Knows, KnowsNoItem, NamesRow, KeysAreOld, Row
  <2>4. TellsTruth(run[r])' /\ SendsConfirmed(run[r])'
    BY <1>1, <2>2 DEF Knows, TellsTruth, SendsConfirmed, Alike, Row
  <2>5. QED BY <2>3, <2>4 DEF Knows
<1>4. OneSend' /\ DetachedIsUnseen'
  BY <1>1 DEF OneSend, DetachedIsUnseen, At, Idle
<1>5. SentIsGone' /\ SentIsConfirmed' /\ ItemInv' /\ LinkTellsTruth'
  BY <1>1, <1>t DEF TruthInv, SentIsGone, SentIsConfirmed, ItemInv, LinkTellsTruth
<1>6. QED BY <1>3, <1>4, <1>5 DEF TruthInv

LEMMA NextTruth == Truth /\ [Next]_vars => Truth'
<1> SUFFICES ASSUME Truth, [Next]_vars PROVE Truth'  OBVIOUS
<1>1. Invariant' /\ Shape'
  BY NextInvariant DEF Truth, Invariant
<1>2. TruthInv'
  <2>1. ASSUME NEW r \in Runners, Step(r)
        PROVE  TruthInv'
    <3>1. CASE Refused(r) \/ CallFails(r)
      BY <3>1, <1>1, LeaveQuietly DEF Refused, CallFails, Fail, tables, history
    <3>2. CASE \/ AskPush(r) \/ KeepLocal(r) \/ ReadDraft(r)
               \/ AskPull(r) \/ KeepRemote(r) \/ AskDrop(r) \/ AskDelete(r)
      BY <3>2, <1>1, AskStepsTruth
    <3>3. CASE \/ BeginSend(r) \/ LockPush(r) \/ PushEndsEarly(r) \/ FetchRemote(r)
               \/ Update(r) \/ Detach(r) \/ Attach(r) \/ Confirm(r)
      BY <3>3, <1>1, BeginSendTruth, LockStepsTruth, UpdateTruth, DetachTruth, AttachTruth,
         ConfirmTruth
    <3>4. CASE \/ Claim(r) \/ Create(r) \/ CreateRefused(r) \/ LinkCreated(r) \/ Recover(r)
               \/ Send(r) \/ Finish(r)
      BY <3>4, <1>1, ClaimTruth, CreateTruth, RefusedTruth, LinkCreatedTruth, RecoverTruth,
         SendStepTruth, LastStepsTruth
    <3>5. CASE \/ LoadRemote(r) \/ Look(r) \/ LockPull(r) \/ Commit(r)
               \/ Drop(r) \/ Unmake(r) \/ DeleteHere(r)
      BY <3>5, <1>1, PullStepsTruth, CommitTruth, LastStepsTruth, UnmakeTruth
    <3>6. QED BY <2>1, <3>1, <3>2, <3>3, <3>4, <3>5 DEF Step
  <2>2. CASE \E e \in Edits : EditHere(e) \/ EditInOutlook(e)
    BY <1>1, <2>2, EditTruth, OutlookTruth
  <2>3. CASE LeaveDrafts \/ Crash
    BY <2>3, LeaveDraftsTruth, CrashTruth
  <2>4. CASE UNCHANGED vars
    <3>1. UNCHANGED <<local, link, claims, remote, run, sent, unseen>>
      BY <2>4 DEF vars, tables, history
    <3>2. RowsGrow /\ \A q \in Runners : SendUndisturbed(q)
      BY <3>1, Typing DEF Truth, Invariant, RowsGrow, SendUndisturbed, Row
    <3>3. RunnersKnow'
      BY <1>1, <3>1, <3>2, QuietKnows DEF RunnersKnow
    <3>4. OneSend' /\ DetachedIsUnseen' /\ SentIsGone' /\ SentIsConfirmed'
      BY <3>1 DEF Truth, TruthInv, OneSend, DetachedIsUnseen, At, SentIsGone, SentIsConfirmed
    <3>5. ItemInv' /\ LinkTellsTruth'
      BY <3>1 DEF Truth, TruthInv, ItemInv, LinkTellsTruth
    <3>6. QED BY <3>3, <3>4, <3>5 DEF TruthInv
  <2>5. QED BY <2>1, <2>2, <2>3, <2>4 DEF Next
<1>3. QED BY <1>1, <1>2 DEF Truth

LEMMA TruthHolds == Spec => []Truth
<1>1. Init => Truth
  BY InitInvariant, InitTruth DEF Truth
<1>2. QED BY <1>1, NextTruth, PTL DEF Spec

-----------------------------------------------------------------------------
(* No edit is lost (SurviveInv).                                           *)

Kind == Truth /\ SurviveInv

LEMMA InitSurvives == Init => SurviveInv
<1> SUFFICES ASSUME Init PROVE SurviveInv  OBVIOUS
<1>1. \A r \in Runners : run[r] = Idle
  BY DEF Init
<1>2. /\ local.content = {} /\ remote.content = {} /\ made = {} /\ active = {}
      /\ link = NoLink /\ ~NoLink.sure /\ NoLink.rev = {}
  <2>1. /\ \/ local = [id |-> 1, status |-> "draft", content |-> {}]
           \/ local = [id |-> 0, status |-> "none", content |-> {}]
        /\ \/ remote = [state |-> "none", key |-> 0, content |-> {}, tag |-> 0]
           \/ remote = [state |-> "draft", key |-> 1, content |-> {}, tag |-> 0]
    BY DEF Init, NoRow, NoItem
  <2>2. local.content = {} /\ remote.content = {}
    BY <2>1
  <2>3. QED BY <2>2 DEF Init, NoLink
<1>3. /\ Idle.pc = "idle" /\ Idle.job = "none" /\ Idle.seen = {} /\ Idle.got = {}
      /\ Idle.link = NoLink
  BY DEF Idle
<1>4. KeepsEdits(Idle)
  BY <1>2, <1>3 DEF KeepsEdits, JobFits, ReplacesKept, RewritesKept, WroteKept, Pulls, Pushes
<1>5. LocksHeld
  BY <1>1, <1>3 DEF LocksHeld, Working, Pushes
<1>6. OnlyMade /\ Trusted(link) /\ CurrentIsCovered /\ EditsSurvive
  BY <1>1, <1>2, <1>3
     DEF OnlyMade, Trusted, CallsAlike, IsRevision, CurrentIsCovered, EditsSurvive
<1>7. QED BY <1>1, <1>4, <1>5, <1>6 DEF SurviveInv

(* The locks.                                                              *)

\* A runner takes the lock of its row, keeps it, or gives it back.
LEMMA LocksKept ==
    ASSUME Shape, LocksHeld, NEW r \in Runners, NEW y, run' = [run EXCEPT ![r] = y],
           \/ ~Working(y) /\ active' = active
           \/ ~Working(y) /\ active' = active \ {run[r].id} /\ Working(run[r])
           \/ Working(y) /\ active' = active /\ Working(run[r]) /\ y.id = run[r].id
           \/ Working(y) /\ active' = active \cup {y.id} /\ y.id \notin active
    PROVE  LocksHeld'
<1>1. run'[r] = y /\ \A q \in Runners : q # r => run'[q] = run[q]
  BY DEF Shape, TypeOK
<1>2. \A q \in Runners : q # r => (Working(run[q])' <=> Working(run[q]))
  BY <1>1 DEF Working, Pushes
<1>3. Working(run[r])' <=> Working(y)
  BY <1>1 DEF Working, Pushes
<1>4. \A q \in Runners : Working(run[q])' => run'[q].id \in active'
  <2> SUFFICES ASSUME NEW q \in Runners, Working(run[q])' PROVE run'[q].id \in active'
    OBVIOUS
  <2>1. CASE q = r
    BY <2>1, <1>1, <1>3 DEF LocksHeld
  <2>2. CASE q # r
    <3>1. Working(run[q]) /\ run'[q].id = run[q].id /\ run[q].id \in active
      BY <2>2, <1>1, <1>2 DEF LocksHeld
    <3>2. Working(run[r]) => run[q].id # run[r].id
      BY <2>2, <3>1 DEF LocksHeld
    <3>3. QED BY <3>1, <3>2
  <2>3. QED BY <2>1, <2>2
<1>5. ASSUME NEW q \in Runners, q # r, Working(run[q]), Working(y)
      PROVE  run[q].id # y.id
  BY <1>5 DEF LocksHeld
<1>6. \A q, s \in Runners :
         Working(run[q])' /\ Working(run[s])' /\ run'[q].id = run'[s].id => q = s
  <2> SUFFICES ASSUME NEW q \in Runners, NEW s \in Runners, q # s,
                      Working(run[q])', Working(run[s])', run'[q].id = run'[s].id
               PROVE  FALSE
    OBVIOUS
  <2>1. CASE q = r
    BY <2>1, <1>1, <1>2, <1>3, <1>5
  <2>2. CASE s = r
    BY <2>2, <1>1, <1>2, <1>3, <1>5
  <2>3. CASE q # r /\ s # r
    BY <2>3, <1>1, <1>2 DEF LocksHeld
  <2>4. QED BY <2>1, <2>2, <2>3
<1>7. QED BY <1>4, <1>6 DEF LocksHeld

LEMMA IdleRests ==
    /\ Idle.pc = "idle" /\ Idle.job = "none" /\ Idle.seen = {} /\ Idle.got = {}
    /\ Idle.link = NoLink /\ Idle.id = 0 /\ NoLink.rev = {} /\ ~NoLink.sure
    /\ ~Working(Idle)
BY DEF Idle, NoLink, Working, Pushes

\* The steps at which a call may fail.
Callable(s) == s.pc \in {"claim", "create", "link", "recover", "fetch", "update", "detach",
                         "attach", "confirm", "load", "commit", "unmake", "forget"}

LEMMA FailLocks ==
    ASSUME Shape, SurviveInv, NEW r \in Runners, Fail(r), Callable(run[r])
    PROVE  LocksHeld'
<1>1. run' = [run EXCEPT ![r] = Idle]
  BY DEF Fail, Leave
<1>2. active' = active \/ (active' = active \ {run[r].id} /\ Working(run[r]))
  <2>1. JobFits(run[r])
    BY DEF SurviveInv, KeepsEdits
  <2>2. QED BY <2>1 DEF Fail, Unlock, Holds, Pushing, At, Callable, Working, Pushes, JobFits
<1>3. QED BY <1>1, <1>2, IdleRests, LocksKept DEF SurviveInv

\* No other runner works on the row of a runner that works on it.
LEMMA NoneBeside ==
    ASSUME SurviveInv, NEW r \in Runners, NEW q \in Runners, q # r,
           Working(run[r]), Working(run[q]), Row(run[q].id)
    PROVE  Mine(run[r].id) = {}
BY DEF SurviveInv, LocksHeld, Mine, Row

(* The steps that leave row and item as they are.                          *)

SameSides ==
    /\ local'.id = local.id /\ local'.content = local.content
    /\ local'.status = "none" <=> local.status = "none"
    /\ UNCHANGED <<remote, made, settled, unseen, exposed>>

LEMMA QuietKeeps ==
    ASSUME Kind, NEW q \in Runners, run'[q] = run[q], SameSides,
           SomeLinkCallsAlike' => SomeLinkCallsAlike \/ run[q].pc # "detach"
                                    \/ Mine(run[q].id) = {}
    PROVE  KeepsEdits(run[q])'
<1>1. PICK s : s = run[q]
  OBVIOUS
<1>2. run'[q] = s /\ KeepsEdits(s)
  BY <1>1 DEF Kind, SurviveInv
<1>3. Saved' = Saved /\ \A i : (Row(i)' <=> Row(i)) /\ Mine(i)' = Mine(i)
  BY DEF SameSides, Saved, Row, Mine
<1>4. JobFits(run[q])'
  BY <1>2 DEF KeepsEdits, JobFits, Pushes
<1>5. ReplacesKept(run[q])'
  BY <1>2, <1>3
     DEF KeepsEdits, ReplacesKept, Pulls, Trusted, CallsAlike, IsRevision, SameSides
<1>6. RewritesKept(run[q])'
  <2>1. s.pc = "detach" /\ remote.state = "draft" /\ SomeLinkCallsAlike' => s.got \subseteq Saved
    BY <1>1, <1>2 DEF KeepsEdits, RewritesKept
  <2>2. QED BY <1>2, <1>3, <2>1 DEF KeepsEdits, RewritesKept, Pushes, Compared, SameSides
<1>7. WroteKept(run[q])'
  BY <1>2, <1>3 DEF KeepsEdits, WroteKept, Body, SameSides
<1>8. QED BY <1>4, <1>5, <1>6, <1>7 DEF KeepsEdits

LEMMA QuietSurvives ==
    ASSUME Kind, NEW r \in Runners, NEW y, run' = [run EXCEPT ![r] = y], SameSides,
           LocksHeld', KeepsEdits(run[r])',
           y.seen \cup y.got \cup y.link.rev \subseteq made,
           link'.rev \subseteq made, Trusted(link)', CurrentIsCovered',
           \/ SomeLinkCallsAlike' => SomeLinkCallsAlike
           \/ Working(run[r]) /\ Row(run[r].id)
    PROVE  SurviveInv'
<1>1. run'[r] = y /\ \A q \in Runners : q # r => run'[q] = run[q]
  BY DEF Kind, Truth, Invariant, Shape, TypeOK
<1>2. ASSUME NEW q \in Runners, q # r
      PROVE  KeepsEdits(run[q])'
  <2>1. SomeLinkCallsAlike' =>
           SomeLinkCallsAlike \/ run[q].pc # "detach" \/ Mine(run[q].id) = {}
    <3> SUFFICES ASSUME Working(run[r]), Row(run[r].id), run[q].pc = "detach"
                 PROVE  Mine(run[q].id) = {}
      OBVIOUS
    <3>1. Working(run[q])
      BY DEF Kind, SurviveInv, KeepsEdits, JobFits, Working
    <3>2. QED BY <3>1, <1>2, NoneBeside DEF Kind
  <2>2. QED BY <1>1, <1>2, <2>1, QuietKeeps
<1>3. \A q \in Runners : KeepsEdits(run[q])'
  BY <1>2
<1>4. OnlyMade'
  BY <1>1 DEF Kind, SurviveInv, OnlyMade, SameSides
<1>5. EditsSurvive'
  BY DEF Kind, SurviveInv, EditsSurvive, Kept, SameSides
<1>6. QED BY <1>3, <1>4, <1>5 DEF SurviveInv

\* The same, where the tables stay as they are too.
LEMMA MoveSurvives ==
    ASSUME Kind, NEW r \in Runners, NEW y, run' = [run EXCEPT ![r] = y],
           UNCHANGED <<local, link, remote, made, settled, unseen, exposed>>,
           LocksHeld', KeepsEdits(y), y.pc # "detach",
           y.seen \cup y.got \cup y.link.rev \subseteq made,
           Pulls(y) => y.link = link \/ (Pulls(run[r]) /\ y.link = run[r].link) \/ ~y.link.sure
    PROVE  SurviveInv'
<1>1. run'[r] = y /\ \A q \in Runners : q # r => run'[q] = run[q]
  BY DEF Kind, Truth, Invariant, Shape, TypeOK
<1>2. Saved' = Saved /\ SameSides /\ \A i : (Row(i)' <=> Row(i)) /\ Mine(i)' = Mine(i)
  BY DEF SameSides, Saved, Row, Mine
<1>3. KeepsEdits(run[r])'
  <2>1. JobFits(run[r])' /\ ReplacesKept(run[r])'
    BY <1>1, <1>2 DEF KeepsEdits, JobFits, Pushes, ReplacesKept, Pulls, Trusted, CallsAlike,
                      IsRevision
  <2>2. RewritesKept(run[r])' /\ WroteKept(run[r])'
    BY <1>1, <1>2 DEF KeepsEdits, RewritesKept, WroteKept, Pushes, Compared, Body
  <2>3. QED BY <2>1, <2>2 DEF KeepsEdits
<1>4. SomeLinkCallsAlike' => SomeLinkCallsAlike
  <2> SUFFICES ASSUME SomeLinkCallsAlike', ~SomeLinkCallsAlike PROVE FALSE  OBVIOUS
  <2>1. \A l : CallsAlike(l)' <=> CallsAlike(l)
    BY DEF CallsAlike, IsRevision
  <2>2. ~CallsAlike(link)'
    BY DEF SomeLinkCallsAlike, CallsAlike, IsRevision
  <2>3. PICK q \in Runners : Pulls(run[q])' /\ CallsAlike(run[q].link)'
    BY <2>2 DEF SomeLinkCallsAlike
  <2>4. CASE q # r
    BY <2>3, <2>4, <1>1 DEF SomeLinkCallsAlike, Pulls, CallsAlike, IsRevision
  <2>5. CASE q = r
    BY <2>3, <2>5, <1>1 DEF SomeLinkCallsAlike, Pulls, CallsAlike, IsRevision
  <2>6. QED BY <2>4, <2>5
<1>5. link'.rev \subseteq made /\ Trusted(link)' /\ CurrentIsCovered'
  BY <1>2 DEF Kind, SurviveInv, OnlyMade, Trusted, CallsAlike, IsRevision, CurrentIsCovered
<1>6. QED BY <1>2, <1>3, <1>4, <1>5, QuietSurvives

LEMMA IdleKeeps ==
    ASSUME NEW r \in Runners, run'[r] = Idle
    PROVE  KeepsEdits(run[r])'
BY IdleRests DEF KeepsEdits, JobFits, ReplacesKept, RewritesKept, WroteKept, Pulls, Pushes

\* A runner leaves, and has perhaps changed the link.
LEMMA LeaveSurvives ==
    ASSUME Kind, NEW r \in Runners, Leave(r),
           UNCHANGED <<remote, made, settled, unseen, exposed>>,
           LocksHeld', link'.rev \subseteq made, Trusted(link)', CurrentIsCovered',
           link' = link \/ ~link'.sure \/ (Working(run[r]) /\ Row(run[r].id))
    PROVE  SurviveInv'
<1>1. run' = [run EXCEPT ![r] = Idle] /\ run'[r] = Idle
      /\ \A q \in Runners : q # r => run'[q] = run[q]
  BY DEF Leave, Kind, Truth, Invariant, Shape, TypeOK
<1>2. SameSides
  BY DEF Leave, SameSides, Kind, Truth, Invariant, Shape, TypeOK
<1>3. KeepsEdits(run[r])'
  BY <1>1, IdleKeeps
<1>4. ASSUME link' = link \/ ~link'.sure, SomeLinkCallsAlike'
      PROVE  SomeLinkCallsAlike
  <2>1. CASE CallsAlike(link)'
    BY <2>1, <1>2, <1>4 DEF SomeLinkCallsAlike, CallsAlike, IsRevision, SameSides
  <2>2. CASE ~CallsAlike(link)'
    <3>1. PICK q \in Runners : Pulls(run[q])' /\ CallsAlike(run[q].link)'
      BY <2>2, <1>4 DEF SomeLinkCallsAlike
    <3>2. q # r
      BY <1>1, <3>1, IdleRests DEF Pulls
    <3>3. QED BY <1>1, <1>2, <3>1, <3>2
              DEF SomeLinkCallsAlike, Pulls, CallsAlike, IsRevision, SameSides
  <2>3. QED BY <2>1, <2>2
<1>5. Idle.seen \cup Idle.got \cup Idle.link.rev \subseteq made
  BY IdleRests
<1>6. QED BY <1>1, <1>2, <1>3, <1>4, <1>5, QuietSurvives

\* And has left the link alone.
LEMMA LeaveSafely ==
    ASSUME Kind, NEW r \in Runners, Leave(r),
           UNCHANGED <<link, remote, made, settled, unseen, exposed>>,
           active' = active \/ (Fail(r) /\ Callable(run[r]))
    PROVE  SurviveInv'
<1>1. SameSides /\ Saved' = Saved /\ run' = [run EXCEPT ![r] = Idle]
  BY DEF Leave, SameSides, Saved, Kind, Truth, Invariant, Shape, TypeOK
<1>2. link'.rev \subseteq made /\ Trusted(link)' /\ CurrentIsCovered'
  BY <1>1 DEF Kind, SurviveInv, OnlyMade, Trusted, CallsAlike, IsRevision, CurrentIsCovered,
              SameSides
<1>3. LocksHeld'
  BY <1>1, FailLocks, LocksKept, IdleRests DEF Kind, Truth, Invariant, SurviveInv
<1>4. QED BY <1>2, <1>3, LeaveSurvives

\* What all the lemmas below start from.
LEMMA KindMeans ==
    ASSUME Kind, NEW r \in Runners
    PROVE  /\ Truth /\ Shape /\ TruthInv /\ SurviveInv /\ LocksHeld /\ OnlyMade
           /\ run \in [Runners -> RunRecords] /\ run[r] \in RunRecords
           /\ Fit(run[r]) /\ Knows(run[r]) /\ KeepsEdits(run[r]) /\ JobFits(run[r])
           /\ run[r].seen \cup run[r].got \cup run[r].link.rev \subseteq made
           /\ local.content \cup link.rev \cup remote.content \subseteq made
           /\ made \subseteq Kept \cup Saved
<1>1. Truth /\ Shape /\ TruthInv /\ SurviveInv /\ LocksHeld /\ OnlyMade
  BY DEF Kind, Truth, Invariant, SurviveInv
<1>2. run \in [Runners -> RunRecords] /\ Fit(run[r]) /\ Knows(run[r]) /\ KeepsEdits(run[r])
  BY <1>1 DEF Shape, TypeOK, TruthInv, RunnersKnow, SurviveInv
<1>3. made \subseteq Kept \cup Saved
  BY <1>1 DEF SurviveInv, EditsSurvive, Saved
<1>4. QED BY <1>1, <1>2, <1>3 DEF KeepsEdits, OnlyMade

LEMMA AskStepsSurvive ==
    ASSUME Kind, NEW r \in Runners,
           \/ AskPush(r) \/ KeepLocal(r) \/ ReadDraft(r)
           \/ AskPull(r) \/ KeepRemote(r) \/ AskDrop(r) \/ AskDelete(r)
    PROVE  SurviveInv'
<1> USE DEF tables, history
<1>k. /\ Truth /\ Shape /\ TruthInv /\ SurviveInv /\ LocksHeld /\ OnlyMade
      /\ run \in [Runners -> RunRecords] /\ run[r] \in RunRecords
      /\ Fit(run[r]) /\ Knows(run[r]) /\ KeepsEdits(run[r]) /\ JobFits(run[r])
      /\ run[r].seen \cup run[r].got \cup run[r].link.rev \subseteq made
      /\ local.content \cup link.rev \cup remote.content \subseteq made
  BY KindMeans
<1>i. /\ Idle.pc = "idle" /\ Idle.job = "none" /\ Idle.seen = {} /\ Idle.got = {}
      /\ Idle.link = NoLink /\ Idle.id = 0 /\ NoLink.rev = {} /\ ~NoLink.sure
  BY IdleRests
<1>u. UNCHANGED <<local, link, remote, active, made, settled, unseen, exposed>>
  BY DEF AskPush, KeepLocal, ReadDraft, AskPull, KeepRemote, AskDrop, AskDelete
<1>1. CASE AskPush(r) \/ KeepLocal(r)
  <2>1. PICK j \in {"push", "keep"} :
          run' = [run EXCEPT ![r] = [Idle EXCEPT !.job = j, !.pc = "lock",
                                     !.id = local.id, !.seen = local.content]]
    BY <1>1 DEF AskPush, KeepLocal, Start
  <2>2. PICK y : y = [Idle EXCEPT !.job = j, !.pc = "lock",
                                  !.id = local.id, !.seen = local.content]
    OBVIOUS
  <2>3. /\ y.job = j /\ y.pc = "lock" /\ y.id = local.id /\ y.link = NoLink
        /\ y.seen = local.content /\ y.got = {}
    BY <2>2 DEF Idle
  <2>4. run' = [run EXCEPT ![r] = y]
    BY <2>1, <2>2
  <2>5. KeepsEdits(y)
    BY <2>3 DEF KeepsEdits, JobFits, ReplacesKept, RewritesKept, WroteKept, Pulls, Pushes
  <2>6. LocksHeld'
    BY <2>3, <2>4, <1>k, <1>u, LocksKept DEF Working
  <2>7. QED BY <2>3, <2>4, <2>5, <2>6, <1>i, <1>k, <1>u, MoveSurvives DEF Pulls
<1>2. CASE ReadDraft(r)
  <2>1. PICK y : y = [run[r] EXCEPT !.pc = "lock", !.seen = local.content]
    OBVIOUS
  <2>2. run' = [run EXCEPT ![r] = y] /\ run[r].pc = "read"
    BY <2>1, <1>2, <1>k DEF ReadDraft, At
  <2>3. /\ y.job = run[r].job /\ y.pc = "lock" /\ y.id = run[r].id /\ y.got = run[r].got
        /\ y.link = run[r].link /\ y.seen = local.content
    BY <2>1, <1>k DEF RunRecords
  <2>4. y.job = "send"
    BY <2>2, <2>3, <1>k DEF Knows, SendsConfirmed
  <2>5. KeepsEdits(y)
    BY <2>3, <2>4 DEF KeepsEdits, JobFits, ReplacesKept, RewritesKept, WroteKept, Pulls, Pushes
  <2>6. LocksHeld'
    BY <2>2, <2>3, <1>k, <1>u, LocksKept DEF Working
  <2>7. QED BY <2>2, <2>3, <2>4, <2>5, <2>6, <1>k, <1>u, MoveSurvives DEF Pulls
<1>3. CASE AskPull(r)
  <2>1. PICK y : y = [Idle EXCEPT !.job = "pull", !.pc = "look", !.key = remote.key,
                                  !.got = remote.content]
    OBVIOUS
  <2>2. run' = [run EXCEPT ![r] = y]
    BY <2>1, <1>3 DEF AskPull, Load
  <2>3. /\ y.job = "pull" /\ y.pc = "look" /\ y.link = NoLink /\ y.got = remote.content
        /\ y.seen = {}
    BY <2>1 DEF Idle
  <2>4. KeepsEdits(y)
    BY <2>3 DEF KeepsEdits, JobFits, ReplacesKept, RewritesKept, WroteKept, Pulls, Pushes
  <2>5. LocksHeld'
    BY <2>2, <2>3, <1>k, <1>u, LocksKept DEF Working
  <2>6. QED BY <2>2, <2>3, <2>4, <2>5, <1>i, <1>k, <1>u, MoveSurvives DEF Pulls
<1>4. CASE KeepRemote(r)
  <2>1. PICK p \in {"recover", "load"} : p = IF link = NoLink THEN "recover" ELSE "load"
    OBVIOUS
  <2>2. PICK y : y = [Idle EXCEPT !.job = "reload", !.id = local.id, !.link = link, !.pc = p]
    OBVIOUS
  <2>3. run' = [run EXCEPT ![r] = y]
    BY <2>1, <2>2, <1>4 DEF KeepRemote
  <2>4. y.job = "reload" /\ y.pc = p /\ y.link = link /\ y.seen = {} /\ y.got = {}
    BY <2>2 DEF Idle
  <2>5. KeepsEdits(y)
    BY <2>1, <2>4 DEF KeepsEdits, JobFits, ReplacesKept, RewritesKept, WroteKept, Pulls, Pushes
  <2>6. LocksHeld'
    BY <2>1, <2>3, <2>4, <1>k, <1>u, LocksKept DEF Working, Pushes
  <2>7. QED BY <2>1, <2>3, <2>4, <2>5, <2>6, <1>k, <1>u, MoveSurvives DEF Pulls
<1>5. CASE AskDrop(r)
  <2>1. PICK y : y = [Idle EXCEPT !.job = "drop", !.pc = "drop", !.id = local.id]
    OBVIOUS
  <2>2. run' = [run EXCEPT ![r] = y]
    BY <2>1, <1>5 DEF AskDrop
  <2>3. /\ y.job = "drop" /\ y.pc = "drop" /\ y.id = local.id /\ y.link = NoLink
        /\ y.seen = {} /\ y.got = {}
    BY <2>1 DEF Idle
  <2>4. Mine(y.id) \subseteq Saved
    <3>1. Row(local.id) => CallsAlike(link) /\ remote.content = {}
      BY <1>5, <1>k DEF AskDrop, CallsAlike, Row, OnlyMade
    <3>2. QED BY <2>3, <3>1, <1>k DEF SurviveInv, Trusted, Mine
  <2>5. KeepsEdits(y)
    BY <2>3, <2>4 DEF KeepsEdits, JobFits, ReplacesKept, RewritesKept, WroteKept, Pulls, Pushes
  <2>6. LocksHeld'
    BY <2>2, <2>3, <1>k, <1>u, LocksKept DEF Working, Pushes
  <2>7. QED BY <2>2, <2>3, <2>5, <2>6, <1>i, <1>k, <1>u, MoveSurvives DEF Pulls
<1>6. CASE AskDelete(r)
  <2>1. PICK p \in {"unmake", "recover", "forget"} :
          p = IF link # NoLink THEN "unmake"
              ELSE IF local.id \in claims THEN "recover" ELSE "forget"
    OBVIOUS
  <2>2. PICK y : y = [Idle EXCEPT !.job = "delete", !.id = local.id, !.link = link, !.pc = p]
    OBVIOUS
  <2>3. run' = [run EXCEPT ![r] = y]
    BY <2>1, <2>2, <1>6 DEF AskDelete
  <2>4. y.job = "delete" /\ y.pc = p /\ y.link = link /\ y.seen = {} /\ y.got = {}
    BY <2>2 DEF Idle
  <2>5. KeepsEdits(y)
    BY <2>1, <2>4 DEF KeepsEdits, JobFits, ReplacesKept, RewritesKept, WroteKept, Pulls, Pushes
  <2>6. LocksHeld'
    BY <2>1, <2>3, <2>4, <1>k, <1>u, LocksKept DEF Working, Pushes
  <2>7. QED BY <2>1, <2>3, <2>4, <2>5, <2>6, <1>k, <1>u, MoveSurvives DEF Pulls
<1>7. QED BY <1>1, <1>2, <1>3, <1>4, <1>5, <1>6

LEMMA BeginSendSurvives ==
    ASSUME Kind, NEW r \in Runners, BeginSend(r)
    PROVE  SurviveInv'
<1> USE DEF tables, history
<1>k. /\ Shape /\ LocksHeld /\ SurviveInv /\ OnlyMade /\ run \in [Runners -> RunRecords]
  BY KindMeans
<1>1. PICK y : y = [Idle EXCEPT !.job = "send", !.pc = "read", !.id = local.id,
                                !.confirmed = local.content]
  OBVIOUS
<1>2. run' = [run EXCEPT ![r] = y] /\ run'[r] = y /\ \A q \in Runners : q # r => run'[q] = run[q]
  BY <1>1, <1>k DEF BeginSend
<1>3. /\ y.job = "send" /\ y.pc = "read" /\ y.link = NoLink /\ y.seen = {} /\ y.got = {}
      /\ NoLink.rev = {} /\ ~NoLink.sure
  BY <1>1, IdleRests DEF Idle
<1>4. SameSides /\ Saved' = Saved /\ UNCHANGED <<link, active>>
  BY <1>k DEF BeginSend, Editable, SameSides, Saved, Shape, TypeOK
<1>5. KeepsEdits(run[r])'
  BY <1>2, <1>3 DEF KeepsEdits, JobFits, ReplacesKept, RewritesKept, WroteKept, Pulls, Pushes
<1>6. LocksHeld'
  BY <1>2, <1>3, <1>4, <1>k, LocksKept DEF Working
<1>7. SomeLinkCallsAlike' => SomeLinkCallsAlike
  BY <1>2, <1>3, <1>4 DEF SomeLinkCallsAlike, CallsAlike, IsRevision, Pulls, SameSides
<1>8. link'.rev \subseteq made /\ Trusted(link)' /\ CurrentIsCovered'
  BY <1>4, <1>k DEF SurviveInv, OnlyMade, Trusted, CallsAlike, IsRevision, CurrentIsCovered,
                    SameSides
<1>9. QED BY <1>2, <1>3, <1>4, <1>5, <1>6, <1>7, <1>8, QuietSurvives

LEMMA LockStepsSurvive ==
    ASSUME Kind, NEW r \in Runners,
           LockPush(r) \/ PushEndsEarly(r) \/ FetchRemote(r) \/ Refused(r) \/ CallFails(r)
    PROVE  SurviveInv'
<1> USE DEF tables, history
<1>k. /\ Truth /\ Shape /\ TruthInv /\ SurviveInv /\ LocksHeld /\ OnlyMade
      /\ run \in [Runners -> RunRecords] /\ run[r] \in RunRecords
      /\ Fit(run[r]) /\ Knows(run[r]) /\ KeepsEdits(run[r]) /\ JobFits(run[r])
      /\ run[r].seen \cup run[r].got \cup run[r].link.rev \subseteq made
      /\ local.content \cup link.rev \cup remote.content \subseteq made
      /\ made \subseteq Kept \cup Saved
  BY KindMeans
<1>i. NoLink.rev = {} /\ ~NoLink.sure
  BY IdleRests
<1>u. UNCHANGED <<link, remote, made, settled, unseen, exposed>>
  BY DEF LockPush, PushEndsEarly, FetchRemote, Refused, CallFails
<1>1. CASE LockPush(r)
  <2>1. PICK l : l = IF Row(run[r].id) THEN link ELSE NoLink
    OBVIOUS
  <2>2. PICK p \in {"recover", "claim", "fetch"} :
          p = CASE l = NoLink /\ Row(run[r].id) /\ run[r].id \in claims -> "recover"
                [] l = NoLink /\ ~(Row(run[r].id) /\ run[r].id \in claims) -> "claim"
                [] l # NoLink -> "fetch"
    OBVIOUS
  <2>3. PICK y : y = [run[r] EXCEPT !.pc = p, !.link = l]
    OBVIOUS
  <2>4. /\ run' = [run EXCEPT ![r] = y] /\ UNCHANGED local
        /\ run[r].pc = "lock" /\ Pushes(run[r])
        /\ active' = active \cup {run[r].id} /\ run[r].id \notin active
        /\ l # NoLink /\ ~l.sure => run[r].job = "keep"
    BY <2>1, <2>2, <2>3, <1>1
       DEF LockPush, At, Pushing, Pushes, Free, Unsure, Overwrites
  <2>5. /\ y.pc = p /\ y.link = l /\ y.job = run[r].job /\ y.id = run[r].id
        /\ y.seen = run[r].seen /\ y.got = run[r].got
    BY <2>3, <1>k DEF RunRecords
  <2>6. p = "fetch" /\ y.job # "keep" /\ l.key = remote.key => Compared(y)
    <3> SUFFICES ASSUME p = "fetch", y.job # "keep", l.key = remote.key,
                        remote.state = "draft"
                 PROVE  remote.content \cup y.seen \subseteq Mine(y.id) \cup Saved
      BY DEF Compared
    <3>1. l # NoLink /\ l.sure /\ Row(run[r].id) /\ l = link
      BY <2>1, <2>2, <2>4, <2>5
    <3>2. remote.content \subseteq local.content \cup Saved /\ Mine(y.id) = local.content
      BY <2>5, <3>1, <1>k DEF SurviveInv, CurrentIsCovered, Mine, Row
    <3>3. made \subseteq local.content \cup Saved
      BY <3>2, <1>k DEF Kept
    <3>4. QED BY <2>5, <3>2, <3>3, <1>k
  <2>7. JobFits(y) /\ ReplacesKept(y) /\ WroteKept(y)
    BY <2>2, <2>4, <2>5 DEF JobFits, ReplacesKept, WroteKept, Pulls, Pushes
  <2>8. RewritesKept(y)
    BY <2>2, <2>4, <2>5, <2>6, <1>k DEF KeepsEdits, RewritesKept, Pushes
  <2>9. LocksHeld'
    BY <2>2, <2>4, <2>5, <1>k, LocksKept DEF Working, Pushes
  <2>10. y.seen \cup y.got \cup y.link.rev \subseteq made
    BY <2>1, <2>5, <1>i, <1>k
  <2>11. QED BY <2>2, <2>4, <2>5, <2>7, <2>8, <2>9, <2>10, <1>u, MoveSurvives
             DEF KeepsEdits, Pulls
<1>2. CASE PushEndsEarly(r)
  <2>1. CASE Leave(r)
    BY <2>1, <1>2, <1>u, LeaveSafely DEF PushEndsEarly
  <2>2. CASE ~Leave(r)
    <3>1. PICK y : y = [run[r] EXCEPT !.pc = "send", !.key = link.key, !.seen = {}]
      OBVIOUS
    <3>2. /\ run' = [run EXCEPT ![r] = y] /\ UNCHANGED <<local, active>>
          /\ run[r].job = "send"
      BY <3>1, <2>2, <1>2 DEF PushEndsEarly
    <3>3. /\ y.pc = "send" /\ y.job = run[r].job /\ y.id = run[r].id
          /\ y.link = run[r].link /\ y.seen = {} /\ y.got = run[r].got
      BY <3>1, <1>k DEF RunRecords
    <3>4. KeepsEdits(y)
      BY <3>2, <3>3
         DEF KeepsEdits, JobFits, ReplacesKept, RewritesKept, WroteKept, Pulls, Pushes
    <3>5. LocksHeld'
      BY <3>2, <3>3, <1>k, LocksKept DEF Working
    <3>6. QED BY <3>2, <3>3, <3>4, <3>5, <1>k, <1>u, MoveSurvives DEF Pulls
  <2>3. QED BY <2>1, <2>2
<1>3. CASE FetchRemote(r)
  <2>1. CASE Fail(r)
    BY <2>1, <1>3, <1>u, LeaveSafely DEF FetchRemote, Fail, Callable, At
  <2>2. CASE ~Fail(r)
    <3>1. PICK y : y = [run[r] EXCEPT !.pc = "update", !.key = remote.key, !.link = NoLink]
      OBVIOUS
    <3>2. /\ run' = [run EXCEPT ![r] = y] /\ UNCHANGED <<local, active>>
          /\ run[r].pc = "fetch" /\ remote.state = "draft" /\ Pushes(run[r])
          /\ run[r].job # "keep" => remote.key = run[r].link.key
      BY <3>1, <2>2, <1>3, <1>k DEF FetchRemote, At, Pushing, Pushes, Overwrites
    <3>3. /\ y.pc = "update" /\ y.key = remote.key /\ y.job = run[r].job /\ y.id = run[r].id
          /\ y.link = NoLink /\ y.seen = run[r].seen /\ y.got = run[r].got
      BY <3>1, <1>k DEF RunRecords
    <3>4. y.job # "keep" => Compared(y)
      BY <3>2, <3>3, <1>k DEF KeepsEdits, RewritesKept, Compared
    <3>5. JobFits(y) /\ ReplacesKept(y) /\ WroteKept(y) /\ RewritesKept(y)
      BY <3>2, <3>3, <3>4 DEF JobFits, ReplacesKept, WroteKept, RewritesKept, Pulls, Pushes
    <3>6. LocksHeld'
      BY <3>2, <3>3, <1>k, LocksKept DEF Working, Pushes
    <3>7. QED BY <3>2, <3>3, <3>5, <3>6, <1>i, <1>k, <1>u, MoveSurvives DEF KeepsEdits, Pulls
  <2>3. QED BY <2>1, <2>2
<1>4. CASE Refused(r)
  BY <1>4, <1>u, LeaveSafely DEF Refused
<1>5. CASE CallFails(r)
  BY <1>5, <1>u, LeaveSafely DEF CallFails, Fail, Callable
<1>6. QED BY <1>1, <1>2, <1>3, <1>4, <1>5

LEMMA QuietStepsSurvive ==
    ASSUME Kind, NEW r \in Runners,
           Claim(r) \/ CreateRefused(r) \/ LoadRemote(r) \/ Finish(r)
    PROVE  SurviveInv'
<1> USE DEF tables, history
<1>k. /\ Truth /\ Shape /\ TruthInv /\ SurviveInv /\ LocksHeld /\ OnlyMade
      /\ run \in [Runners -> RunRecords] /\ run[r] \in RunRecords
      /\ Fit(run[r]) /\ Knows(run[r]) /\ KeepsEdits(run[r]) /\ JobFits(run[r])
      /\ run[r].seen \cup run[r].got \cup run[r].link.rev \subseteq made
      /\ local.content \cup link.rev \cup remote.content \subseteq made
  BY KindMeans
<1>i. /\ Idle.pc = "idle" /\ Idle.job = "none" /\ Idle.seen = {} /\ Idle.got = {}
      /\ Idle.link = NoLink /\ Idle.id = 0 /\ NoLink.rev = {} /\ ~NoLink.sure
      /\ ~Working(Idle)
  BY IdleRests
<1>1. CASE Claim(r)
  <2>1. UNCHANGED <<link, remote, made, settled, unseen, exposed>> /\ run[r].pc = "claim"
    BY <1>1 DEF Claim, At
  <2>2. CASE Fail(r)
    BY <2>1, <2>2, LeaveSafely DEF Fail, Callable
  <2>3. CASE ~Fail(r)
    <3>1. PICK y : y = [run[r] EXCEPT !.pc = "create"]
      OBVIOUS
    <3>2. run' = [run EXCEPT ![r] = y] /\ UNCHANGED <<local, active>>
      BY <3>1, <2>3, <1>1 DEF Claim, GoTo
    <3>3. /\ y.pc = "create" /\ y.job = run[r].job /\ y.id = run[r].id
          /\ y.link = run[r].link /\ y.seen = run[r].seen /\ y.got = run[r].got
      BY <3>1, <1>k DEF RunRecords
    <3>4. KeepsEdits(y)
      BY <3>3, <1>k
         DEF KeepsEdits, JobFits, ReplacesKept, RewritesKept, WroteKept, Pulls, Pushes
    <3>5. LocksHeld'
      BY <2>1, <3>2, <3>3, <1>k, LocksKept DEF Working, Pushes, Fit
    <3>6. QED BY <2>1, <3>2, <3>3, <3>4, <3>5, <1>k, MoveSurvives DEF Pulls
  <2>4. QED BY <2>2, <2>3
<1>2. CASE CreateRefused(r)
  <2>1. UNCHANGED <<link, remote, made, settled, unseen, exposed>> /\ Fail(r) /\ Leave(r)
        /\ Callable(run[r])
    BY <1>2 DEF CreateRefused, Fail, At, Callable
  <2>2. QED BY <2>1, LeaveSafely
<1>3. CASE LoadRemote(r)
  <2>1. UNCHANGED <<link, remote, active, made, settled, unseen, exposed>>
    BY <1>3 DEF LoadRemote
  <2>2. CASE Leave(r)
    BY <2>1, <2>2, LeaveSafely
  <2>3. CASE ~Leave(r)
    <3>1. PICK y : y = [Idle EXCEPT !.job = "reload", !.pc = "look", !.key = remote.key,
                                    !.got = remote.content]
      OBVIOUS
    <3>2. run' = [run EXCEPT ![r] = y] /\ local' = local
      BY <3>1, <2>3, <1>3 DEF LoadRemote, Load
    <3>3. /\ y.job = "reload" /\ y.pc = "look" /\ y.link = NoLink /\ y.got = remote.content
          /\ y.seen = {}
      BY <3>1 DEF Idle
    <3>4. KeepsEdits(y)
      BY <3>3 DEF KeepsEdits, JobFits, ReplacesKept, RewritesKept, WroteKept, Pulls, Pushes
    <3>5. LocksHeld'
      BY <2>1, <3>2, <3>3, <1>k, LocksKept DEF Working, Pushes
    <3>6. QED BY <2>1, <3>2, <3>3, <3>4, <3>5, <1>i, <1>k, MoveSurvives DEF Pulls
  <2>4. QED BY <2>2, <2>3
<1>4. CASE Finish(r)
  <2>1. /\ UNCHANGED <<link, remote, active, made, settled, unseen, exposed>>
        /\ run' = [run EXCEPT ![r] = Idle]
    BY <1>4 DEF Finish
  <2>2. SameSides /\ Saved' = Saved
    BY <2>1, <1>4, <1>k DEF Finish, Row, SameSides, Saved, Shape, TypeOK
  <2>3. run'[r] = Idle /\ \A q \in Runners : q # r => run'[q] = run[q]
    BY <2>1, <1>k
  <2>4. KeepsEdits(run[r])'
    BY <2>3, IdleKeeps
  <2>5. LocksHeld'
    BY <2>1, <1>i, <1>k, LocksKept
  <2>6. SomeLinkCallsAlike' => SomeLinkCallsAlike
    BY <2>1, <2>2, <2>3, <1>i DEF SomeLinkCallsAlike, CallsAlike, IsRevision, Pulls, SameSides
  <2>7. link'.rev \subseteq made /\ Trusted(link)' /\ CurrentIsCovered'
    BY <2>1, <2>2, <1>k DEF SurviveInv, OnlyMade, Trusted, CallsAlike, IsRevision,
                            CurrentIsCovered, SameSides
  <2>8. Idle.seen \cup Idle.got \cup Idle.link.rev \subseteq made
    BY <1>i
  <2>9. QED BY <2>1, <2>2, <2>4, <2>5, <2>6, <2>7, <2>8, QuietSurvives
<1>5. QED BY <1>1, <1>2, <1>3, <1>4

LEMMA LinkCreatedSurvives ==
    ASSUME Kind, NEW r \in Runners, LinkCreated(r)
    PROVE  SurviveInv'
<1> USE DEF tables, history
<1>k. /\ Truth /\ Shape /\ TruthInv /\ SurviveInv /\ LocksHeld /\ OnlyMade
      /\ run \in [Runners -> RunRecords] /\ run[r] \in RunRecords
      /\ Fit(run[r]) /\ Knows(run[r]) /\ KeepsEdits(run[r]) /\ JobFits(run[r])
      /\ run[r].seen \cup run[r].got \cup run[r].link.rev \subseteq made
  BY KindMeans
<1>u. /\ UNCHANGED <<remote, made, settled, unseen, exposed>> /\ run[r].pc = "link"
      /\ Working(run[r])
  BY <1>k DEF LinkCreated, At, Working, Pushes, Fit
<1>1. CASE Fail(r) /\ link' = link
  BY <1>1, <1>u, LeaveSafely DEF Fail, Callable
<1>2. CASE Row(run[r].id)
  <2>1. PICK p \in {"attach", "confirm"} :
          p = IF FilesOf(run[r].seen) # {} THEN "attach" ELSE "confirm"
    OBVIOUS
  <2>2. StepAfter(r, {}) = p
    BY <2>1 DEF StepAfter, FilesOf
  <2>3. PICK y : y = [run[r] EXCEPT !.pc = p]
    OBVIOUS
  <2>4. /\ run' = [run EXCEPT ![r] = y]
        /\ link' = [key |-> run[r].key, sure |-> FALSE, rev |-> {}]
        /\ UNCHANGED <<local, active>>
    BY <1>2, <2>2, <2>3 DEF LinkCreated, GoTo, UnsureLink
  <2>5. /\ y.pc = p /\ y.job = run[r].job /\ y.id = run[r].id
        /\ y.link = run[r].link /\ y.seen = run[r].seen /\ y.got = run[r].got
    BY <2>3, <1>k DEF RunRecords
  <2>6. run'[r] = y /\ ~link'.sure /\ link'.rev = {}
    BY <2>4, <1>k
  <2>7. p = "confirm" => Body(y.seen) = y.seen
    BY <2>1, <2>5, BodyAndFiles
  <2>8. KeepsEdits(y)
    <3>1. JobFits(y) /\ ReplacesKept(y) /\ RewritesKept(y)
      BY <2>1, <2>5, <1>u, <1>k
         DEF KeepsEdits, Fit, JobFits, ReplacesKept, RewritesKept, Pulls, Pushes
    <3>2. WroteKept(y)
      BY <2>1, <2>5, <2>7, <1>u, <1>k DEF KeepsEdits, WroteKept
    <3>3. QED BY <3>1, <3>2 DEF KeepsEdits
  <2>9. KeepsEdits(run[r])'
    <3>1. Saved' = Saved /\ \A i : (Row(i)' <=> Row(i)) /\ Mine(i)' = Mine(i)
      BY <2>4, <1>u DEF Saved, Row, Mine
    <3>2. JobFits(run[r])' /\ ReplacesKept(run[r])' /\ RewritesKept(run[r])'
      BY <2>1, <2>5, <2>6, <2>8, <3>1, <2>4, <1>u
         DEF KeepsEdits, JobFits, ReplacesKept, RewritesKept, Pulls, Pushes
    <3>3. WroteKept(run[r])'
      BY <2>4, <2>6, <2>8, <3>1, <1>u DEF KeepsEdits, WroteKept, Body
    <3>4. QED BY <3>2, <3>3 DEF KeepsEdits
  <2>10. LocksHeld'
    BY <2>1, <2>4, <2>5, <1>u, <1>k, LocksKept DEF Working, Pushes
  <2>11. SameSides
    BY <2>4, <1>u DEF SameSides
  <2>12. link'.rev \subseteq made /\ Trusted(link)' /\ CurrentIsCovered'
    BY <2>6 DEF Trusted, CallsAlike, IsRevision, CurrentIsCovered
  <2>13. QED BY <2>4, <2>5, <2>9, <2>10, <2>11, <2>12, <1>2, <1>u, <1>k, QuietSurvives
<1>3. QED BY <1>1, <1>2 DEF LinkCreated

LEMMA ConfirmSurvives ==
    ASSUME Kind, NEW r \in Runners, Confirm(r)
    PROVE  SurviveInv'
<1> USE DEF tables, history
<1>k. /\ Truth /\ Shape /\ TruthInv /\ SurviveInv /\ LocksHeld /\ OnlyMade
      /\ run \in [Runners -> RunRecords] /\ run[r] \in RunRecords
      /\ Fit(run[r]) /\ Knows(run[r]) /\ KeepsEdits(run[r]) /\ JobFits(run[r])
      /\ run[r].seen \cup run[r].got \cup run[r].link.rev \subseteq made
  BY KindMeans
<1>u. /\ UNCHANGED <<remote, made, settled, unseen, exposed>> /\ run[r].pc = "confirm"
      /\ Working(run[r]) /\ Pushes(run[r]) /\ Callable(run[r])
  BY <1>k DEF Confirm, At, Working, JobFits, Callable
<1>1. CASE Fail(r) /\ link' = link
  BY <1>1, <1>u, LeaveSafely DEF Fail
<1>2. CASE Row(run[r].id)
  <2>1. link'.key = run[r].key /\ link'.sure /\ link'.rev = run[r].seen
    BY <1>2 DEF Confirm, LinkOf
  <2>2. /\ run[r].seen \subseteq remote.content \cup Saved
        /\ remote.state = "draft" => run[r].seen \subseteq local.content \cup Saved
        /\ remote.state = "draft" /\ remote.key = run[r].key
              => remote.content \subseteq run[r].seen \cup unseen
    BY <1>2, <1>u, <1>k DEF KeepsEdits, WroteKept, Knows, TellsTruth, Alike
  <2>3. ASSUME SameSides
        PROVE  link'.rev \subseteq made /\ Trusted(link)' /\ CurrentIsCovered'
    <3>1. Saved' = Saved /\ unseen \subseteq Saved /\ local'.content = local.content
          /\ remote' = remote
      BY <2>3 DEF Saved, SameSides
    <3>2. Trusted(link)'
      BY <2>1, <2>2, <3>1 DEF Trusted, CallsAlike, IsRevision
    <3>3. CurrentIsCovered'
      BY <2>1, <2>2, <3>1 DEF CurrentIsCovered
    <3>4. QED BY <2>1, <3>2, <3>3, <1>k
  <2>4. CASE Fail(r)
    <3>1. SameSides /\ Leave(r)
      BY <2>4, <1>u, <1>k DEF Fail, Leave, SameSides, Shape, TypeOK
    <3>2. LocksHeld'
      BY <2>4, <1>u, <1>k, FailLocks
    <3>3. QED BY <2>3, <3>1, <3>2, <1>2, <1>u, LeaveSurvives
  <2>5. CASE ~Fail(r)
    <3>1. PICK y : y = [run[r] EXCEPT !.pc = "send", !.seen = {}]
      OBVIOUS
    <3>2. run' = [run EXCEPT ![r] = y] /\ local' = local /\ active' = active \ {run[r].id}
      BY <1>2, <1>u, <2>5, <3>1 DEF Confirm, Unlock, Holds, Pushing, Pushes
    <3>3. /\ y.pc = "send" /\ y.job = run[r].job /\ y.id = run[r].id
          /\ y.link = run[r].link /\ y.seen = {} /\ y.got = run[r].got
      BY <3>1, <1>k DEF RunRecords
    <3>4. run'[r] = y /\ SameSides
      BY <3>2, <1>u, <1>k DEF SameSides
    <3>5. KeepsEdits(run[r])'
      BY <3>3, <3>4
         DEF KeepsEdits, JobFits, ReplacesKept, RewritesKept, WroteKept, Pulls, Pushes
    <3>6. LocksHeld'
      BY <3>2, <3>3, <1>u, <1>k, LocksKept DEF Working
    <3>7. QED BY <2>3, <3>2, <3>3, <3>4, <3>5, <3>6, <1>2, <1>u, <1>k, QuietSurvives
  <2>6. QED BY <2>4, <2>5
<1>3. QED BY <1>1, <1>2 DEF Confirm

LEMMA RecoverSurvives ==
    ASSUME Kind, NEW r \in Runners, Recover(r)
    PROVE  SurviveInv'
<1> USE DEF tables, history
<1>k. /\ Truth /\ Shape /\ TruthInv /\ SurviveInv /\ LocksHeld /\ OnlyMade
      /\ run \in [Runners -> RunRecords] /\ run[r] \in RunRecords
      /\ Fit(run[r]) /\ Knows(run[r]) /\ KeepsEdits(run[r]) /\ JobFits(run[r])
      /\ run[r].seen \cup run[r].got \cup run[r].link.rev \subseteq made
  BY KindMeans
<1>u. /\ UNCHANGED <<remote, made, settled, unseen, exposed>> /\ run[r].pc = "recover"
      /\ Callable(run[r])
  BY DEF Recover, At, Callable
<1>1. CASE Fail(r) /\ link' = link
  BY <1>1, <1>u, LeaveSafely DEF Fail
<1>2. CASE Found(run[r].id) /\ Row(run[r].id)
  <2>1. PICK found : found = [key |-> remote.key, sure |-> FALSE, rev |-> {}]
    OBVIOUS
  <2>2. link' = found /\ ~found.sure /\ found.rev = {} /\ remote.state = "draft"
    BY <1>2, <2>1 DEF Recover, UnsureLink, Found
  <2>3. link'.rev \subseteq made /\ Trusted(link)' /\ CurrentIsCovered'
    BY <2>2 DEF Trusted, CallsAlike, IsRevision, CurrentIsCovered
  <2>4. CASE Fail(r)
    <3>1. LocksHeld'
      BY <2>4, <1>u, <1>k, FailLocks
    <3>2. QED BY <2>2, <2>3, <2>4, <3>1, <1>u, LeaveSurvives DEF Fail
  <2>5. CASE ~Fail(r)
    <3>1. PICK p : p = StepAfterRecovery(r)
      OBVIOUS
    <3>2. PICK y : y = [run[r] EXCEPT !.pc = p, !.link = found]
      OBVIOUS
    <3>3. /\ run' = [run EXCEPT ![r] = y] /\ UNCHANGED <<local, active>>
          /\ run[r].job \in {"keep", "reload", "delete"}
      BY <1>2, <2>1, <2>5, <3>1, <3>2, <1>u, <1>k DEF Recover, UnsureLink, Fit
    <3>4. /\ run[r].job = "keep" => p = "fetch"
          /\ run[r].job # "keep" => p \in {"load", "unmake"}
      BY <3>1, <3>3 DEF StepAfterRecovery
    <3>5. /\ y.pc = p /\ y.job = run[r].job /\ y.id = run[r].id
          /\ y.link = found /\ y.seen = run[r].seen /\ y.got = run[r].got
      BY <3>2, <1>k DEF RunRecords
    <3>6. run'[r] = y /\ SameSides /\ \A q \in Runners : q # r => run'[q] = run[q]
      BY <3>3, <1>u, <1>k DEF SameSides
    <3>7. p \notin {"lock", "commit", "drop", "update", "detach", "link", "attach", "confirm",
                    "look", "idle", "forget"}
      BY <3>3, <3>4
    <3>8. JobFits(run[r])' /\ ReplacesKept(run[r])' /\ WroteKept(run[r])'
      BY <3>3, <3>4, <3>5, <3>6, <3>7 DEF JobFits, ReplacesKept, WroteKept, Pulls, Pushes
    <3>9. RewritesKept(run[r])'
      BY <2>2, <3>3, <3>4, <3>5, <3>6, <3>7, <1>u DEF RewritesKept, Pushes
    <3>10. LocksHeld'
      BY <3>3, <3>4, <3>5, <1>u, <1>k, LocksKept DEF Working, Pushes
    <3>11. SomeLinkCallsAlike' => SomeLinkCallsAlike
      BY <2>2, <3>3, <3>5, <3>6, <3>7 DEF SomeLinkCallsAlike, CallsAlike, IsRevision, Pulls
    <3>12. y.seen \cup y.got \cup y.link.rev \subseteq made
      BY <2>2, <3>5, <1>k
    <3>13. KeepsEdits(run[r])'
      BY <3>8, <3>9 DEF KeepsEdits
    <3>14. QED BY <2>3, <3>3, <3>6, <3>10, <3>11, <3>12, <3>13, QuietSurvives
  <2>6. QED BY <2>4, <2>5
<1>3. QED BY <1>1, <1>2 DEF Recover

LEMMA PullStepsSurvive ==
    ASSUME Kind, NEW r \in Runners, Look(r) \/ LockPull(r)
    PROVE  SurviveInv'
<1> USE DEF tables, history
<1>k. /\ Truth /\ Shape /\ TruthInv /\ SurviveInv /\ LocksHeld /\ OnlyMade
      /\ run \in [Runners -> RunRecords] /\ run[r] \in RunRecords
      /\ Fit(run[r]) /\ Knows(run[r]) /\ KeepsEdits(run[r]) /\ JobFits(run[r])
      /\ run[r].seen \cup run[r].got \cup run[r].link.rev \subseteq made
      /\ local.content \cup link.rev \cup remote.content \subseteq made
  BY KindMeans
<1>i. NoLink.rev = {} /\ ~NoLink.sure
  BY IdleRests
<1>u. UNCHANGED <<remote, made, settled, unseen, exposed>>
  BY DEF Look, LockPull
<1>1. CASE Look(r)
  <2>1. /\ run[r].pc = "look" /\ active' = active /\ run[r].job \in {"pull", "reload"}
        /\ run[r].link = NoLink
    BY <1>1, <1>k DEF Look, At, JobFits
  <2>2. CASE \/ link # NoLink /\ UNCHANGED <<link, local>> /\ run' =
                  [run EXCEPT ![r].pc = "lock", ![r].link = link, ![r].id = local.id]
             \/ link = NoLink /\ UNCHANGED <<link, local>> /\ GoTo(r, "lock")
    <3>1. PICK y : y = IF link # NoLink
                       THEN [run[r] EXCEPT !.pc = "lock", !.link = link, !.id = local.id]
                       ELSE [run[r] EXCEPT !.pc = "lock"]
      OBVIOUS
    <3>2. run' = [run EXCEPT ![r] = y]
      BY <2>2, <3>1 DEF GoTo
    <3>3. /\ y.pc = "lock" /\ y.job = run[r].job /\ y.link = link
          /\ y.seen = run[r].seen /\ y.got = run[r].got
      BY <2>1, <3>1, <1>k DEF RunRecords
    <3>4. KeepsEdits(y)
      BY <2>1, <3>3, <1>k
         DEF SurviveInv, KeepsEdits, JobFits, ReplacesKept, RewritesKept, WroteKept, Pulls, Pushes
    <3>5. LocksHeld'
      BY <2>1, <3>2, <3>3, <1>k, LocksKept DEF Working
    <3>6. y.seen \cup y.got \cup y.link.rev \subseteq made
      BY <3>3, <1>k
    <3>7. UNCHANGED <<local, link, remote, made, settled, unseen, exposed>>
      BY <2>2, <1>u
    <3>8. QED BY <3>2, <3>3, <3>4, <3>5, <3>6, <3>7, <1>k, MoveSurvives
  <2>3. CASE Leave(r) /\ (link' = link \/ link' = UnsureLink(run[r].key)) /\ link = NoLink
    <3>1. link' = link \/ (~link'.sure /\ link'.rev = {})
      BY <2>3 DEF UnsureLink
    <3>2. link'.rev \subseteq made /\ Trusted(link)' /\ CurrentIsCovered'
      BY <2>3, <3>1, <1>i DEF Trusted, CallsAlike, IsRevision, CurrentIsCovered
    <3>3. LocksHeld'
      BY <2>1, <2>3, <1>k, LocksKept, IdleRests DEF Leave
    <3>4. QED BY <2>3, <3>1, <3>2, <3>3, <1>u, LeaveSurvives
  <2>4. QED BY <2>2, <2>3, <1>1 DEF Look
<1>2. CASE LockPull(r)
  <2>1. link' = link /\ run[r].pc = "lock" /\ run[r].job \in {"pull", "reload"}
    BY <1>2, <1>k DEF LockPull, At, Pushing, JobFits, Pushes
  <2>2. CASE Leave(r) /\ active' = active
    BY <2>1, <2>2, <1>u, LeaveSafely
  <2>3. CASE ~(Leave(r) /\ active' = active)
    <3>1. PICK i : i = IF Row(run[r].id) THEN run[r].id ELSE 0
      OBVIOUS
    <3>2. PICK c : c = IF i = 0 THEN {} ELSE local.content
      OBVIOUS
    <3>3. PICK y : y = [run[r] EXCEPT !.pc = "commit", !.id = i, !.link = NoLink, !.seen = c]
      OBVIOUS
    <3>4. /\ run' = [run EXCEPT ![r] = y] /\ active' = active \cup {i} /\ local' = local
          /\ i \notin active /\ ~Unneeded(r)
      BY <2>3, <3>1, <3>2, <3>3, <1>2 DEF LockPull, Free
    <3>5. /\ y.pc = "commit" /\ y.job = run[r].job /\ y.id = i /\ y.link = NoLink
          /\ y.seen = c /\ y.got = run[r].got
      BY <3>3, <1>k DEF RunRecords
    <3>6. run[r].job = "pull" /\ Row(i) => local.content \subseteq remote.content \cup Saved
      <4> SUFFICES ASSUME run[r].job = "pull", Row(i)
                   PROVE  local.content \subseteq remote.content \cup Saved
        OBVIOUS
      <4>1. i # 0
        BY <1>k DEF Row, Shape, TypeOK, Ids
      <4>2. Row(run[r].id) /\ local.status # "none"
        BY <3>1, <4>1 DEF Row
      <4>3. CallsAlike(run[r].link)
        BY <3>4, <4>2 DEF Unneeded, Overwrites, CallsAlike
      <4>4. QED BY <2>1, <4>3, <1>k DEF KeepsEdits, ReplacesKept, Pulls, Trusted
    <3>7. KeepsEdits(y)
      BY <2>1, <3>5, <3>6
         DEF KeepsEdits, JobFits, ReplacesKept, RewritesKept, WroteKept, Pulls, Pushes
    <3>8. LocksHeld'
      BY <3>4, <3>5, <1>k, LocksKept DEF Working
    <3>9. y.seen \cup y.got \cup y.link.rev \subseteq made
      BY <3>2, <3>5, <1>i, <1>k
    <3>10. QED BY <2>1, <3>4, <3>5, <3>7, <3>8, <3>9, <1>u, MoveSurvives DEF Pulls
  <2>4. QED BY <2>2, <2>3
<1>3. QED BY <1>1, <1>2

(* The steps that change the item.                                         *)

\* What is taken from the item is saved before, if a link calls the row alike:
\* the row may be replaced on its word.
Rewrites ==
    /\ remote.state = "draft"
    /\ remote'.state = "gone" \/ (remote'.state = "draft" /\ remote'.key = remote.key + 1)
    /\ local'.id = local.id /\ local'.content = local.content /\ link' = link
    /\ local'.status = "none" <=> local.status = "none"
    /\ Saved \subseteq Saved'
    /\ SomeLinkCallsAlike' => SomeLinkCallsAlike
    /\ SomeLinkCallsAlike => remote.content \ remote'.content \subseteq Saved'

LEMMA RewriteKeeps ==
    ASSUME Kind, NEW q \in Runners, run'[q] = run[q], Rewrites,
           Working(run[q]) /\ Row(run[q].id) => remote.content \ remote'.content \subseteq Saved'
    PROVE  KeepsEdits(run[q])'
<1>k. Shape /\ TruthInv /\ Fit(run[q]) /\ Knows(run[q]) /\ KeepsEdits(run[q])
  BY KindMeans
<1>1. PICK s : s = run[q]
  OBVIOUS
<1>2. /\ run'[q] = s /\ KeepsEdits(s) /\ Fit(s) /\ Knows(s) /\ JobFits(s)
      /\ s.key \in Nat /\ s.link.key \in Nat /\ remote.key \in Nat
  BY <1>1, <1>k, Typing DEF KeepsEdits
<1>3. \A i : (Row(i)' <=> Row(i)) /\ Mine(i)' = Mine(i)
  BY DEF Rewrites, Row, Mine
<1>4. JobFits(run[q])'
  BY <1>2 DEF JobFits, Pushes
<1>5. ReplacesKept(run[q])'
  <2>1. ASSUME Pulls(s), CallsAlike(s.link)'
        PROVE  local'.content \subseteq remote'.content \cup Saved'
    <3>1. CallsAlike(s.link)
      BY <2>1 DEF CallsAlike, IsRevision, Rewrites
    <3>2. SomeLinkCallsAlike
      BY <1>1, <2>1, <3>1 DEF SomeLinkCallsAlike
    <3>3. local.content \subseteq remote.content \cup Saved
      BY <1>2, <2>1, <3>1 DEF KeepsEdits, ReplacesKept, Trusted
    <3>4. QED BY <3>2, <3>3 DEF Rewrites
  <2>2. ASSUME s.pc = "commit", s.job = "pull", Row(s.id), local.content = s.seen
        PROVE  local'.content \subseteq remote'.content \cup Saved'
    <3>1. remote.content \ remote'.content \subseteq Saved'
      BY <1>1, <2>2 DEF Working
    <3>2. local.content \subseteq remote.content \cup Saved
      BY <1>2, <2>2 DEF KeepsEdits, ReplacesKept
    <3>3. QED BY <3>1, <3>2 DEF Rewrites
  <2>3. s.pc = "drop" => Mine(s.id) \subseteq Saved'
    BY <1>2 DEF KeepsEdits, ReplacesKept, Rewrites
  <2>4. local'.content = local.content
    BY DEF Rewrites
  <2>5. QED BY <1>2, <1>3, <2>1, <2>2, <2>3, <2>4 DEF ReplacesKept, Pulls, Trusted
<1>6. RewritesKept(run[q])'
  <2>1. remote'.state = "draft" => s.key # remote'.key /\ s.link.key # remote'.key
    BY <1>2 DEF Knows, KeysAreOld, Rewrites
  <2>2. s.pc = "detach" => s.got \subseteq Mine(s.id) \cup Saved'
    BY <1>2 DEF KeepsEdits, RewritesKept, Rewrites
  <2>3. s.pc = "detach" /\ SomeLinkCallsAlike' => s.got \subseteq Saved'
    BY <1>2 DEF KeepsEdits, RewritesKept, Rewrites
  <2>4. remote'.state # "none"
    BY DEF Rewrites
  <2>5. QED BY <1>2, <1>3, <2>1, <2>2, <2>3, <2>4 DEF RewritesKept, Compared
<1>7. WroteKept(run[q])'
  <2> SUFFICES ASSUME Row(s.id) PROVE WroteKept(run[q])'
    BY <1>2, <1>3 DEF WroteKept
  <2>1. s.pc \in {"link", "detach", "attach", "confirm"} =>
           /\ Working(run[q])
           /\ s.seen \subseteq local.content \cup Saved
    BY <1>1, <1>2 DEF KeepsEdits, WroteKept, Rewrites, Working, Pushes, JobFits, Fit
  <2>2. s.pc \in {"link", "detach", "attach", "confirm"} =>
           remote.content \ remote'.content \subseteq Saved'
    BY <1>1, <2>1
  <2>3. s.pc \in {"link", "detach", "attach"} => Body(s.seen) \subseteq remote'.content \cup Saved'
    BY <1>2, <2>2 DEF KeepsEdits, WroteKept, Rewrites
  <2>4. s.pc = "confirm" => s.seen \subseteq remote'.content \cup Saved'
    BY <1>2, <2>2 DEF KeepsEdits, WroteKept, Rewrites
  <2>5. local'.content = local.content /\ Saved \subseteq Saved'
    BY DEF Rewrites
  <2>6. QED BY <1>2, <2>1, <2>3, <2>4, <2>5 DEF WroteKept, Body
<1>8. QED BY <1>4, <1>5, <1>6, <1>7 DEF KeepsEdits

LEMMA RewriteSurvives ==
    ASSUME Kind, Rewrites, LocksHeld', EditsSurvive',
           \A q \in Runners : KeepsEdits(run[q])',
           \A q \in Runners : run'[q].seen \cup run'[q].got \cup run'[q].link.rev \subseteq made',
           remote'.content \subseteq made', made \subseteq made',
           remote'.state = "gone" => remote'.content = {}
    PROVE  SurviveInv'
<1>k. Shape /\ TruthInv /\ SurviveInv /\ OnlyMade
  BY DEF Kind, Truth, Invariant, SurviveInv
<1>1. Trusted(link)'
  <2>1. CallsAlike(link)' => CallsAlike(link)
    BY DEF CallsAlike, IsRevision, Rewrites
  <2>2. CallsAlike(link) => remote.content \ remote'.content \subseteq Saved'
    BY DEF Rewrites, SomeLinkCallsAlike
  <2>3. CallsAlike(link) => local.content \subseteq remote.content \cup Saved
    BY <1>k DEF SurviveInv, Trusted
  <2>4. QED BY <2>1, <2>2, <2>3 DEF Trusted, Rewrites
<1>2. CurrentIsCovered'
  <2>1. link.key <= remote.key /\ link.key \in Nat /\ remote.key \in Nat
    BY <1>k, Typing DEF TruthInv, ItemInv
  <2>2. remote'.state = "draft" => link'.key # remote'.key
    BY <2>1 DEF Rewrites
  <2>3. QED BY <2>2 DEF CurrentIsCovered
<1>3. OnlyMade'
  BY <1>k DEF OnlyMade, Rewrites
<1>4. QED BY <1>1, <1>2, <1>3 DEF SurviveInv

\* One runner rewrites the item; it holds its lock, or everything is saved.
LEMMA RunnerRewrites ==
    ASSUME Kind, NEW r \in Runners, NEW y, run' = [run EXCEPT ![r] = y],
           Rewrites, LocksHeld', EditsSurvive', KeepsEdits(run[r])',
           y.seen \cup y.got \cup y.link.rev \subseteq made',
           remote'.content \subseteq made', made \subseteq made',
           remote'.state = "gone" => remote'.content = {},
           \/ Working(run[r]) /\ remote.content \ remote'.content
                                    \subseteq Mine(run[r].id) \cup Saved'
           \/ remote.content \ remote'.content \subseteq Saved'
    PROVE  SurviveInv'
<1>k. run \in [Runners -> RunRecords] /\ OnlyMade
  BY KindMeans
<1>1. run'[r] = y /\ \A q \in Runners : q # r => run'[q] = run[q]
  BY <1>k
<1>2. ASSUME NEW q \in Runners, q # r
      PROVE  KeepsEdits(run[q])'
  <2>1. Working(run[q]) /\ Row(run[q].id) => remote.content \ remote'.content \subseteq Saved'
    BY <1>2, NoneBeside DEF Kind
  <2>2. QED BY <1>1, <1>2, <2>1, RewriteKeeps
<1>3. \A q \in Runners : KeepsEdits(run[q])'
  BY <1>2
<1>4. \A q \in Runners : run'[q].seen \cup run'[q].got \cup run'[q].link.rev \subseteq made'
  BY <1>1, <1>k DEF OnlyMade
<1>5. QED BY <1>3, <1>4, RewriteSurvives

LEMMA UpdateSurvives ==
    ASSUME Kind, NEW r \in Runners, Update(r)
    PROVE  SurviveInv'
<1> USE DEF tables, history
<1>k. /\ Truth /\ Shape /\ TruthInv /\ SurviveInv /\ LocksHeld /\ OnlyMade
      /\ run \in [Runners -> RunRecords] /\ run[r] \in RunRecords
      /\ Fit(run[r]) /\ Knows(run[r]) /\ KeepsEdits(run[r]) /\ JobFits(run[r])
      /\ run[r].seen \cup run[r].got \cup run[r].link.rev \subseteq made
      /\ local.content \cup link.rev \cup remote.content \subseteq made
      /\ made \subseteq Kept \cup Saved
  BY KindMeans
<1>u. UNCHANGED <<link, made>> /\ run[r].pc = "update" /\ Pushes(run[r]) /\ Working(run[r])
  BY <1>k DEF Update, At, JobFits, Working
<1>1. CASE ~(remote.state = "draft" /\ remote.key = run[r].key)
  BY <1>1, <1>u, LeaveSafely DEF Update, Fail, Callable
<1>2. CASE remote.state = "draft" /\ remote.key = run[r].key
  <2>1. PICK old : old = remote.content
    OBVIOUS
  <2>2. PICK written : written = Body(run[r].seen) \cup FilesOf(old)
    OBVIOUS
  <2>3. PICK p : p = StepAfter(r, old)
    OBVIOUS
  <2>4. PICK y : y = [run[r] EXCEPT !.pc = p, !.key = remote.key + 1, !.got = FilesOf(old)]
    OBVIOUS
  <2>5. /\ run' = [run EXCEPT ![r] = y] /\ UNCHANGED <<local, active>>
        /\ remote' = [remote EXCEPT !.content = written, !.key = remote.key + 1]
        /\ settled' = IF Overwrites(r) THEN settled \cup old ELSE settled
        /\ exposed' = IF Breakable THEN exposed \cup old ELSE exposed
        /\ unseen' = IF \E s \in Runners : BetweenWrites(s)
                     THEN unseen \cup old \cup written ELSE unseen
    BY <1>2, <2>1, <2>2, <2>3, <2>4 DEF Update, NewKey
  <2>6. /\ p \in {"detach", "attach", "confirm"}
        /\ p = "confirm" => FilesOf(old) = {} /\ FilesOf(run[r].seen) = {}
    BY <2>3 DEF StepAfter
  <2>7. /\ y.pc = p /\ y.job = run[r].job /\ y.id = run[r].id
        /\ y.link = run[r].link /\ y.seen = run[r].seen /\ y.got = FilesOf(old)
    BY <2>4, <1>k DEF RunRecords
  <2>8. run'[r] = y /\ \A q \in Runners : q # r => run'[q] = run[q]
    BY <2>5, <1>k
  <2>9. /\ remote'.state = "draft" /\ remote'.key = remote.key + 1 /\ remote'.content = written
    BY <1>2, <2>5, <1>k DEF Shape, TypeOK
  <2>10. Saved \subseteq Saved' /\ (SomeLinkCallsAlike => old \subseteq Saved')
    <3>1. SomeLinkCallsAlike => Breakable
      BY DEF SomeLinkCallsAlike, Breakable, CallsAlike, Pulls, At
    <3>2. QED BY <2>5, <3>1 DEF Saved
  <2>11. /\ old \subseteq Mine(run[r].id) \cup Saved'
         /\ run[r].seen \subseteq Mine(run[r].id) \cup Kept \cup Saved
         /\ Row(run[r].id) => run[r].seen \subseteq local.content \cup Saved'
    <3>1. run[r].seen \subseteq Kept \cup Saved
      BY <1>k
    <3>2. CASE run[r].job = "keep"
      <4>1. old \subseteq Saved'
        BY <2>5, <3>2 DEF Overwrites, Saved
      <4>2. Row(run[r].id) => Kept = local.content \cup old
        BY <2>1 DEF Row, Kept
      <4>3. QED BY <2>10, <3>1, <4>1, <4>2
    <3>3. CASE run[r].job # "keep"
      <4>1. old \cup run[r].seen \subseteq Mine(run[r].id) \cup Saved
        BY <1>2, <1>u, <1>k, <2>1, <3>3 DEF KeepsEdits, RewritesKept, Compared
      <4>2. Row(run[r].id) => Mine(run[r].id) = local.content
        BY DEF Mine
      <4>3. QED BY <2>10, <3>1, <4>1, <4>2
    <3>4. QED BY <3>2, <3>3
  <2>12. SomeLinkCallsAlike' => SomeLinkCallsAlike
    <3>1. ~Pulls(run[r])'
      BY <2>6, <2>7, <2>8 DEF Pulls
    <3>2. QED BY <2>5, <2>8, <3>1, <1>u DEF SomeLinkCallsAlike, CallsAlike, IsRevision, Pulls
  <2>13. Rewrites
    BY <1>2, <1>u, <2>1, <2>5, <2>9, <2>10, <2>12 DEF Rewrites
  <2>14. LocksHeld'
    BY <2>5, <2>6, <2>7, <1>u, <1>k, LocksKept DEF Working, Pushes
  <2>15. written \subseteq made /\ y.seen \cup y.got \cup y.link.rev \subseteq made
    BY <2>1, <2>2, <2>7, <1>k DEF Body, FilesOf
  <2>16. EditsSurvive'
    <3>1. Mine(run[r].id) \subseteq (IF local.status = "none" THEN {} ELSE local.content)
      BY DEF Mine, Row
    <3>2. made \subseteq (IF local.status = "none" THEN {} ELSE local.content) \cup Saved'
      BY <2>1, <2>10, <2>11, <3>1, <1>k DEF Kept
    <3>3. QED BY <2>5, <3>2, <1>u DEF EditsSurvive, Kept, Saved
  <2>17. KeepsEdits(run[r])'
    <3>1. (Row(run[r].id)' <=> Row(run[r].id)) /\ Mine(run[r].id)' = Mine(run[r].id)
          /\ local' = local
      BY <2>5, <2>7, <2>8 DEF Row, Mine
    <3>2. JobFits(run[r])' /\ ReplacesKept(run[r])'
      BY <2>6, <2>7, <2>8, <1>u DEF JobFits, ReplacesKept, Pulls, Pushes
    <3>3. FilesOf(old) \subseteq old
      BY DEF FilesOf
    <3>4. RewritesKept(run[r])'
      BY <2>6, <2>7, <2>8, <2>9, <2>10, <2>11, <2>12, <3>1, <3>3 DEF RewritesKept
    <3>5. WroteKept(run[r])'
      <4>1. Body(run[r].seen) \subseteq written /\ (p = "confirm" => run[r].seen = Body(run[r].seen))
        BY <2>2, <2>6, BodyAndFiles
      <4>2. Body(run[r].seen)' = Body(run[r].seen)
        BY <2>7, <2>8 DEF Body
      <4>3. QED BY <2>6, <2>7, <2>8, <2>9, <2>11, <3>1, <4>1, <4>2 DEF WroteKept
    <3>6. QED BY <3>2, <3>4, <3>5 DEF KeepsEdits
  <2>18. remote.content \ remote'.content \subseteq Mine(run[r].id) \cup Saved'
    BY <2>1, <2>11
  <2>19. y.seen \cup y.got \cup y.link.rev \subseteq made' /\ remote'.content \subseteq made'
         /\ made \subseteq made' /\ remote'.state # "gone"
    BY <2>9, <2>15, <1>u
  <2>20. QED BY <2>5, <2>13, <2>14, <2>16, <2>17, <2>18, <2>19, <1>u, RunnerRewrites
<1>3. QED BY <1>1, <1>2

LEMMA DetachSurvives ==
    ASSUME Kind, NEW r \in Runners, Detach(r)
    PROVE  SurviveInv'
<1> USE DEF tables, history
<1>k. /\ Truth /\ Shape /\ TruthInv /\ SurviveInv /\ LocksHeld /\ OnlyMade
      /\ run \in [Runners -> RunRecords] /\ run[r] \in RunRecords
      /\ Fit(run[r]) /\ Knows(run[r]) /\ KeepsEdits(run[r]) /\ JobFits(run[r])
      /\ run[r].seen \cup run[r].got \cup run[r].link.rev \subseteq made
      /\ local.content \cup link.rev \cup remote.content \subseteq made
      /\ made \subseteq Kept \cup Saved
  BY KindMeans
<1>u. /\ UNCHANGED <<link, made, settled, unseen, exposed>> /\ run[r].pc = "detach"
      /\ Pushes(run[r]) /\ Working(run[r])
  BY <1>k DEF Detach, At, JobFits, Working
<1>1. CASE remote.state # "draft"
  BY <1>1, <1>u, LeaveSafely DEF Detach, Fail, Callable
<1>2. CASE remote.state = "draft"
  <2>1. PICK p \in {"attach", "confirm"} :
          p = IF FilesOf(run[r].seen) # {} THEN "attach" ELSE "confirm"
    OBVIOUS
  <2>2. StepAfter(r, {}) = p
    BY <2>1 DEF StepAfter, FilesOf
  <2>3. PICK y : y = [run[r] EXCEPT !.pc = p, !.key = remote.key + 1, !.got = {}]
    OBVIOUS
  <2>4. PICK left : left = remote.content \ run[r].got
    OBVIOUS
  <2>5. /\ run' = [run EXCEPT ![r] = y] /\ UNCHANGED <<local, active>>
        /\ remote' = [remote EXCEPT !.content = left, !.key = remote.key + 1]
    BY <1>2, <2>2, <2>3, <2>4 DEF Detach, NewKey
  <2>6. /\ y.pc = p /\ y.job = run[r].job /\ y.id = run[r].id
        /\ y.link = run[r].link /\ y.seen = run[r].seen /\ y.got = {}
    BY <2>3, <1>k DEF RunRecords
  <2>7. run'[r] = y /\ \A q \in Runners : q # r => run'[q] = run[q]
    BY <2>5, <1>k
  <2>8. /\ remote'.state = "draft" /\ remote'.key = remote.key + 1 /\ remote'.content = left
    BY <1>2, <2>5, <1>k DEF Shape, TypeOK
  <2>9. Saved' = Saved
    BY <1>u DEF Saved
  <2>10. /\ run[r].got \subseteq Files
         /\ run[r].got \subseteq Mine(run[r].id) \cup Saved
         /\ SomeLinkCallsAlike => run[r].got \subseteq Saved
         /\ Row(run[r].id) => /\ run[r].seen \subseteq local.content \cup Saved
                              /\ Body(run[r].seen) \subseteq remote.content \cup Saved
    BY <1>2, <1>u, <1>k DEF KeepsEdits, RewritesKept, WroteKept, Knows, TellsTruth
  <2>11. SomeLinkCallsAlike' => SomeLinkCallsAlike
    <3>1. ~Pulls(run[r])'
      BY <2>1, <2>6, <2>7 DEF Pulls
    <3>2. QED BY <2>5, <2>7, <3>1, <1>u DEF SomeLinkCallsAlike, CallsAlike, IsRevision, Pulls
  <2>12. remote.content \ left \subseteq run[r].got
    BY <2>4
  <2>13. Rewrites
    BY <1>2, <1>u, <2>5, <2>8, <2>9, <2>10, <2>11, <2>12 DEF Rewrites
  <2>14. LocksHeld'
    BY <2>1, <2>5, <2>6, <1>u, <1>k, LocksKept DEF Working, Pushes
  <2>15. left \subseteq made /\ y.seen \cup y.got \cup y.link.rev \subseteq made
    BY <2>4, <2>6, <1>k
  <2>16. EditsSurvive'
    <3>1. Mine(run[r].id) \subseteq (IF local.status = "none" THEN {} ELSE local.content)
      BY DEF Mine, Row
    <3>2. made \subseteq (IF local.status = "none" THEN {} ELSE local.content) \cup left \cup Saved
      BY <2>10, <2>12, <3>1, <1>k DEF Kept
    <3>3. QED BY <2>5, <2>8, <2>9, <3>2, <1>u DEF EditsSurvive, Kept, Saved
  <2>17. KeepsEdits(run[r])'
    <3>1. (Row(run[r].id)' <=> Row(run[r].id)) /\ local' = local
      BY <2>5, <2>6, <2>7 DEF Row
    <3>2. JobFits(run[r])' /\ ReplacesKept(run[r])' /\ RewritesKept(run[r])'
      BY <2>1, <2>6, <2>7, <2>8, <1>u DEF JobFits, ReplacesKept, RewritesKept, Pulls, Pushes
    <3>3. WroteKept(run[r])'
      <4>1. Row(run[r].id) => Body(run[r].seen) \subseteq left \cup Saved
        BY <2>4, <2>10 DEF Body
      <4>2. p = "confirm" => run[r].seen = Body(run[r].seen)
        BY <2>1, BodyAndFiles
      <4>3. Body(run[r].seen)' = Body(run[r].seen)
        BY <2>6, <2>7 DEF Body
      <4>4. QED BY <2>1, <2>6, <2>7, <2>8, <2>9, <2>10, <3>1, <4>1, <4>2, <4>3 DEF WroteKept
    <3>4. QED BY <3>2, <3>3 DEF KeepsEdits
  <2>18. remote.content \ remote'.content \subseteq Mine(run[r].id) \cup Saved'
    BY <2>8, <2>9, <2>10, <2>12
  <2>19. y.seen \cup y.got \cup y.link.rev \subseteq made' /\ remote'.content \subseteq made'
         /\ made \subseteq made' /\ remote'.state # "gone"
    BY <2>8, <2>15, <1>u
  <2>20. QED BY <2>5, <2>13, <2>14, <2>16, <2>17, <2>18, <2>19, <1>u, RunnerRewrites
<1>3. QED BY <1>1, <1>2

LEMMA AttachSurvives ==
    ASSUME Kind, NEW r \in Runners, Attach(r)
    PROVE  SurviveInv'
<1> USE DEF tables, history
<1>k. /\ Truth /\ Shape /\ TruthInv /\ SurviveInv /\ LocksHeld /\ OnlyMade
      /\ run \in [Runners -> RunRecords] /\ run[r] \in RunRecords
      /\ Fit(run[r]) /\ Knows(run[r]) /\ KeepsEdits(run[r]) /\ JobFits(run[r])
      /\ run[r].seen \cup run[r].got \cup run[r].link.rev \subseteq made
      /\ local.content \cup link.rev \cup remote.content \subseteq made
      /\ made \subseteq Kept \cup Saved
  BY KindMeans
<1>u. /\ UNCHANGED <<link, made, settled, exposed>> /\ run[r].pc = "attach"
      /\ Pushes(run[r]) /\ Working(run[r])
  BY <1>k DEF Attach, At, JobFits, Working
<1>1. CASE ~(remote.state = "draft" /\ remote.key = run[r].key)
  BY <1>1, <1>u, LeaveSafely DEF Attach, Fail, Callable
<1>2. CASE remote.state = "draft" /\ remote.key = run[r].key
  <2>1. PICK added : added = FilesOf(run[r].seen)
    OBVIOUS
  <2>2. PICK y : y = [run[r] EXCEPT !.pc = "confirm", !.key = remote.key + 1]
    OBVIOUS
  <2>3. PICK all : all = remote.content \cup added
    OBVIOUS
  <2>4. /\ run' = [run EXCEPT ![r] = y] /\ UNCHANGED <<local, active>>
        /\ remote' = [remote EXCEPT !.content = all, !.key = remote.key + 1]
        /\ unseen \subseteq unseen'
    BY <1>2, <2>1, <2>2, <2>3 DEF Attach, NewKey
  <2>5. /\ y.pc = "confirm" /\ y.job = run[r].job /\ y.id = run[r].id
        /\ y.link = run[r].link /\ y.seen = run[r].seen /\ y.got = run[r].got
    BY <2>2, <1>k DEF RunRecords
  <2>6. run'[r] = y /\ \A q \in Runners : q # r => run'[q] = run[q]
    BY <2>4, <1>k
  <2>7. /\ remote'.state = "draft" /\ remote'.key = remote.key + 1 /\ remote'.content = all
    BY <1>2, <2>4, <1>k DEF Shape, TypeOK
  <2>8. Saved \subseteq Saved' /\ remote.content \subseteq all
    BY <2>3, <2>4, <1>u DEF Saved
  <2>9. Row(run[r].id) => /\ run[r].seen \subseteq local.content \cup Saved
                          /\ Body(run[r].seen) \subseteq remote.content \cup Saved
    BY <1>2, <1>u, <1>k DEF KeepsEdits, WroteKept
  <2>10. SomeLinkCallsAlike' => SomeLinkCallsAlike
    <3>1. ~Pulls(run[r])'
      BY <2>5, <2>6 DEF Pulls
    <3>2. QED BY <2>4, <2>6, <3>1, <1>u DEF SomeLinkCallsAlike, CallsAlike, IsRevision, Pulls
  <2>11. Rewrites
    BY <1>2, <1>u, <2>4, <2>7, <2>8, <2>10 DEF Rewrites
  <2>12. LocksHeld'
    BY <2>4, <2>5, <1>u, <1>k, LocksKept DEF Working, Pushes
  <2>13. all \subseteq made /\ y.seen \cup y.got \cup y.link.rev \subseteq made
    BY <2>1, <2>3, <2>5, <1>k DEF FilesOf
  <2>14. EditsSurvive'
    BY <2>4, <2>7, <2>8, <1>u, <1>k DEF EditsSurvive, Kept, Saved
  <2>15. KeepsEdits(run[r])'
    <3>1. (Row(run[r].id)' <=> Row(run[r].id)) /\ local' = local
      BY <2>4, <2>5, <2>6 DEF Row
    <3>2. JobFits(run[r])' /\ ReplacesKept(run[r])' /\ RewritesKept(run[r])'
      BY <2>5, <2>6, <2>7, <1>u DEF JobFits, ReplacesKept, RewritesKept, Pulls, Pushes
    <3>3. Row(run[r].id) => run[r].seen \subseteq all \cup Saved
      BY <2>1, <2>3, <2>9, BodyAndFiles
    <3>4. WroteKept(run[r])'
      BY <2>5, <2>6, <2>7, <2>8, <2>9, <3>1, <3>3 DEF WroteKept
    <3>5. QED BY <3>2, <3>4 DEF KeepsEdits
  <2>16. remote.content \ remote'.content \subseteq Saved'
    BY <2>7, <2>8
  <2>17. y.seen \cup y.got \cup y.link.rev \subseteq made' /\ remote'.content \subseteq made'
         /\ made \subseteq made' /\ remote'.state # "gone"
    BY <2>7, <2>13, <1>u
  <2>18. QED BY <2>4, <2>11, <2>12, <2>14, <2>15, <2>16, <2>17, <1>u, RunnerRewrites
<1>3. QED BY <1>1, <1>2

LEMMA OutlookSurvives ==
    ASSUME Kind, NEW e \in Edits, EditInOutlook(e)
    PROVE  SurviveInv'
<1> USE DEF tables, history
<1>k. /\ Truth /\ Shape /\ SurviveInv /\ LocksHeld /\ OnlyMade /\ made \subseteq Kept \cup Saved
  BY DEF Kind, Truth, Invariant, SurviveInv, EditsSurvive, Saved
<1>1. PICK all : all = remote.content \cup {e}
  OBVIOUS
<1>2. /\ remote.state = "draft" /\ UNCHANGED <<local, link, active, run, settled, exposed>>
      /\ remote' = [remote EXCEPT !.content = all, !.key = remote.key + 1]
      /\ made' = made \cup {e} /\ unseen \subseteq unseen'
  BY <1>1 DEF EditInOutlook, NewKey
<1>3. remote'.state = "draft" /\ remote'.key = remote.key + 1 /\ remote'.content = all
  BY <1>2, <1>k DEF Shape, TypeOK
<1>4. Saved \subseteq Saved'
  BY <1>2 DEF Saved
<1>5. SomeLinkCallsAlike' => SomeLinkCallsAlike
  BY <1>2 DEF SomeLinkCallsAlike, CallsAlike, IsRevision, Pulls
<1>6. Rewrites
  BY <1>1, <1>2, <1>3, <1>4, <1>5 DEF Rewrites
<1>7. LocksHeld'
  BY <1>2, <1>k DEF LocksHeld, Working, Pushes
<1>8. EditsSurvive'
  BY <1>1, <1>2, <1>3, <1>4, <1>k DEF EditsSurvive, Kept, Saved
<1>9. ASSUME NEW q \in Runners
      PROVE  KeepsEdits(run[q])'
  BY <1>1, <1>2, <1>3, <1>6, RewriteKeeps
<1>10. \A q \in Runners : run'[q].seen \cup run'[q].got \cup run'[q].link.rev \subseteq made'
  BY <1>2, <1>k DEF OnlyMade
<1>11. remote'.content \subseteq made' /\ made \subseteq made' /\ remote'.state # "gone"
  BY <1>1, <1>2, <1>3, <1>k DEF OnlyMade
<1>12. \A q \in Runners : KeepsEdits(run[q])'
  BY <1>9
<1>13. QED BY <1>6, <1>7, <1>8, <1>10, <1>11, <1>12, RewriteSurvives

\* The item goes, and its content is given up or sent.
Gone ==
    /\ remote.state = "draft"
    /\ remote' = [remote EXCEPT !.state = "gone", !.content = {}]
    /\ settled' = settled \cup remote.content
    /\ UNCHANGED <<link, made, unseen, exposed>>
    /\ local'.id = local.id /\ local'.content = local.content
    /\ local'.status = "none" <=> local.status = "none"

LEMMA GoneRewrites ==
    ASSUME Kind, Gone, SomeLinkCallsAlike' => SomeLinkCallsAlike
    PROVE  /\ Rewrites /\ EditsSurvive' /\ remote'.state = "gone" /\ remote'.content = {}
           /\ remote.content \ remote'.content \subseteq Saved'
<1>k. Shape /\ made \subseteq Kept \cup Saved
  BY DEF Kind, Truth, Invariant, SurviveInv, EditsSurvive, Saved
<1>1. remote'.state = "gone" /\ remote'.content = {}
  BY <1>k DEF Gone, Shape, TypeOK
<1>2. Saved \subseteq Saved' /\ remote.content \subseteq Saved'
  BY DEF Gone, Saved
<1>3. Rewrites
  BY <1>1, <1>2 DEF Rewrites, Gone
<1>4. EditsSurvive'
  BY <1>1, <1>2, <1>k DEF EditsSurvive, Kept, Saved, Gone
<1>5. QED BY <1>1, <1>2, <1>3, <1>4

LEMMA LeaveDraftsSurvives ==
    ASSUME Kind, LeaveDrafts
    PROVE  SurviveInv'
<1> USE DEF tables, history
<1>k. /\ Truth /\ Shape /\ SurviveInv /\ LocksHeld /\ OnlyMade
  BY DEF Kind, Truth, Invariant, SurviveInv
<1>1. Gone /\ UNCHANGED <<local, link, active, run, made>>
  BY DEF LeaveDrafts, Gone
<1>2. SomeLinkCallsAlike' => SomeLinkCallsAlike
  BY <1>1 DEF SomeLinkCallsAlike, CallsAlike, IsRevision, Pulls
<1>3. /\ Rewrites /\ EditsSurvive' /\ remote'.state = "gone" /\ remote'.content = {}
      /\ remote.content \ remote'.content \subseteq Saved'
  BY <1>1, <1>2, GoneRewrites
<1>4. LocksHeld'
  BY <1>1, <1>k DEF LocksHeld, Working, Pushes
<1>5. ASSUME NEW q \in Runners
      PROVE  KeepsEdits(run[q])'
  BY <1>1, <1>3, RewriteKeeps
<1>6. \A q \in Runners : run'[q].seen \cup run'[q].got \cup run'[q].link.rev \subseteq made'
  BY <1>1, <1>k DEF OnlyMade
<1>7. remote'.content \subseteq made' /\ made \subseteq made'
  BY <1>1, <1>3
<1>8. \A q \in Runners : KeepsEdits(run[q])'
  BY <1>5
<1>9. QED BY <1>3, <1>4, <1>6, <1>7, <1>8, RewriteSurvives

LEMMA UnmakeSurvives ==
    ASSUME Kind, NEW r \in Runners, Unmake(r)
    PROVE  SurviveInv'
<1> USE DEF tables, history
<1>k. /\ Truth /\ Shape /\ TruthInv /\ SurviveInv /\ LocksHeld /\ OnlyMade
      /\ run \in [Runners -> RunRecords] /\ run[r] \in RunRecords /\ JobFits(run[r])
      /\ run[r].seen \cup run[r].got \cup run[r].link.rev \subseteq made
  BY KindMeans
<1>u. UNCHANGED <<link, made, unseen, exposed, active>> /\ run[r].pc = "unmake"
  BY DEF Unmake, At
<1>1. CASE ~(remote.state = "draft" /\ remote.key = run[r].link.key)
  BY <1>1, <1>u, LeaveSafely DEF Unmake
<1>2. CASE remote.state = "draft" /\ remote.key = run[r].link.key
  <2>1. PICK y : y = [run[r] EXCEPT !.pc = "forget", !.link = NoLink]
    OBVIOUS
  <2>2. run' = [run EXCEPT ![r] = y] /\ local' = local /\ Gone
    BY <1>2, <1>u, <2>1 DEF Unmake, Gone
  <2>3. /\ y.pc = "forget" /\ y.job = run[r].job /\ y.id = run[r].id
        /\ y.link = NoLink /\ y.seen = run[r].seen /\ y.got = run[r].got
    BY <2>1, <1>k DEF RunRecords
  <2>4. run'[r] = y /\ \A q \in Runners : q # r => run'[q] = run[q]
    BY <2>2, <1>k
  <2>5. SomeLinkCallsAlike' => SomeLinkCallsAlike
    <3>1. ~Pulls(run[r])'
      BY <2>3, <2>4 DEF Pulls
    <3>2. QED BY <2>2, <2>4, <3>1, <1>u DEF SomeLinkCallsAlike, CallsAlike, IsRevision, Pulls
  <2>6. /\ Rewrites /\ EditsSurvive' /\ remote'.state = "gone" /\ remote'.content = {}
        /\ remote.content \ remote'.content \subseteq Saved'
    BY <2>2, <2>5, GoneRewrites
  <2>7. LocksHeld'
    BY <2>2, <2>3, <1>u, <1>k, LocksKept DEF Working, Pushes
  <2>8. KeepsEdits(run[r])'
    BY <2>3, <2>4, <2>6, <1>u, <1>k
       DEF KeepsEdits, JobFits, ReplacesKept, RewritesKept, WroteKept, Pulls, Pushes
  <2>9. y.seen \cup y.got \cup y.link.rev \subseteq made'
    BY <2>3, <1>u, <1>k, IdleRests
  <2>10. remote'.content \subseteq made' /\ made \subseteq made'
    BY <2>6, <1>u
  <2>11. QED BY <2>2, <2>6, <2>7, <2>8, <2>9, <2>10, RunnerRewrites
<1>3. QED BY <1>1, <1>2

LEMMA SendSurvives ==
    ASSUME Kind, NEW r \in Runners, Send(r)
    PROVE  SurviveInv'
<1> USE DEF tables, history
<1>k. /\ Truth /\ Shape /\ TruthInv /\ SurviveInv /\ LocksHeld /\ OnlyMade
      /\ run \in [Runners -> RunRecords] /\ run[r] \in RunRecords /\ JobFits(run[r])
  BY KindMeans
<1>u. UNCHANGED <<link, made, unseen, exposed, active>> /\ run[r].pc = "send"
  BY DEF Send, At
<1>i. /\ Idle.pc = "idle" /\ Idle.job = "none" /\ Idle.seen = {} /\ Idle.got = {}
      /\ Idle.link = NoLink /\ Idle.id = 0 /\ NoLink.rev = {} /\ ~NoLink.sure
  BY IdleRests
<1>1. CASE ~(remote.state = "draft" /\ remote.key = run[r].key)
  BY <1>1, <1>u, LeaveSafely DEF Send
<1>2. CASE remote.state = "draft" /\ remote.key = run[r].key
  <2>1. PICK z : z = [Idle EXCEPT !.job = "send", !.pc = "finish", !.id = run[r].id]
    OBVIOUS
  <2>2. (run' = [run EXCEPT ![r] = z] /\ local' = local) \/ Leave(r)
    BY <1>2, <2>1 DEF Send
  <2>3. PICK y \in {z, Idle} : run' = [run EXCEPT ![r] = y]
    BY <2>2 DEF Leave
  <2>4. z.pc = "finish" /\ z.job = "send" /\ z.link = NoLink /\ z.seen = {} /\ z.got = {}
    BY <2>1 DEF Idle
  <2>5. y.pc \in {"finish", "idle"} /\ y.job \in {"send", "none"} /\ (y.pc = "idle" => y.job = "none")
        /\ y.link = NoLink /\ y.seen = {} /\ y.got = {}
    BY <2>4, <1>i
  <2>6. Gone
    <3>1. /\ local'.id = local.id /\ local'.content = local.content
          /\ local'.status = "none" <=> local.status = "none"
      BY <2>2, <1>k DEF Leave, Shape, TypeOK
    <3>2. QED BY <1>2, <1>u, <3>1 DEF Send, Gone
  <2>7. run'[r] = y /\ \A q \in Runners : q # r => run'[q] = run[q]
    BY <2>3, <1>k
  <2>8. SomeLinkCallsAlike' => SomeLinkCallsAlike
    <3>1. ~Pulls(run[r])'
      BY <2>5, <2>7 DEF Pulls
    <3>2. QED BY <2>6, <2>7, <3>1, <1>u
              DEF SomeLinkCallsAlike, CallsAlike, IsRevision, Pulls, Gone
  <2>9. /\ Rewrites /\ EditsSurvive' /\ remote'.state = "gone" /\ remote'.content = {}
        /\ remote.content \ remote'.content \subseteq Saved'
    BY <2>6, <2>8, GoneRewrites
  <2>10. LocksHeld'
    BY <2>3, <2>5, <1>u, <1>k, LocksKept DEF Working, Pushes
  <2>11. KeepsEdits(run[r])'
    BY <2>5, <2>7, <2>9
       DEF KeepsEdits, JobFits, ReplacesKept, RewritesKept, WroteKept, Pulls, Pushes
  <2>12. y.seen \cup y.got \cup y.link.rev \subseteq made'
    BY <2>5, <1>i
  <2>13. remote'.content \subseteq made' /\ made \subseteq made'
    BY <2>9, <1>u
  <2>14. QED BY <2>3, <2>9, <2>10, <2>11, <2>12, <2>13, RunnerRewrites
<1>3. QED BY <1>1, <1>2

\* Before there is an item nobody has replaced or rewritten anything.
LEMMA CreateSurvives ==
    ASSUME Kind, NEW r \in Runners, Create(r)
    PROVE  SurviveInv'
<1> USE DEF tables, history
<1>k. /\ Truth /\ Shape /\ TruthInv /\ SurviveInv /\ LocksHeld /\ OnlyMade
      /\ run \in [Runners -> RunRecords] /\ run[r] \in RunRecords
      /\ Fit(run[r]) /\ Knows(run[r]) /\ KeepsEdits(run[r]) /\ JobFits(run[r])
      /\ run[r].seen \cup run[r].got \cup run[r].link.rev \subseteq made
      /\ local.content \cup link.rev \cup remote.content \subseteq made
      /\ made \subseteq Kept \cup Saved
  BY KindMeans
<1>i. /\ Idle.seen = {} /\ Idle.got = {} /\ Idle.link = NoLink /\ NoLink.rev = {} /\ ~NoLink.sure
  BY IdleRests
<1>u. /\ UNCHANGED <<link, made, settled, unseen, exposed>> /\ run[r].pc = "create"
      /\ Pushes(run[r]) /\ Working(run[r]) /\ Callable(run[r])
  BY <1>k DEF Create, At, Fit, Pushes, Working, Callable
<1>1. remote.state = "none" /\ remote.content = {} /\ link = NoLink /\ ~link'.sure
  BY <1>i, <1>u, <1>k DEF Knows, NamesRow, TruthInv, ItemInv
<1>2. PICK body : body = Body(run[r].seen)
  OBVIOUS
<1>3. remote' = [state |-> "draft", key |-> 1, content |-> body, tag |-> run[r].id]
  BY <1>2 DEF Create
<1>4. remote'.state = "draft" /\ remote'.content = body
  BY <1>3
<1>5. PICK z : z = [run[r] EXCEPT !.pc = "link", !.key = 1]
  OBVIOUS
<1>6. /\ z.pc = "link" /\ z.job = run[r].job /\ z.id = run[r].id
      /\ z.link = run[r].link /\ z.seen = run[r].seen /\ z.got = run[r].got
  BY <1>5, <1>k DEF RunRecords
<1>7. (run' = [run EXCEPT ![r] = z] /\ UNCHANGED <<local, active>>) \/ Fail(r)
  BY <1>5 DEF Create
<1>8. /\ local'.id = local.id /\ local'.content = local.content
      /\ local'.status = "none" <=> local.status = "none"
  BY <1>7, <1>k DEF Fail, Leave, Shape, TypeOK
<1>9. Saved' = Saved /\ \A i : (Row(i)' <=> Row(i)) /\ Mine(i)' = Mine(i)
  BY <1>8, <1>u DEF Saved, Row, Mine
<1>10. \A q \in Runners : q # r => run'[q] = run[q]
  BY <1>7, <1>k DEF Fail, Leave
<1>11. LocksHeld'
  <2>1. CASE Fail(r)
    BY <2>1, <1>u, <1>k, FailLocks
  <2>2. CASE run' = [run EXCEPT ![r] = z] /\ UNCHANGED <<local, active>>
    <3>1. Working(z)
      BY <1>6, <1>u DEF Working, Pushes
    <3>2. QED BY <2>2, <3>1, <1>6, <1>u, <1>k, LocksKept
  <2>3. QED BY <2>1, <2>2, <1>7
<1>12. ASSUME NEW q \in Runners, q # r
       PROVE  KeepsEdits(run[q])'
  <2>1. PICK s : s = run[q]
    OBVIOUS
  <2>2. run'[q] = s /\ KeepsEdits(s) /\ JobFits(s) /\ Knows(s)
    BY <1>10, <1>12, <2>1, KindMeans
  <2>3. /\ s.pc \in {"idle", "lock", "read", "claim", "create", "recover", "load", "forget"}
        /\ ~Pulls(s)
    BY <1>1, <2>2 DEF Knows, KnowsNoItem, Pulls
  <2>4. JobFits(run[q])'
    BY <2>2 DEF JobFits, Pushes
  <2>5. ReplacesKept(run[q])' /\ RewritesKept(run[q])' /\ WroteKept(run[q])'
    BY <1>4, <2>2, <2>3 DEF ReplacesKept, RewritesKept, WroteKept, Pulls, Pushes
  <2>6. QED BY <2>4, <2>5 DEF KeepsEdits
<1>13. KeepsEdits(run[r])'
  <2>1. CASE Fail(r)
    BY <2>1, <1>k, IdleKeeps DEF Fail, Leave
  <2>2. CASE run' = [run EXCEPT ![r] = z] /\ UNCHANGED <<local, active>>
    <3>1. run'[r] = z
      BY <2>2, <1>k
    <3>2. JobFits(run[r])' /\ ReplacesKept(run[r])' /\ RewritesKept(run[r])'
      BY <1>4, <1>6, <3>1 DEF JobFits, ReplacesKept, RewritesKept, Pulls, Pushes
    <3>3. Row(run[r].id) => run[r].seen \subseteq local.content
      BY <1>1, <1>u, <1>k DEF KeepsEdits, RewritesKept
    <3>4. Body(run[r].seen)' = body
      BY <1>2, <1>6, <3>1 DEF Body
    <3>5. WroteKept(run[r])'
      BY <1>4, <1>6, <1>8, <1>9, <3>1, <3>3, <3>4 DEF WroteKept
    <3>6. QED BY <3>2, <3>5 DEF KeepsEdits
  <2>3. QED BY <2>1, <2>2, <1>7
<1>14. \A q \in Runners : KeepsEdits(run[q])'
  BY <1>12, <1>13
<1>15. OnlyMade'
  <2>1. run'[r].seen \cup run'[r].got \cup run'[r].link.rev \subseteq made
    BY <1>6, <1>7, <1>i, <1>k DEF Fail, Leave
  <2>2. body \subseteq made
    BY <1>2, <1>k DEF Body
  <2>3. QED BY <2>1, <2>2, <1>4, <1>8, <1>10, <1>u, <1>k DEF OnlyMade
<1>16. Trusted(link)' /\ CurrentIsCovered'
  BY <1>1 DEF Trusted, CallsAlike, IsRevision, CurrentIsCovered
<1>17. EditsSurvive'
  BY <1>1, <1>8, <1>u, <1>k DEF EditsSurvive, Kept, Saved
<1>18. QED BY <1>11, <1>14, <1>15, <1>16, <1>17 DEF SurviveInv

(* The steps that change the row.                                          *)

LEMMA EditSurvives ==
    ASSUME Kind, NEW e \in Edits, EditHere(e)
    PROVE  SurviveInv'
<1> USE DEF tables, history
<1>k. /\ Truth /\ Shape /\ SurviveInv /\ LocksHeld /\ OnlyMade /\ made \subseteq Kept \cup Saved
  BY DEF Kind, Truth, Invariant, SurviveInv, EditsSurvive, Saved
<1>1. PICK all : all = local.content \cup {e}
  OBVIOUS
<1>2. /\ e \notin made /\ made' = made \cup {e} /\ local.status # "none"
      /\ local' = [local EXCEPT !.content = all, !.status = "draft"]
      /\ UNCHANGED <<link, remote, active, run, settled, unseen>>
      /\ exposed \subseteq exposed' /\ \A q \in Runners : InGap(q) => e \in exposed'
  BY <1>1 DEF EditHere, Editable
<1>3. local'.id = local.id /\ local'.status = "draft" /\ local'.content = all
  BY <1>2, <1>k DEF Shape, TypeOK
<1>4. Saved \subseteq Saved' /\ \A i : (Row(i)' <=> Row(i)) /\ Mine(i) \subseteq Mine(i)'
                                      /\ Mine(i)' \subseteq Mine(i) \cup {e}
  BY <1>1, <1>2, <1>3 DEF Saved, Row, Mine
<1>5. ASSUME NEW l, l.rev \subseteq made
      PROVE  ~CallsAlike(l)'
  BY <1>1, <1>2, <1>3, <1>5 DEF CallsAlike, IsRevision
<1>6. /\ ~CallsAlike(link)' /\ link'.rev \subseteq made
      /\ \A q \in Runners : /\ ~CallsAlike(run[q].link)'
                            /\ run[q].seen \cup run[q].got \cup run[q].link.rev \subseteq made
  <2>1. /\ link'.rev \subseteq made
        /\ \A q \in Runners : run[q].seen \cup run[q].got \cup run[q].link.rev \subseteq made
    BY <1>2, <1>k DEF OnlyMade
  <2>2. ASSUME NEW q \in Runners
        PROVE  ~CallsAlike(run[q].link)'
    <3>1. PICK l : l = run[q].link
      OBVIOUS
    <3>2. l.rev \subseteq made
      BY <2>1, <3>1
    <3>3. ~CallsAlike(l)'
      BY <1>5, <3>2
    <3>4. QED BY <1>2, <3>1, <3>3 DEF CallsAlike, IsRevision
  <2>3. ~CallsAlike(link)'
    <3>1. PICK l : l = link
      OBVIOUS
    <3>2. l.rev \subseteq made
      BY <1>2, <2>1, <3>1
    <3>3. ~CallsAlike(l)'
      BY <1>5, <3>2
    <3>4. QED BY <1>2, <3>1, <3>3 DEF CallsAlike, IsRevision
  <2>4. QED BY <2>1, <2>2, <2>3
<1>7. ~SomeLinkCallsAlike'
  BY <1>6 DEF SomeLinkCallsAlike
<1>8. Trusted(link)' /\ CurrentIsCovered'
  BY <1>1, <1>2, <1>3, <1>4, <1>6, <1>k DEF Trusted, SurviveInv, CurrentIsCovered
<1>9. ASSUME NEW q \in Runners
      PROVE  KeepsEdits(run[q])'
  <2>1. PICK s : s = run[q]
    OBVIOUS
  <2>2. run'[q] = s /\ KeepsEdits(s)
    BY <1>2, <1>k, <2>1 DEF SurviveInv
  <2>3. JobFits(run[q])'
    BY <2>2 DEF KeepsEdits, JobFits, Pushes
  <2>4. ReplacesKept(run[q])'
    <3>1. ~Trusted(s.link)' => CallsAlike(run[q].link)'
      BY <2>2 DEF Trusted
    <3>2. local'.content # s.seen
      BY <1>1, <1>2, <1>3, <1>6, <2>1
    <3>3. s.pc = "drop" => Mine(s.id)' \subseteq Saved'
      <4>1. s.pc = "drop" => e \in exposed' /\ Mine(s.id) \subseteq Saved
        BY <1>2, <2>1, <2>2 DEF InGap, At, KeepsEdits, ReplacesKept
      <4>2. QED BY <1>4, <4>1 DEF Saved
    <3>4. QED BY <1>6, <2>2, <3>1, <3>2, <3>3 DEF ReplacesKept
  <2>5. RewritesKept(run[q])'
    <3>1. RewritesKept(s)
      BY <2>2 DEF KeepsEdits
    <3>2. remote.state = "none" /\ Pushes(s) /\ Row(s.id) => s.seen \subseteq local'.content
      BY <1>1, <1>3, <3>1 DEF RewritesKept
    <3>3. Compared(s) => Compared(run[q])'
      BY <1>2, <1>4, <2>2 DEF Compared
    <3>4. s.pc = "detach" /\ remote.state = "draft" => s.got \subseteq Mine(s.id)' \cup Saved'
      BY <1>4, <3>1 DEF RewritesKept
    <3>5. QED BY <1>2, <1>4, <1>7, <2>2, <3>1, <3>2, <3>3, <3>4 DEF RewritesKept, Pushes
  <2>6. WroteKept(run[q])'
    BY <1>1, <1>2, <1>3, <1>4, <2>2 DEF KeepsEdits, WroteKept, Body
  <2>7. QED BY <2>3, <2>4, <2>5, <2>6 DEF KeepsEdits
<1>10. LocksHeld'
  BY <1>2, <1>k DEF LocksHeld, Working, Pushes
<1>11. OnlyMade'
  BY <1>1, <1>2, <1>3, <1>k DEF OnlyMade
<1>12. EditsSurvive'
  BY <1>1, <1>2, <1>3, <1>4, <1>k DEF EditsSurvive, Kept, Saved
<1>13. QED BY <1>8, <1>9, <1>10, <1>11, <1>12 DEF SurviveInv

LEMMA CommitSurvives ==
    ASSUME Kind, NEW r \in Runners, Commit(r)
    PROVE  SurviveInv'
<1> USE DEF tables, history
<1>k. /\ Truth /\ Shape /\ TruthInv /\ SurviveInv /\ LocksHeld /\ OnlyMade
      /\ run \in [Runners -> RunRecords] /\ run[r] \in RunRecords
      /\ Fit(run[r]) /\ Knows(run[r]) /\ KeepsEdits(run[r]) /\ JobFits(run[r])
      /\ run[r].seen \cup run[r].got \cup run[r].link.rev \subseteq made
      /\ local.content \cup link.rev \cup remote.content \subseteq made
      /\ made \subseteq Kept \cup Saved
  BY KindMeans
<1>u. /\ UNCHANGED <<remote, made, unseen, exposed>> /\ run[r].pc = "commit"
      /\ run' = [run EXCEPT ![r] = Idle] /\ active' = active \ {run[r].id}
      /\ run[r].job \in {"pull", "reload"} /\ Working(run[r])
  BY <1>k DEF Commit, At, Unlock, Holds, JobFits, Working
<1>n. local.id \in Nat /\ run[r].id \in Nat
  BY <1>k, Typing
<1>1. CASE ~Unedited(r) /\ ~(run[r].id = 0 /\ local.status = "none")
  <2>1. Leave(r) /\ Fail(r) /\ Callable(run[r]) /\ UNCHANGED <<link, settled>>
    BY <1>1, <1>u DEF Commit, Leave, Fail, Callable
  <2>2. QED BY <2>1, <1>u, LeaveSafely
<1>2. CASE Unedited(r) \/ (run[r].id = 0 /\ local.status = "none")
  <2>1. /\ link' = LinkOf(run[r].key, run[r].got)
        /\ \/ /\ Row(run[r].id) /\ local.content = run[r].seen
              /\ local' = [local EXCEPT !.content = run[r].got]
              /\ settled' = IF run[r].job = "reload" THEN settled \cup local.content ELSE settled
           \/ /\ local.status = "none" /\ settled' = settled
              /\ local' = [id |-> local.id + 1, status |-> "draft", content |-> run[r].got]
    BY <1>2, <1>u DEF Commit, Unedited, Overwrites
  <2>2. /\ link'.key = run[r].key /\ link'.sure /\ link'.rev = run[r].got
        /\ local'.content = run[r].got /\ local'.status # "none"
    BY <2>1, <1>k DEF LinkOf, Shape, TypeOK, Row
  <2>3. Saved \subseteq Saved' /\ unseen \subseteq Saved'
    BY <2>1, <1>u DEF Saved
  <2>4. made \subseteq remote.content \cup Saved'
    <3>1. CASE Row(run[r].id) /\ local.content = run[r].seen
      <4>1. run[r].job = "pull" => local.content \subseteq remote.content \cup Saved
        BY <3>1, <1>u, <1>k DEF KeepsEdits, ReplacesKept
      <4>2. run[r].job = "reload" => local.content \subseteq Saved'
        BY <2>1, <3>1 DEF Saved, Row
      <4>3. QED BY <2>3, <4>1, <4>2, <1>u, <1>k DEF Kept
    <3>2. CASE local.status = "none"
      BY <2>3, <3>2, <1>k DEF Kept
    <3>3. QED BY <2>1, <3>1, <3>2
  <2>5. run'[r] = Idle /\ \A q \in Runners : q # r => run'[q] = run[q]
    BY <1>u, <1>k
  <2>6. LocksHeld'
    BY <1>u, <1>k, IdleRests, LocksKept
  <2>7. ASSUME NEW q \in Runners, q # r, Working(run[q])
        PROVE  Mine(run[q].id) = {} /\ ~Row(run[q].id)'
    <3>1. run[q].id <= local.id /\ run[q].id \in Nat
      BY <1>k, Typing, KindMeans DEF Knows, NamesRow
    <3>2. CASE Row(run[r].id) /\ local' = [local EXCEPT !.content = run[r].got]
      <4>1. run[q].id # run[r].id /\ local.id = run[r].id /\ local'.id = local.id
        BY <2>7, <3>2, <1>u, <1>k DEF LocksHeld, Row, Shape, TypeOK
      <4>2. QED BY <2>5, <2>7, <4>1 DEF Mine, Row
    <3>3. CASE /\ local.status = "none"
               /\ local' = [id |-> local.id + 1, status |-> "draft", content |-> run[r].got]
      <4>1. local'.id = local.id + 1 /\ local'.id # run[q].id
        BY <3>1, <3>3, <1>n
      <4>2. QED BY <2>5, <2>7, <3>3, <4>1 DEF Mine, Row
    <3>4. QED BY <2>1, <3>2, <3>3
  <2>8. remote.state # "none"
    BY <1>u, <1>k DEF Knows, KnowsNoItem
  <2>9. ASSUME NEW q \in Runners, q # r
        PROVE  KeepsEdits(run[q])'
    <3>1. PICK s : s = run[q]
      OBVIOUS
    <3>2. run'[q] = s /\ KeepsEdits(s) /\ JobFits(s) /\ Fit(s) /\ Knows(s)
      BY <2>5, <2>9, <3>1, KindMeans
    <3>3. JobFits(run[q])'
      BY <3>2 DEF JobFits, Pushes
    <3>4. ReplacesKept(run[q])'
      <4>1. local'.content \subseteq remote'.content \cup Saved'
        BY <2>2, <2>4, <1>u, <1>k
      <4>2. s.pc = "drop" => Mine(s.id)' \subseteq Saved'
        <5>1. s.pc = "drop" => remote.content = {}
          BY <3>2, <1>k DEF Knows, SendsConfirmed, OnlyMade
        <5>2. Mine(s.id)' \subseteq local'.content
          BY DEF Mine
        <5>3. QED BY <4>1, <5>1, <5>2, <1>u
      <4>3. QED BY <3>2, <4>1, <4>2 DEF ReplacesKept, Trusted
    <3>5. RewritesKept(run[q])'
      <4>1. s.pc \in {"fetch", "update", "detach"} => Mine(s.id) = {}
        BY <2>7, <2>9, <3>1, <3>2 DEF JobFits, Working
      <4>2. RewritesKept(s)
        BY <3>2 DEF KeepsEdits
      <4>3. s.pc = "detach" /\ remote.state = "draft" => s.got \subseteq Saved'
        BY <2>3, <4>1, <4>2 DEF RewritesKept
      <4>4. s.pc \in {"fetch", "update"} /\ Compared(s) => Compared(run[q])'
        BY <2>3, <3>2, <4>1, <1>u DEF Compared
      <4>5. QED BY <2>8, <3>2, <4>2, <4>3, <4>4, <1>u DEF RewritesKept
    <3>6. WroteKept(run[q])'
      <4>1. s.pc \in {"link", "detach", "attach", "confirm"} => ~Row(s.id)'
        BY <2>7, <2>9, <3>1, <3>2 DEF JobFits, Fit, Pushes, Working
      <4>2. QED BY <3>2, <4>1 DEF WroteKept
    <3>7. QED BY <3>3, <3>4, <3>5, <3>6 DEF KeepsEdits
  <2>10. KeepsEdits(run[r])'
    BY <2>5, IdleKeeps
  <2>11. \A q \in Runners : KeepsEdits(run[q])'
    BY <2>9, <2>10
  <2>12. OnlyMade'
    BY <2>2, <2>5, <1>u, <1>k, IdleRests DEF OnlyMade
  <2>13. Trusted(link)' /\ EditsSurvive'
    BY <2>2, <2>4, <1>u, <1>k DEF Trusted, EditsSurvive, Kept, Saved
  <2>14. CurrentIsCovered'
    <3>1. remote.state = "draft" /\ remote.key = run[r].key
             => remote.content \subseteq run[r].got \cup unseen
      BY <1>u, <1>k DEF Knows, TellsTruth, Alike
    <3>2. QED BY <2>2, <2>3, <3>1, <1>u DEF CurrentIsCovered
  <2>15. QED BY <2>6, <2>11, <2>12, <2>13, <2>14 DEF SurviveInv
<1>3. QED BY <1>1, <1>2

LEMMA DropSurvives ==
    ASSUME Kind, NEW r \in Runners, Drop(r)
    PROVE  SurviveInv'
<1> USE DEF tables, history
<1>k. /\ Truth /\ Shape /\ TruthInv /\ SurviveInv /\ LocksHeld /\ OnlyMade
      /\ run \in [Runners -> RunRecords] /\ run[r] \in RunRecords
      /\ Knows(run[r]) /\ KeepsEdits(run[r]) /\ JobFits(run[r])
      /\ local.content \cup link.rev \cup remote.content \subseteq made
      /\ made \subseteq Kept \cup Saved
  BY KindMeans
<1>u. /\ UNCHANGED <<remote, active, made, settled, unseen, exposed>> /\ run[r].pc = "drop"
      /\ run' = [run EXCEPT ![r] = Idle]
  BY DEF Drop, At
<1>i. NoLink.rev = {} /\ ~NoLink.sure
  BY IdleRests
<1>1. CASE ~Row(run[r].id)
  <2>1. Leave(r) /\ link' = link
    BY <1>1, <1>u, <1>k DEF Drop, Leave, JobFits, Pushes
  <2>2. QED BY <2>1, <1>u, LeaveSafely
<1>2. CASE Row(run[r].id)
  <2>1. remote.state = "gone" /\ remote.content = {} /\ Mine(run[r].id) \subseteq Saved
    BY <1>u, <1>k DEF Knows, SendsConfirmed, OnlyMade, KeepsEdits, ReplacesKept
  <2>2. made \subseteq Saved' /\ Saved' = Saved
    BY <1>2, <2>1, <1>u, <1>k DEF Kept, Mine, Saved
  <2>3. local'.content \subseteq made /\ link'.rev \subseteq made
    BY <1>2, <1>i, <1>k DEF Drop, Forget, NoRow, Body, Shape, TypeOK
  <2>4. run'[r] = Idle /\ \A q \in Runners : q # r => run'[q] = run[q]
    BY <1>u, <1>k
  <2>5. LocksHeld'
    BY <1>u, <1>k, IdleRests, LocksKept
  <2>6. ASSUME NEW q \in Runners, q # r
        PROVE  KeepsEdits(run[q])'
    <3>1. PICK s : s = run[q]
      OBVIOUS
    <3>2. run'[q] = s /\ JobFits(s) /\ s.seen \subseteq made
      BY <2>4, <2>6, <3>1, KindMeans
    <3>3. JobFits(run[q])' /\ remote'.state = "gone"
      BY <2>1, <3>2, <1>u DEF JobFits, Pushes
    <3>4. local'.content \subseteq Saved' /\ Mine(s.id)' \subseteq local'.content
      BY <2>2, <2>3 DEF Mine
    <3>5. ReplacesKept(run[q])'
      BY <3>2, <3>4 DEF ReplacesKept, Trusted
    <3>6. RewritesKept(run[q])' /\ WroteKept(run[q])'
      BY <2>2, <3>2, <3>3 DEF RewritesKept, Compared, WroteKept, Body
    <3>7. QED BY <3>3, <3>5, <3>6 DEF KeepsEdits
  <2>7. KeepsEdits(run[r])'
    BY <2>4, IdleKeeps
  <2>8. \A q \in Runners : KeepsEdits(run[q])'
    BY <2>6, <2>7
  <2>9. OnlyMade'
    BY <2>3, <2>4, <1>u, <1>k, IdleRests DEF OnlyMade
  <2>10. Trusted(link)' /\ CurrentIsCovered' /\ EditsSurvive'
    BY <2>1, <2>2, <2>3, <1>u DEF Trusted, CurrentIsCovered, EditsSurvive, Saved
  <2>11. QED BY <2>5, <2>8, <2>9, <2>10 DEF SurviveInv
<1>3. QED BY <1>1, <1>2

LEMMA DeleteSurvives ==
    ASSUME Kind, NEW r \in Runners, DeleteHere(r)
    PROVE  SurviveInv'
<1> USE DEF tables, history
<1>k. /\ Truth /\ Shape /\ TruthInv /\ SurviveInv /\ LocksHeld /\ OnlyMade
      /\ run \in [Runners -> RunRecords] /\ run[r] \in RunRecords /\ JobFits(run[r])
      /\ made \subseteq Kept \cup Saved
  BY KindMeans
<1>u. /\ UNCHANGED <<remote, active, made, unseen, exposed>> /\ run[r].pc = "forget"
      /\ run' = [run EXCEPT ![r] = Idle]
  BY DEF DeleteHere, At
<1>1. CASE ~(Row(run[r].id) /\ Editable)
  <2>1. Leave(r) /\ UNCHANGED <<link, settled>>
    BY <1>1, <1>u, <1>k DEF DeleteHere, Leave, JobFits, Pushes
  <2>2. QED BY <2>1, <1>u, LeaveSafely
<1>2. CASE Row(run[r].id) /\ Editable
  <2>1. /\ local'.status = "none" /\ local'.content = {} /\ ~link'.sure /\ link'.rev = {}
        /\ settled' = settled \cup local.content
    BY <1>2, IdleRests DEF DeleteHere, Forget, NoRow
  <2>2. Saved \subseteq Saved' /\ local.content \subseteq Saved'
    BY <2>1, <1>u DEF Saved
  <2>3. run'[r] = Idle /\ \A q \in Runners : q # r => run'[q] = run[q]
    BY <1>u, <1>k
  <2>4. LocksHeld'
    BY <1>u, <1>k, IdleRests, LocksKept
  <2>5. /\ \A i : ~Row(i)' /\ Mine(i)' = {} /\ Mine(i) \subseteq local.content
        /\ \A l : ~CallsAlike(l)'
    BY <2>1 DEF Row, Mine, CallsAlike
  <2>6. ASSUME NEW q \in Runners, q # r
        PROVE  KeepsEdits(run[q])'
    <3>1. PICK s : s = run[q]
      OBVIOUS
    <3>2. run'[q] = s /\ JobFits(s) /\ KeepsEdits(s)
      BY <2>3, <2>6, <3>1, KindMeans
    <3>3. JobFits(run[q])'
      BY <3>2 DEF JobFits, Pushes
    <3>4. ReplacesKept(run[q])' /\ WroteKept(run[q])'
      BY <2>5, <3>2 DEF ReplacesKept, Trusted, WroteKept
    <3>5. RewritesKept(run[q])'
      <4>1. RewritesKept(s)
        BY <3>2 DEF KeepsEdits
      <4>2. Compared(s) => Compared(run[q])'
        BY <2>2, <2>5, <3>2, <1>u DEF Compared
      <4>3. s.pc = "detach" /\ remote.state = "draft" => s.got \subseteq Saved'
        BY <2>2, <2>5, <4>1 DEF RewritesKept
      <4>4. QED BY <2>5, <3>2, <4>1, <4>2, <4>3, <1>u DEF RewritesKept
    <3>6. QED BY <3>3, <3>4, <3>5 DEF KeepsEdits
  <2>7. KeepsEdits(run[r])'
    BY <2>3, IdleKeeps
  <2>8. \A q \in Runners : KeepsEdits(run[q])'
    BY <2>6, <2>7
  <2>9. OnlyMade'
    BY <2>1, <2>3, <1>u, <1>k, IdleRests DEF OnlyMade
  <2>10. Trusted(link)' /\ CurrentIsCovered'
    BY <2>1 DEF Trusted, CallsAlike, CurrentIsCovered
  <2>11. EditsSurvive'
    BY <2>1, <2>2, <1>u, <1>k DEF EditsSurvive, Kept, Saved
  <2>12. QED BY <2>4, <2>8, <2>9, <2>10, <2>11 DEF SurviveInv
<1>3. QED BY <1>1, <1>2

LEMMA CrashSurvives ==
    ASSUME Kind, Crash
    PROVE  SurviveInv'
<1> USE DEF tables, history
<1>k. SurviveInv /\ OnlyMade
  BY DEF Kind, SurviveInv
<1>1. /\ UNCHANGED <<local, link, remote, made, settled, unseen, exposed>>
      /\ \A q \in Runners : run'[q] = Idle
  BY DEF Crash
<1>2. LocksHeld'
  BY <1>1, IdleRests DEF LocksHeld, Working, Pushes
<1>3. \A q \in Runners : KeepsEdits(run[q])'
  BY <1>1, IdleKeeps
<1>4. OnlyMade'
  BY <1>1, <1>k, IdleRests DEF OnlyMade
<1>5. Trusted(link)' /\ CurrentIsCovered' /\ EditsSurvive'
  BY <1>1, <1>k DEF SurviveInv, Trusted, CallsAlike, IsRevision, CurrentIsCovered, EditsSurvive,
                    Kept, Saved
<1>6. QED BY <1>2, <1>3, <1>4, <1>5 DEF SurviveInv

LEMMA NextSurvives == Kind /\ [Next]_vars => SurviveInv'
<1> SUFFICES ASSUME Kind, [Next]_vars PROVE SurviveInv'  OBVIOUS
<1>1. ASSUME NEW r \in Runners, Step(r)
      PROVE  SurviveInv'
  <2>1. CASE \/ AskPush(r) \/ KeepLocal(r) \/ ReadDraft(r)
             \/ AskPull(r) \/ KeepRemote(r) \/ AskDrop(r) \/ AskDelete(r)
    BY <2>1, AskStepsSurvive
  <2>2. CASE LockPush(r) \/ PushEndsEarly(r) \/ FetchRemote(r) \/ Refused(r) \/ CallFails(r)
    BY <2>2, LockStepsSurvive
  <2>3. CASE BeginSend(r) \/ Update(r) \/ Detach(r) \/ Attach(r) \/ Confirm(r)
    BY <2>3, BeginSendSurvives, UpdateSurvives, DetachSurvives, AttachSurvives,
       ConfirmSurvives
  <2>4. CASE Claim(r) \/ CreateRefused(r) \/ LoadRemote(r) \/ Finish(r)
    BY <2>4, QuietStepsSurvive
  <2>5. CASE Create(r) \/ LinkCreated(r) \/ Recover(r) \/ Send(r)
    BY <2>5, CreateSurvives, LinkCreatedSurvives, RecoverSurvives, SendSurvives
  <2>6. CASE Look(r) \/ LockPull(r) \/ Commit(r)
    BY <2>6, PullStepsSurvive, CommitSurvives
  <2>7. CASE Drop(r) \/ Unmake(r) \/ DeleteHere(r)
    BY <2>7, DropSurvives, UnmakeSurvives, DeleteSurvives
  <2>8. QED BY <1>1, <2>1, <2>2, <2>3, <2>4, <2>5, <2>6, <2>7 DEF Step
<1>2. CASE \E e \in Edits : EditHere(e) \/ EditInOutlook(e)
  BY <1>2, EditSurvives, OutlookSurvives
<1>3. CASE LeaveDrafts \/ Crash
  BY <1>3, LeaveDraftsSurvives, CrashSurvives
<1>4. CASE UNCHANGED vars
  <2>1. UNCHANGED <<local, link, remote, active, run, made, settled, unseen, exposed>>
    BY <1>4 DEF vars, tables, history
  <2>2. SameSides /\ (SomeLinkCallsAlike' => SomeLinkCallsAlike)
    BY <2>1 DEF SameSides, SomeLinkCallsAlike, CallsAlike, IsRevision, Pulls
  <2>3. \A q \in Runners : KeepsEdits(run[q])'
    BY <2>1, <2>2, QuietKeeps
  <2>4. LocksHeld' /\ OnlyMade'
    BY <2>1 DEF Kind, SurviveInv, LocksHeld, Working, Pushes, OnlyMade
  <2>5. Trusted(link)' /\ CurrentIsCovered' /\ EditsSurvive'
    BY <2>1 DEF Kind, SurviveInv, Trusted, CallsAlike, IsRevision, CurrentIsCovered,
                EditsSurvive, Kept, Saved
  <2>6. QED BY <2>3, <2>4, <2>5 DEF SurviveInv
<1>5. QED BY <1>1, <1>2, <1>3, <1>4 DEF Next

LEMMA KindHolds == Spec => []Kind
<1>1. Init => Kind
  BY InitInvariant, InitTruth, InitSurvives DEF Kind, Truth
<1>2. Kind /\ [Next]_vars => Kind'
  BY NextTruth, NextSurvives DEF Kind
<1>3. QED BY <1>1, <1>2, PTL DEF Spec

-----------------------------------------------------------------------------
(* The theorems.                                                           *)

LEMMA InvariantHolds == Spec => []Invariant
BY InitInvariant, NextInvariant, PTL DEF Spec

\* Row, link, item and runners keep their types, and a draft that is there has
\* an id: the tables mail_drafts and exchange_draft_links, and the locks.
THEOREM TypeCorrect == Spec => []TypeOK
<1>1. Invariant => TypeOK
  BY DEF Invariant, Shape
<1>2. QED BY <1>1, InvariantHolds, PTL

\* However many pushes of a draft run side by side, are broken off or repeated,
\* and whatever answers are lost, createExchangeDraft takes effect once for it
\* (exchange_draft_creates, docs/project-review-2026-09-09.md:11).
THEOREM CreatedOnceAlways == Spec => []CreatedOnce
<1>1. Invariant => CreatedOnce
  BY DEF Invariant, CreateInv
<1>2. QED BY <1>1, InvariantHolds, PTL

\* However pushes and pulls of the draft overlap, and whatever is lost on the
\* way, a link that names the key the item has was saved for the content the
\* item has, but for what came between the writes of a push: a push or a send
\* may skip the comparison on its word (knownAlike, exchange-draft-sync.ts).
THEOREM LinkAlwaysTellsTruth == Spec => []LinkTellsTruth
<1>1. Truth => LinkTellsTruth
  BY DEF Truth, TruthInv
<1>2. QED BY <1>1, TruthHolds, PTL

\* A draft is sent once, and what is sent is what its user confirmed, but for
\* what came between the writes of the push before it (sendExchangeSavedDraft
\* sends the copy in the mailbox, not the row).
THEOREM SentAlwaysConfirmed == Spec => []SentIsConfirmed
<1>1. Truth => SentIsConfirmed
  BY DEF Truth, TruthInv
<1>2. QED BY <1>1, TruthHolds, PTL

\* An edit made on either side stays in the row or in the item until its user
\* gives it up or sends it, for any number of edits and of overlapping pushes,
\* pulls and deletions; the exceptions are named in EditsSurvive (an item is
\* rewritten or a row replaced only after a comparison, exchange-draft-sync.ts).
THEOREM EditsAlwaysSurvive == Spec => []EditsSurvive
<1>1. Kind => EditsSurvive
  BY DEF Kind, SurviveInv
<1>2. QED BY <1>1, KindHolds, PTL
=============================================================================
