------------------------ MODULE BackupRestoreProofs ------------------------
(* The invariants of BackupRestore, proved for any number of edits, jobs,  *)
(* packages and connections and for every value of the bounds.             *)
EXTENDS BackupRestore, TLAPS

\* Rows of jobs belong to jobs that were asked for, listed packages to packages
\* that were made: in the database, and in every dump that may replace it.
Sound(d) ==
    /\ \A j \in Jobs : d.jobs[j] # "none" => asked[j] # Nothing
    /\ \A p \in d.listed : made[p] # Nothing

PackagesSound ==
    /\ Sound(db)
    /\ \A p \in disk \cup thrown : made[p] # Nothing
    /\ deleting # NoPackage => made[deleting] # Nothing
    /\ \A p \in Packages : made[p] # Nothing => Sound(made[p].dump)

Drafts == [dump : Databases, bundle : SUBSET Keys]

DraftSound ==
    /\ step \in {"export", "package"} => draft \in Drafts /\ Sound(draft.dump)
    /\ step = "record" => draft \in Packages /\ made[draft] # Nothing

HasTarget == {"close", "half", "open", "adopt", "keys"}

RunnerSound ==
    /\ running = NoJob <=> step = "idle"
    /\ running # NoJob => asked[running] # Nothing
    /\ step \in HasTarget \cup {"look", "stop", "extract"} => asked[running].kind = "restore"
    /\ step \in HasTarget => Target \in Packages /\ made[Target] # Nothing

Shape == TypeOK /\ PackagesSound /\ DraftSound /\ RunnerSound

-----------------------------------------------------------------------------
LEMMA EmptyShape ==
    /\ Empty \in Databases
    /\ Empty.data = {} /\ Empty.listed = {}
    /\ \A j \in Jobs : Empty.jobs[j] = "none"
BY DEF Empty, Databases, JobStates

LEMMA InitShape == Init => Shape
<1> SUFFICES ASSUME Init PROVE Shape  OBVIOUS
<1> USE BackupAssumption, NothingAssumption, EmptyShape
<1>1. TypeOK
  <2>1. /\ asked \in [Jobs -> Payloads \cup {Nothing}]
        /\ made \in [Packages -> Contents \cup {Nothing}]
    BY DEF Init
  <2>2. faults \in 0..MaxFaults /\ acts \in 0..MaxActs
    BY DEF Init
  <2>3. step \in Steps
    BY DEF Init, Steps
  <2>4. QED BY <2>1, <2>2, <2>3 DEF Init, TypeOK
<1>2. PackagesSound /\ DraftSound /\ RunnerSound
  BY DEF Init, PackagesSound, DraftSound, RunnerSound, Sound, HasTarget
<1>3. QED BY <1>1, <1>2 DEF Shape

LEMMA UsersShape ==
    ASSUME Shape, Users
    PROVE  Shape'
<1> USE BackupAssumption, NothingAssumption
    DEF Shape, memory, runner, removal, history, Act
<1>1. CASE \E e \in Edits : Edit(e)
  <2>1. TypeOK'
    BY <1>1 DEF Edit, TypeOK, Databases
  <2>2. PackagesSound' /\ DraftSound' /\ RunnerSound'
    BY <1>1 DEF Edit, TypeOK, PackagesSound, DraftSound, RunnerSound, Sound, Databases, Target
  <2>3. QED BY <2>1, <2>2
<1>2. CASE \E k \in Keys : Connect(k)
  <2>1. TypeOK'
    <3>1. PICK k \in Keys : Connect(k)  BY <1>2
    <3>2. db' \in Databases
      BY <3>1 DEF Connect, TypeOK, Databases
    <3>3. acts' \in 0..MaxActs
      BY <3>1 DEF Connect, TypeOK
    <3>4. QED BY <3>1, <3>2, <3>3 DEF Connect, TypeOK
  <2>2. PackagesSound' /\ DraftSound' /\ RunnerSound'
    BY <1>2 DEF Connect, TypeOK, PackagesSound, DraftSound, RunnerSound, Sound, Databases, Target
  <2>3. QED BY <2>1, <2>2
<1>3. CASE \E j \in Jobs, encrypted \in BOOLEAN : AskBackup(j, encrypted)
  <2>1. TypeOK'
    BY <1>3 DEF AskBackup, Enqueue, TypeOK, Databases, Payloads, JobStates
  <2>2. PackagesSound'
    BY <1>3 DEF AskBackup, Enqueue, TypeOK, PackagesSound, Sound, Databases, Payloads
  <2>3. DraftSound'
    BY <1>3 DEF AskBackup, Enqueue, TypeOK, DraftSound, Sound, Databases, Payloads
  <2>4. RunnerSound'
    BY <1>3 DEF AskBackup, Enqueue, TypeOK, RunnerSound, HasTarget, Target
  <2>5. QED BY <2>1, <2>2, <2>3, <2>4
<1>4. CASE \E j \in Jobs, p \in Packages : AskRestore(j, p)
  <2>1. TypeOK'
    BY <1>4 DEF AskRestore, Enqueue, TypeOK, PackagesSound, Sound, Databases, Payloads,
                Contents, JobStates
  <2>2. PackagesSound'
    BY <1>4 DEF AskRestore, Enqueue, TypeOK, PackagesSound, Sound, Databases, Payloads, Contents
  <2>3. DraftSound'
    BY <1>4 DEF AskRestore, Enqueue, TypeOK, DraftSound, PackagesSound, Sound, Databases,
                Payloads, Contents
  <2>4. RunnerSound'
    BY <1>4 DEF AskRestore, Enqueue, TypeOK, RunnerSound, HasTarget, Target
  <2>5. QED BY <2>1, <2>2, <2>3, <2>4
<1>5. CASE \E j \in Jobs : Retry(j)
  <2>1. TypeOK'
    BY <1>5 DEF Retry, TypeOK, Databases, JobStates
  <2>2. PackagesSound' /\ DraftSound' /\ RunnerSound'
    BY <1>5 DEF Retry, TypeOK, PackagesSound, DraftSound, RunnerSound, Sound, Databases, Target
  <2>3. QED BY <2>1, <2>2
<1>6. CASE \E p \in Packages : Upload(p)
  <2>1. PICK p \in Packages : Upload(p)  BY <1>6
  <2> DEFINE dump == [Empty EXCEPT !.keys = Keys, !.schema = "old"]
             content == [dump |-> dump, bundle |-> Keys, encrypted |-> FALSE,
                         kind |-> "upload"]
  <2>2. /\ dump \in Databases
        /\ dump.listed = {}
        /\ \A j \in Jobs : dump.jobs[j] = "none"
    BY DEF Empty, Databases, JobStates
  <2>3. content \in Contents
    BY <2>2 DEF Contents
  <2>4. made' = [made EXCEPT ![p] = content] /\ content # Nothing
    BY <2>1, <2>3 DEF Upload
  <2> HIDE DEF content
  <2>5. TypeOK'
    <3>1. db' \in Databases
      BY <2>1 DEF Upload, TypeOK, Databases
    <3>2. acts' \in 0..MaxActs
      BY <2>1 DEF Upload, TypeOK
    <3>3. made' \in [Packages -> Contents \cup {Nothing}]
      BY <2>3, <2>4 DEF TypeOK
    <3>4. disk' \subseteq Packages
      BY <2>1 DEF Upload, TypeOK
    <3>5. QED BY <2>1, <3>1, <3>2, <3>3, <3>4 DEF Upload, TypeOK
  <2>6. /\ made'[p] = content
        /\ \A q \in Packages : q # p => made'[q] = made[q]
        /\ made[p] = Nothing
    BY <2>1, <2>4 DEF TypeOK, Upload
  <2>7. content.dump = dump  BY DEF content
  <2> HIDE DEF dump
  <2>8. PackagesSound'
    <3>1. /\ db'.jobs = db.jobs /\ db'.listed = db.listed \cup {p}
          /\ asked' = asked /\ thrown' = thrown /\ deleting' = deleting
          /\ disk' = disk \cup {p}
      BY <2>1 DEF Upload, TypeOK, Databases
    <3>2. Sound(db)'
      BY <2>4, <2>6, <3>1 DEF PackagesSound, Sound, TypeOK, Databases
    <3>3. \A q \in Packages : made'[q] # Nothing => Sound(made[q].dump)'
      BY <2>2, <2>4, <2>6, <2>7, <3>1 DEF PackagesSound, Sound, TypeOK, Databases, Contents
    <3>4. QED BY <2>4, <2>6, <3>1, <3>2, <3>3 DEF PackagesSound, TypeOK
  <2>9. DraftSound'
    BY <2>1, <2>4, <2>6 DEF Upload, DraftSound, Sound, TypeOK, Drafts, Databases
  <2>10. RunnerSound'
    BY <2>1, <2>4, <2>6 DEF Upload, RunnerSound, TypeOK, Target
  <2>11. QED BY <2>5, <2>8, <2>9, <2>10
<1>7. CASE \E p \in Packages : DeleteLooks(p)
  BY <1>7 DEF DeleteLooks, TypeOK, PackagesSound, DraftSound, RunnerSound, Sound, Target
<1>8. QED BY <1>1, <1>2, <1>3, <1>4, <1>5, <1>6, <1>7 DEF Users

LEMMA RequestsShape ==
    ASSUME Shape, Requests
    PROVE  Shape'
<1> USE BackupAssumption, NothingAssumption
    DEF Shape, memory, runner, removal, history
<1>1. CASE \E j \in Jobs : GiveSecret(j)
  BY <1>1 DEF GiveSecret, TypeOK, PackagesSound, DraftSound, RunnerSound, Sound, Target
<1>2. CASE DeleteRemoves
  BY <1>2 DEF DeleteRemoves, TypeOK, PackagesSound, DraftSound, RunnerSound, Sound, Target
<1>3. CASE DeleteUnlists
  <2>1. TypeOK'
    BY <1>3 DEF DeleteUnlists, TypeOK, Databases
  <2>2. PackagesSound' /\ DraftSound' /\ RunnerSound'
    BY <1>3 DEF DeleteUnlists, TypeOK, PackagesSound, DraftSound, RunnerSound, Sound,
                Databases, Target
  <2>3. QED BY <2>1, <2>2
<1>4. CASE Visit
  <2>1. TypeOK'
    BY <1>4 DEF Visit, TypeOK, Databases
  <2>2. PackagesSound' /\ DraftSound' /\ RunnerSound'
    BY <1>4 DEF Visit, TypeOK, PackagesSound, DraftSound, RunnerSound, Sound,
                Databases, Target
  <2>3. QED BY <2>1, <2>2
<1>5. QED BY <1>1, <1>2, <1>3, <1>4 DEF Requests

LEMMA MakingShape ==
    ASSUME Shape, Making
    PROVE  Shape'
<1> USE BackupAssumption, NothingAssumption
    DEF Shape, memory, runner, removal, history, GoOn
<1>1. CASE \E j \in Jobs : Claim(j)
  <2>1. PICK j \in Jobs : Claim(j)  BY <1>1
  <2>2. asked[j] # Nothing /\ asked[j] \in Payloads
    BY <2>1 DEF Claim, TypeOK, PackagesSound, Sound
  <2>3. step' \in {"failed", "look", "dump"} /\ step' \in Steps
    BY <2>1 DEF Claim, Steps, MakingSteps, ReplacingSteps
  <2>4. step' = "look" => asked[j].kind = "restore"
    BY <2>1 DEF Claim
  <2>5. TypeOK'
    <3>1. db' \in Databases
      BY <2>1 DEF Claim, TypeOK, Databases, JobStates
    <3>2. QED BY <2>1, <2>3, <3>1 DEF Claim, TypeOK
  <2>6. PackagesSound'
    BY <2>1, <2>2 DEF Claim, TypeOK, PackagesSound, Sound, Databases
  <2>7. DraftSound' /\ RunnerSound'
    BY <2>1, <2>2, <2>3, <2>4 DEF Claim, TypeOK, DraftSound, RunnerSound, HasTarget
  <2>8. QED BY <2>5, <2>6, <2>7
<1>2. CASE DumpDatabase
  <2>1. draft' \in Drafts /\ draft'.dump = db
    BY <1>2 DEF DumpDatabase, TypeOK, Drafts
  <2>2. TypeOK'
    BY <1>2 DEF DumpDatabase, TypeOK, Steps, MakingSteps
  <2>3. PackagesSound' /\ DraftSound' /\ RunnerSound'
    BY <1>2, <2>1 DEF DumpDatabase, TypeOK, PackagesSound, DraftSound, RunnerSound, Sound,
                      HasTarget
  <2>4. QED BY <2>2, <2>3
<1>3. CASE Export
  <2>1. draft' \in Drafts /\ draft'.dump = draft.dump
    BY <1>3 DEF Export, TypeOK, DraftSound, Drafts, Databases
  <2>2. TypeOK'
    BY <1>3 DEF Export, TypeOK, Steps, MakingSteps
  <2>3. PackagesSound' /\ DraftSound' /\ RunnerSound'
    BY <1>3, <2>1 DEF Export, TypeOK, PackagesSound, DraftSound, RunnerSound, Sound,
                      HasTarget
  <2>4. QED BY <2>2, <2>3
<1>4. CASE \E p \in Packages : Package(p)
  <2>1. PICK p \in Packages : Package(p)  BY <1>4
  <2> DEFINE content ==
        [dump |-> draft.dump, bundle |-> draft.bundle,
         encrypted |-> ~Restoring /\ asked[running].encrypted,
         kind |-> IF Restoring THEN "safety" ELSE asked[running].kind]
  <2>2. draft \in Drafts /\ Sound(draft.dump) /\ step = "package"
    BY <2>1 DEF Package, DraftSound
  <2>3. asked[running] \in Payloads
    BY <2>2 DEF TypeOK, RunnerSound
  <2>4. content \in Contents
    <3>1. (~Restoring /\ asked[running].encrypted) \in BOOLEAN
      OBVIOUS
    <3>2. (IF Restoring THEN "safety" ELSE asked[running].kind)
             \in {"create", "automatic", "safety", "upload"}
      BY <2>2, <2>3 DEF Payloads, Restoring, RunnerSound
    <3>3. draft.dump \in Databases /\ draft.bundle \in SUBSET Keys
      BY <2>2 DEF Drafts
    <3>4. QED BY <3>1, <3>2, <3>3 DEF Contents
  <2>5. made' = [made EXCEPT ![p] = content] /\ content # Nothing
    BY <2>1, <2>4 DEF Package
  <2>6. content.dump = draft.dump  OBVIOUS
  <2> HIDE DEF content
  <2>7. /\ made'[p] = content
        /\ \A q \in Packages : q # p => made'[q] = made[q]
        /\ made[p] = Nothing
    BY <2>1, <2>5 DEF TypeOK, Package
  <2>8. TypeOK'
    <3>1. made' \in [Packages -> Contents \cup {Nothing}]
      BY <2>4, <2>5 DEF TypeOK
    <3>2. QED BY <2>1, <3>1 DEF Package, TypeOK, Steps, MakingSteps
  <2>9. PackagesSound'
    <3>1. Sound(db)'
      BY <2>1, <2>5, <2>7 DEF Package, PackagesSound, Sound, TypeOK, Databases
    <3>2. \A q \in Packages : made'[q] # Nothing => Sound(made[q].dump)'
      BY <2>1, <2>2, <2>5, <2>6, <2>7
      DEF Package, PackagesSound, Sound, TypeOK, Databases, Contents, Drafts
    <3>3. QED BY <2>1, <2>5, <2>7, <3>1, <3>2 DEF Package, PackagesSound, TypeOK
  <2>10. DraftSound' /\ RunnerSound'
    BY <2>1, <2>2, <2>5, <2>7 DEF Package, DraftSound, RunnerSound, HasTarget
  <2>11. QED BY <2>8, <2>9, <2>10
<1>5. CASE Record
  <2>1. draft \in Packages /\ made[draft] # Nothing
    BY <1>5 DEF Record, DraftSound
  <2>2. asked[running] \in Payloads
    BY <1>5 DEF Record, TypeOK, RunnerSound
  <2>3. /\ step' \in {"stop", "prune", "succeeded"} /\ step' \in Steps
        /\ step' = "stop" => asked[running].kind = "restore"
    BY <1>5 DEF Record, Restoring, Steps, MakingSteps
  <2>4. TypeOK'
    <3>1. db' \in Databases
      BY <1>5, <2>1 DEF Record, TypeOK, Databases
    <3>2. QED BY <1>5, <2>3, <3>1 DEF Record, TypeOK
  <2>5. PackagesSound'
    BY <1>5, <2>1 DEF Record, TypeOK, PackagesSound, Sound, Databases
  <2>6. DraftSound' /\ RunnerSound'
    BY <1>5, <2>3 DEF Record, TypeOK, DraftSound, RunnerSound, HasTarget
  <2>7. QED BY <2>4, <2>5, <2>6
<1>6. CASE \E kept \in SUBSET Packages : Prune(kept)
  <2>1. PICK kept \in SUBSET Packages : Prune(kept)  BY <1>6
  <2>2. PICK gone \in SUBSET Packages : /\ disk' = disk \ gone
                                        /\ db' = [db EXCEPT !.listed = @ \ gone]
    <3> DEFINE listed == {p \in db.listed : made[p].kind = "automatic"}
    <3>1. listed \ kept \in SUBSET Packages
      BY DEF TypeOK, Databases
    <3>2. QED BY <2>1, <3>1 DEF Prune
  <2>3. TypeOK'
    <3>1. db' \in Databases
      BY <2>2 DEF TypeOK, Databases
    <3>2. QED BY <2>1, <2>2, <3>1 DEF Prune, TypeOK, Steps
  <2>4. db'.jobs = db.jobs /\ db'.listed = db.listed \ gone
    BY <2>2 DEF TypeOK, Databases
  <2>5. PackagesSound'
    BY <2>1, <2>2, <2>4 DEF Prune, PackagesSound, Sound
  <2>6. DraftSound' /\ RunnerSound'
    BY <2>1 DEF Prune, DraftSound, RunnerSound, HasTarget
  <2>7. QED BY <2>3, <2>5, <2>6
<1>7. CASE \E status \in {"succeeded", "failed", "queued"} : Finish(status)
  <2>1. PICK status \in {"succeeded", "failed", "queued"} : Finish(status)  BY <1>7
  <2>2. running \in Jobs /\ asked[running] # Nothing
    BY <2>1 DEF Finish, TypeOK, RunnerSound
  <2>3. TypeOK'
    <3>1. db' \in Databases
      BY <2>1, <2>2 DEF Finish, TypeOK, Databases, JobStates
    <3>2. QED BY <2>1, <3>1 DEF Finish, TypeOK, Steps
  <2>4. PackagesSound'
    BY <2>1, <2>2 DEF Finish, TypeOK, PackagesSound, Sound, Databases
  <2>5. DraftSound' /\ RunnerSound'
    BY <2>1 DEF Finish, DraftSound, RunnerSound, HasTarget
  <2>6. QED BY <2>3, <2>4, <2>5
<1>8. QED BY <1>1, <1>2, <1>3, <1>4, <1>5, <1>6, <1>7 DEF Making

LEMMA RestoreShape ==
    ASSUME Shape, Restore
    PROVE  Shape'
<1> USE BackupAssumption, NothingAssumption
    DEF Shape, memory, runner, removal, history, GoOn
<1>1. CASE Look
  <2>1. TypeOK'
    BY <1>1 DEF Look, TypeOK, Steps, MakingSteps
  <2>2. PackagesSound' /\ DraftSound' /\ RunnerSound'
    BY <1>1 DEF Look, TypeOK, PackagesSound, DraftSound, RunnerSound, Sound, HasTarget
  <2>3. QED BY <2>1, <2>2
<1>2. CASE \E next \in {"extract", "close", "failed"} : Stop(next) \/ Extract(next)
  <2>1. PICK next \in {"extract", "close", "failed"} : Stop(next) \/ Extract(next)
    BY <1>2
  <2>2. TypeOK'
    BY <2>1 DEF Stop, Extract, TypeOK, Steps
  <2>3. PackagesSound'
    BY <2>1 DEF Stop, Extract, PackagesSound, Sound
  <2>4. DraftSound'
    BY <2>1 DEF Stop, Extract, DraftSound, Sound
  <2>5. RunnerSound'
    BY <2>1 DEF Stop, Extract, TypeOK, PackagesSound, RunnerSound, HasTarget, Target
  <2>6. QED BY <2>2, <2>3, <2>4, <2>5
<1>3. CASE Close
  <2>1. TypeOK'
    BY <1>3, EmptyShape DEF Close, TypeOK, Steps, ReplacingSteps
  <2>2. PackagesSound'
    BY <1>3, EmptyShape DEF Close, PackagesSound, Sound
  <2>3. DraftSound' /\ RunnerSound'
    BY <1>3 DEF Close, DraftSound, RunnerSound, HasTarget, Target
  <2>4. QED BY <2>1, <2>2, <2>3
<1>4. CASE Replace
  <2>1. Target \in Packages /\ made[Target] # Nothing
    BY <1>4 DEF Replace, RunnerSound, HasTarget
  <2>2. made[Target].dump \in Databases
    BY <2>1 DEF TypeOK, Contents
  <2>3. TypeOK'
    BY <1>4, <2>2 DEF Replace, TypeOK, Steps, ReplacingSteps
  <2>4. PackagesSound'
    BY <1>4, <2>1 DEF Replace, PackagesSound, Sound
  <2>5. DraftSound' /\ RunnerSound'
    BY <1>4 DEF Replace, DraftSound, RunnerSound, HasTarget, Target
  <2>6. QED BY <2>3, <2>4, <2>5
<1>5. CASE Open
  <2>1. TypeOK'
    BY <1>5 DEF Open, TypeOK, Databases, Steps, ReplacingSteps
  <2>2. PackagesSound'
    BY <1>5 DEF Open, TypeOK, PackagesSound, Sound, Databases
  <2>3. DraftSound' /\ RunnerSound'
    BY <1>5 DEF Open, DraftSound, RunnerSound, HasTarget, Target
  <2>4. QED BY <2>1, <2>2, <2>3
<1>6. CASE Adopt
  <2>1. TypeOK'
    BY <1>6 DEF Adopt, TypeOK, Steps
  <2>2. PackagesSound' /\ DraftSound' /\ RunnerSound'
    BY <1>6 DEF Adopt, PackagesSound, DraftSound, RunnerSound, Sound, HasTarget, Target
  <2>3. QED BY <2>1, <2>2
<1>7. CASE RestoreKeys
  <2>1. TypeOK'
    BY <1>7 DEF RestoreKeys, TypeOK, Databases, Steps
  <2>2. PackagesSound'
    BY <1>7 DEF RestoreKeys, TypeOK, PackagesSound, Sound, Databases
  <2>3. DraftSound' /\ RunnerSound'
    BY <1>7 DEF RestoreKeys, DraftSound, RunnerSound, HasTarget, Target
  <2>4. QED BY <2>1, <2>2, <2>3
<1>8. QED BY <1>1, <1>2, <1>3, <1>4, <1>5, <1>6, <1>7 DEF Restore

LEMMA NextShape ==
    ASSUME Shape, [Next]_vars
    PROVE  Shape'
<1> USE BackupAssumption, NothingAssumption
    DEF Shape, memory, runner, removal, history, GoOn
<1>1. CASE \E j \in Jobs : ScheduleBackup(j)
  <2>1. TypeOK'
    BY <1>1 DEF ScheduleBackup, Enqueue, TypeOK, Databases, Payloads, JobStates
  <2>2. PackagesSound'
    <3>1. PICK j \in Jobs : ScheduleBackup(j)  BY <1>1
    <3> DEFINE payload == [kind |-> "automatic", of |-> NoPackage, encrypted |-> FALSE]
    <3>2. payload # Nothing
      <4>1. payload \in Payloads  BY DEF Payloads
      <4>2. QED BY <4>1
    <3>3. asked' = [asked EXCEPT ![j] = payload]
      BY <3>1 DEF ScheduleBackup, Enqueue
    <3> HIDE DEF payload
    <3>4. \A i \in Jobs : asked[i] # Nothing => asked'[i] # Nothing
      BY <3>2, <3>3 DEF TypeOK
    <3>5. asked'[j] # Nothing
      BY <3>2, <3>3 DEF TypeOK
    <3>6. /\ \A i \in Jobs : i # j => db'.jobs[i] = db.jobs[i]
          /\ db'.listed = db.listed
      BY <3>1 DEF ScheduleBackup, Enqueue, TypeOK, Databases
    <3>7. QED BY <3>1, <3>4, <3>5, <3>6 DEF ScheduleBackup, PackagesSound, Sound
  <2>3. DraftSound' /\ RunnerSound'
    BY <1>1 DEF ScheduleBackup, Enqueue, DraftSound, RunnerSound, HasTarget
  <2>4. QED BY <2>1, <2>2, <2>3
<1>2. CASE ReplaceFails
  <2>1. TypeOK'
    BY <1>2 DEF ReplaceFails, TypeOK, Steps
  <2>2. PackagesSound' /\ DraftSound' /\ RunnerSound'
    BY <1>2 DEF ReplaceFails, ReplacingSteps, PackagesSound, DraftSound, RunnerSound, Sound,
                HasTarget
  <2>3. QED BY <2>1, <2>2
<1>3. CASE Crash
  <2>1. db' \in Databases
    BY <1>3 DEF Crash, TypeOK, Databases, JobStates
  <2>2. /\ db'.listed = db.listed
        /\ \A j \in Jobs : db'.jobs[j] # "none" => db.jobs[j] # "none"
    BY <1>3 DEF Crash, TypeOK, Databases
  <2>3. hurt' \in BOOLEAN
    BY <1>3 DEF Crash, TypeOK
  <2>4. TypeOK'
    <3>1. faults' \in 0..MaxFaults
      BY <1>3 DEF Crash, TypeOK
    <3>2. step' \in Steps
      BY <1>3 DEF Crash, Steps
    <3>3. QED BY <1>3, <2>1, <2>3, <3>1, <3>2 DEF Crash, TypeOK
  <2>5. PackagesSound' /\ DraftSound' /\ RunnerSound'
    BY <1>3, <2>2 DEF Crash, PackagesSound, DraftSound, RunnerSound, Sound, HasTarget
  <2>6. QED BY <2>4, <2>5
<1>4. CASE UNCHANGED vars
  BY <1>4 DEF vars, TypeOK, PackagesSound, DraftSound, RunnerSound, Sound, Target
<1>5. QED
  BY <1>1, <1>2, <1>3, <1>4, UsersShape, RequestsShape, MakingShape, RestoreShape DEF Next

LEMMA Shaped == Spec => []Shape
BY InitShape, NextShape, PTL DEF Spec

\* Whatever fails, crashes or is replaced, database and packages keep their shape.
THEOREM TypeCorrect == Spec => []TypeOK
<1>1. Shape => TypeOK
  BY DEF Shape
<1>2. QED BY <1>1, Shaped, PTL

-----------------------------------------------------------------------------
(* The login.                                                              *)

LoginKept ==
    /\ login \/ hurt \/ step \in ReplacingSteps
    /\ running = NoJob => step = "idle"

LEMMA NextLoginKept ==
    ASSUME LoginKept, Shape, [Next]_vars
    PROVE  LoginKept'
<1> USE BackupAssumption
    DEF LoginKept, Shape, RunnerSound, memory, runner, removal, history, GoOn, ReplacingSteps
<1>1. CASE Users
  BY <1>1 DEF Users, Edit, Connect, AskBackup, AskRestore, Retry, Upload, DeleteLooks
<1>2. CASE Requests
  BY <1>2 DEF Requests, GiveSecret, DeleteRemoves, DeleteUnlists, Visit
<1>3. CASE Making
  BY <1>3 DEF Making, Claim, DumpDatabase, Export, Package, Record, Prune, Finish
<1>4. CASE Restore
  BY <1>4 DEF Restore, Look, Stop, Extract, Close, Replace, Open, Adopt, RestoreKeys
<1>5. CASE \E j \in Jobs : ScheduleBackup(j)
  BY <1>5 DEF ScheduleBackup
<1>6. CASE ReplaceFails
  BY <1>6 DEF ReplaceFails
<1>7. CASE Crash
  BY <1>7 DEF Crash
<1>8. CASE UNCHANGED vars
  BY <1>8 DEF vars
<1>9. QED BY <1>1, <1>2, <1>3, <1>4, <1>5, <1>6, <1>7, <1>8 DEF Next

\* However restores, failures and crashes follow each other, somebody can log in
\* whenever no job runs, unless one was cut short between replacement and adoption.
THEOREM LoginAlwaysReturns == Spec => []LoginReturns
<1>1. Init => LoginKept
  BY DEF Init, LoginKept
<1>2. LoginKept => LoginReturns
  BY DEF LoginKept, LoginReturns, ReplacingSteps
<1>3. QED BY <1>1, <1>2, NextLoginKept, Shaped, PTL DEF Spec
-----------------------------------------------------------------------------
(* Nothing is lost.                                                        *)

\* In a package that pruning leaves alone.
Packaged(e) ==
    \E p \in Packages : /\ p \in disk \cup thrown /\ made[p] # Nothing
                       /\ made[p].kind # "automatic" /\ e \in made[p].dump.data

Precious == entered \ late

\* While a restore makes its safety backup, that backup holds what will be gone;
\* while it replaces the database nobody can enter anything.
Secured ==
    /\ \A e \in Precious : e \in db.data \/ Packaged(e)
    /\ Restoring /\ step \in {"export", "package"} =>
          \A e \in Precious : e \in draft.dump.data \/ Packaged(e)
    /\ Restoring /\ step \in {"record", "stop", "extract", "close"} =>
          \A e \in Precious : Packaged(e)
    /\ step \in ReplacingSteps => ~login /\ \A e \in Precious : Packaged(e)

\* What a package holds it holds for good, and only pruning takes it off the disk.
LEMMA PackagedStays ==
    ASSUME Shape, [Next]_vars, NEW e, Packaged(e)
    PROVE  Packaged(e)'
<1>1. PICK p \in Packages : /\ p \in disk \cup thrown /\ made[p] # Nothing
                            /\ made[p].kind # "automatic" /\ e \in made[p].dump.data
  BY DEF Packaged
<1> SUFFICES made'[p] = made[p] /\ p \in disk' \cup thrown'
  BY <1>1 DEF Packaged
<1> USE <1>1 DEF Shape, TypeOK, memory, runner, removal, history, GoOn
<1>2. CASE Users
  BY <1>2 DEF Users, Edit, Connect, AskBackup, AskRestore, Retry, Upload, DeleteLooks
<1>3. CASE Requests
  BY <1>3 DEF Requests, GiveSecret, DeleteRemoves, DeleteUnlists, Visit
<1>4. CASE Making
  BY <1>4 DEF Making, Claim, DumpDatabase, Export, Package, Record, Prune, Finish
<1>5. CASE Restore
  BY <1>5 DEF Restore, Look, Stop, Extract, Close, Replace, Open, Adopt, RestoreKeys
<1>6. CASE (\E j \in Jobs : ScheduleBackup(j)) \/ ReplaceFails \/ Crash \/ UNCHANGED vars
  BY <1>6 DEF ScheduleBackup, ReplaceFails, Crash, vars
<1>7. QED BY <1>2, <1>3, <1>4, <1>5, <1>6 DEF Next

LEMMA NextSecured ==
    ASSUME Secured, Shape, [Next]_vars
    PROVE  Secured'
<1> USE BackupAssumption DEF memory, runner, removal, history, GoOn
<1>1. \A e : Packaged(e) => Packaged(e)'
  BY PackagedStays
<1>2. CASE \E e \in Edits : Edit(e)
  <2>1. PICK e \in Edits : Edit(e)  BY <1>2
  <2>2. /\ db'.data = db.data \cup {e}
        /\ Precious' \subseteq Precious \cup {e}
        /\ Restoring /\ step \in AfterSafetyDump => Precious' \subseteq Precious
        /\ Restoring' <=> Restoring
        /\ step' = step /\ draft' = draft /\ login
    BY <2>1 DEF Edit, Shape, TypeOK, Databases, Precious, Restoring
  <2>3. QED BY <1>1, <2>2 DEF Secured, AfterSafetyDump, ReplacingSteps
<1>3. ASSUME Precious' = Precious, db'.data = db.data, draft' = draft, step' = step,
             Restoring' <=> Restoring, login' = login
      PROVE  Secured'
  BY <1>1, <1>3 DEF Secured
<1>4. CASE Users
  <2>1. CASE \E j \in Jobs, encrypted \in BOOLEAN : AskBackup(j, encrypted)
    BY <1>3, <2>1 DEF AskBackup, Enqueue, Shape, TypeOK, Databases, RunnerSound, Precious,
                      Restoring
  <2>2. CASE \E j \in Jobs, p \in Packages : AskRestore(j, p)
    BY <1>3, <2>2 DEF AskRestore, Enqueue, Shape, TypeOK, Databases, RunnerSound, Precious,
                      Restoring
  <2>3. CASE \E k \in Keys : Connect(k)
    BY <1>3, <2>3 DEF Connect, Shape, TypeOK, Databases, Precious, Restoring
  <2>4. CASE (\E j \in Jobs : Retry(j)) \/ \E p \in Packages : Upload(p) \/ DeleteLooks(p)
    BY <1>3, <2>4 DEF Retry, Upload, DeleteLooks, Shape, TypeOK, Databases, Precious, Restoring
  <2>5. QED BY <1>2, <1>4, <2>1, <2>2, <2>3, <2>4 DEF Users
<1>5. CASE Requests
  BY <1>3, <1>5
  DEF Requests, GiveSecret, DeleteRemoves, DeleteUnlists, Visit, Shape, TypeOK, Databases,
      Precious, Restoring
<1>6. CASE Making
  <2>1. CASE \E j \in Jobs : Claim(j)
    <3>1. db'.data = db.data /\ Precious' = Precious /\ step' \in {"failed", "look", "dump"}
      BY <2>1 DEF Claim, Shape, TypeOK, Databases, Precious
    <3>2. QED BY <1>1, <3>1 DEF Secured, ReplacingSteps
  <2>2. CASE DumpDatabase
    <3>1. /\ db' = db /\ draft'.dump = db /\ Precious' = Precious /\ step' = "export"
      BY <2>2 DEF DumpDatabase, Precious
    <3>2. QED BY <1>1, <3>1 DEF Secured, ReplacingSteps
  <2>3. CASE Export
    <3>1. /\ db' = db /\ draft'.dump = draft.dump /\ Precious' = Precious
          /\ step = "export" /\ step' \in {"package", "failed"} /\ Restoring' = Restoring
      BY <2>3 DEF Export, Precious, Restoring, Shape, DraftSound, Drafts
    <3>2. QED BY <1>1, <3>1 DEF Secured, ReplacingSteps
  <2>4. CASE \E p \in Packages : Package(p)
    <3>1. PICK p \in Packages : Package(p)  BY <2>4
    <3>2. /\ db' = db /\ Precious' = Precious
          /\ step = "package" /\ step' = "record" /\ Restoring' = Restoring
      BY <3>1 DEF Package, Precious, Restoring
    <3>3. ASSUME Restoring, NEW e, e \in draft.dump.data
          PROVE  Packaged(e)'
      <4>1. /\ p \in disk' /\ made'[p].kind = "safety" /\ made'[p].dump = draft.dump
        BY <3>1, <3>3 DEF Package, Shape, TypeOK
      <4>2. made'[p] # Nothing
        BY <3>1, NextShape DEF Package, Shape, DraftSound
      <4>3. QED BY <3>3, <4>1, <4>2 DEF Packaged
    <3>4. QED BY <1>1, <3>2, <3>3 DEF Secured, ReplacingSteps
  <2>5. CASE Record
    <3>1. /\ db'.data = db.data /\ Precious' = Precious
          /\ step = "record" /\ step' \in {"stop", "prune", "succeeded"}
          /\ Restoring' = Restoring
      BY <2>5 DEF Record, Precious, Restoring, Shape, TypeOK, Databases
    <3>2. QED BY <1>1, <3>1 DEF Secured, ReplacingSteps
  <2>6. CASE \E kept \in SUBSET Packages : Prune(kept)
    <3>1. db'.data = db.data /\ Precious' = Precious /\ step' = "succeeded"
      BY <2>6 DEF Prune, Precious, Shape, TypeOK, Databases
    <3>2. QED BY <1>1, <3>1 DEF Secured, ReplacingSteps
  <2>7. CASE \E status \in {"succeeded", "failed", "queued"} : Finish(status)
    <3>1. db'.data = db.data /\ Precious' = Precious /\ step' = "idle"
      BY <2>7 DEF Finish, Precious, Shape, TypeOK, Databases
    <3>2. QED BY <1>1, <3>1 DEF Secured, ReplacingSteps
  <2>8. QED BY <1>6, <2>1, <2>2, <2>3, <2>4, <2>5, <2>6, <2>7 DEF Making
<1>7. CASE Restore
  <2>1. CASE Look
    <3>1. db' = db /\ Precious' = Precious /\ step' \in {"dump", "failed"}
      BY <2>1 DEF Look, Precious
    <3>2. QED BY <1>1, <3>1 DEF Secured, ReplacingSteps
  <2>2. CASE \E next \in {"extract", "close", "failed"} : Stop(next) \/ Extract(next)
    <3>1. /\ db' = db /\ Precious' = Precious /\ step \in {"stop", "extract"}
          /\ step' \in {"extract", "close", "failed"} /\ Restoring' = Restoring
      BY <2>2 DEF Stop, Extract, Precious, Restoring
    <3>2. QED BY <1>1, <3>1 DEF Secured, ReplacingSteps
  <2>3. CASE Close
    <3>1. /\ Precious' = Precious /\ step = "close" /\ step' = "half" /\ login' = FALSE
      BY <2>3 DEF Close, Precious
    <3>2. Restoring
      BY <3>1 DEF Shape, RunnerSound, HasTarget, Restoring
    <3>3. QED BY <1>1, <3>1, <3>2 DEF Secured, ReplacingSteps
  <2>4. CASE Replace \/ Open
    <3>1. /\ Precious' = Precious /\ step \in ReplacingSteps /\ step' \in {"open", "adopt"}
          /\ login' = login
      BY <2>4 DEF Replace, Open, Precious, ReplacingSteps
    <3>2. QED BY <1>1, <3>1 DEF Secured
  <2>5. CASE Adopt \/ RestoreKeys
    <3>1. /\ db'.data = db.data /\ Precious' = Precious
          /\ step' \in {"keys", "succeeded", "failed"}
      BY <2>5 DEF Adopt, RestoreKeys, Precious, Shape, TypeOK, Databases
    <3>2. QED BY <1>1, <3>1 DEF Secured, ReplacingSteps
  <2>6. QED BY <1>7, <2>1, <2>2, <2>3, <2>4, <2>5 DEF Restore
<1>8. CASE \E j \in Jobs : ScheduleBackup(j)
  BY <1>3, <1>8 DEF ScheduleBackup, Enqueue, Shape, TypeOK, Databases, Precious, Restoring
<1>9. CASE ReplaceFails
  <2>1. db' = db /\ Precious' = Precious /\ step' = "failed"
    BY <1>9 DEF ReplaceFails, Precious
  <2>2. QED BY <1>1, <2>1 DEF Secured, ReplacingSteps
<1>10. CASE Crash
  <2>1. db'.data = db.data /\ Precious' = Precious /\ step' = "idle"
    BY <1>10 DEF Crash, Precious, Shape, TypeOK, Databases
  <2>2. QED BY <1>1, <2>1 DEF Secured, ReplacingSteps
<1>11. CASE UNCHANGED vars
  BY <1>3, <1>11 DEF vars, Precious, Restoring
<1>12. QED BY <1>4, <1>5, <1>6, <1>7, <1>8, <1>9, <1>10, <1>11 DEF Next

\* What a user entered stays in the database or in a package, through any number of
\* backups, restores, failures and crashes.
THEOREM NothingIsLost == Spec => []NothingLost
<1>1. Init => Secured
  BY DEF Init, Secured, Precious, ReplacingSteps, Restoring
<1>2. Secured => NothingLost
  BY DEF Secured, NothingLost, Packaged, Precious
<1>3. QED BY <1>1, <1>2, NextSecured, Shaped, PTL DEF Spec
-----------------------------------------------------------------------------
(* What is restored is the package.                                        *)

\* The target of a restore exists until the restore has ended, and pruning is no
\* part of a restore; then both sides that RestoredIsBackup compares stay put.
TargetKept ==
    /\ step = "prune" => ~Restoring
    /\ step = "succeeded" /\ Restoring => Target \in Packages /\ made[Target] # Nothing

Faithful == TargetKept /\ RestoredIsBackup

LEMMA NextFaithful ==
    ASSUME Faithful, Secured, Shape, [Next]_vars
    PROVE  Faithful'
<1> USE BackupAssumption DEF memory, runner, removal, history, GoOn
<1>1. step \in ReplacingSteps => ~login
  BY DEF Secured
<1>2. ASSUME step' \notin {"open", "adopt", "succeeded", "prune"}
      PROVE  Faithful'
  BY <1>2 DEF Faithful, TargetKept, RestoredIsBackup
<1>3. ASSUME step' = step, running' = running,
             running # NoJob => asked'[running] = asked[running],
             \A p \in Packages : made[p] # Nothing => made'[p] = made[p],
             step \in ReplacingSteps =>
                db'.data = db.data /\ db'.keys = db.keys /\ db'.jobs = db.jobs,
             db'.keys \ db'.sealed \subseteq db.keys \ db.sealed
      PROVE  Faithful'
  <2>1. Restoring' <=> Restoring
    BY <1>3 DEF Restoring
  <2>2. step # "idle" => Target' = Target
    BY <1>3 DEF Target, Shape, RunnerSound
  <2>3. TargetKept'
    BY <1>3, <2>1, <2>2 DEF Faithful, TargetKept
  <2>4. ASSUME step \in {"open", "adopt"}
        PROVE  /\ made'[Target'] = made[Target]
               /\ db'.data = db.data /\ db'.keys = db.keys /\ db'.jobs = db.jobs
    BY <1>3, <2>2, <2>4 DEF Shape, RunnerSound, HasTarget, ReplacingSteps
  <2>5. ASSUME step = "succeeded", Restoring
        PROVE  made'[Target'] = made[Target]
    BY <1>3, <2>2, <2>5 DEF Faithful, TargetKept
  <2>6. QED BY <1>3, <2>1, <2>3, <2>4, <2>5 DEF Faithful, RestoredIsBackup
<1>4. CASE Users
  <2>1. \A p \in Packages : made[p] # Nothing => made'[p] = made[p]
    BY <1>4
    DEF Users, Edit, Connect, AskBackup, AskRestore, Retry, Upload, DeleteLooks, Shape, TypeOK
  <2>2. login /\ step' = step /\ running' = running
    BY <1>4 DEF Users, Edit, Connect, AskBackup, AskRestore, Retry, Upload, DeleteLooks
  <2>3. running # NoJob => asked'[running] = asked[running]
    BY <1>4
    DEF Users, Edit, Connect, AskBackup, AskRestore, Retry, Upload, DeleteLooks, Enqueue,
        Shape, TypeOK, RunnerSound
  <2>4. db'.keys \ db'.sealed \subseteq db.keys \ db.sealed
    <3>1. CASE \E k \in Keys : Connect(k)
      BY <3>1 DEF Connect, Shape, TypeOK, Databases
    <3>2. CASE ~\E k \in Keys : Connect(k)
      <4>1. db'.keys = db.keys /\ db'.sealed = db.sealed
        BY <1>4, <3>2
        DEF Users, Edit, AskBackup, AskRestore, Retry, Upload, DeleteLooks, Enqueue,
            Shape, TypeOK, Databases
      <4>2. QED BY <4>1
    <3>3. QED BY <3>1, <3>2
  <2>5. QED BY <1>1, <1>3, <2>1, <2>2, <2>3, <2>4
<1>5. CASE Requests
  <2>1. db'.data = db.data /\ db'.keys = db.keys /\ db'.jobs = db.jobs /\ db'.sealed = db.sealed
    BY <1>5 DEF Requests, GiveSecret, DeleteRemoves, DeleteUnlists, Visit, Shape, TypeOK, Databases
  <2>2. asked' = asked /\ made' = made /\ step' = step /\ running' = running
    BY <1>5 DEF Requests, GiveSecret, DeleteRemoves, DeleteUnlists, Visit
  <2>3. QED BY <1>3, <2>1, <2>2
<1>6. CASE Making
  <2>1. CASE (\E j \in Jobs : Claim(j)) \/ DumpDatabase \/ Export
             \/ (\E p \in Packages : Package(p))
    BY <1>2, <2>1 DEF Claim, DumpDatabase, Export, Package
  <2>2. CASE Record
    <3>1. asked[running] # Nothing /\ running # NoJob
      BY <2>2 DEF Record, Shape, RunnerSound
    <3>2. /\ Restoring' <=> Restoring
          /\ step' # "open" /\ step' # "adopt"
          /\ step' \in {"prune", "succeeded"} => ~Restoring
      BY <2>2, <3>1 DEF Record, Restoring
    <3>3. QED BY <3>2 DEF Faithful, TargetKept, RestoredIsBackup
  <2>3. CASE \E kept \in SUBSET Packages : Prune(kept)
    <3>1. ~Restoring' /\ step' = "succeeded"
      BY <2>3 DEF Prune, Faithful, TargetKept, Restoring
    <3>2. QED BY <3>1 DEF Faithful, TargetKept, RestoredIsBackup
  <2>4. CASE \E status \in {"succeeded", "failed", "queued"} : Finish(status)
    BY <1>2, <2>4 DEF Finish
  <2>5. QED BY <1>6, <2>1, <2>2, <2>3, <2>4 DEF Making
<1>7. CASE Restore
  <2>1. CASE Look \/ Close \/ Adopt
             \/ \E next \in {"extract", "close", "failed"} : Stop(next) \/ Extract(next)
    BY <1>2, <2>1 DEF Look, Stop, Extract, Close, Adopt
  <2>2. CASE Replace
    <3>1. /\ step' = "open" /\ Target' = Target /\ made' = made
          /\ db' = made[Target].dump
      BY <2>2 DEF Replace, Target
    <3>2. QED BY <3>1 DEF Faithful, TargetKept, RestoredIsBackup
  <2>3. CASE Open
    <3>1. /\ step = "open" /\ step' = "adopt" /\ Target' = Target /\ made' = made
          /\ db'.data = db.data /\ db'.keys = db.keys /\ db'.jobs = db.jobs
      BY <2>3 DEF Open, Target, Shape, TypeOK, Databases
    <3>2. QED BY <3>1 DEF Faithful, TargetKept, RestoredIsBackup
  <2>4. CASE RestoreKeys
    <3>1. /\ step = "keys" /\ step' \in {"succeeded", "failed"}
          /\ Target' = Target /\ made' = made /\ db'.keys = db.keys
          /\ db'.sealed = db.sealed \cup (made[Target].bundle \cap db.keys)
      BY <2>4 DEF RestoreKeys, Target, Shape, TypeOK, Databases
    <3>2. Target \in Packages /\ made[Target] # Nothing
      BY <3>1 DEF Shape, RunnerSound, HasTarget
    <3>3. TargetKept' /\ RestoredIsBackup'
      BY <3>1, <3>2 DEF TargetKept, RestoredIsBackup
    <3>4. QED BY <3>3 DEF Faithful
  <2>5. QED BY <1>7, <2>1, <2>2, <2>3, <2>4 DEF Restore
<1>8. CASE (\E j \in Jobs : ScheduleBackup(j)) \/ ReplaceFails \/ Crash
  BY <1>2, <1>8 DEF ScheduleBackup, ReplaceFails, Crash, Shape, RunnerSound
<1>9. CASE UNCHANGED vars
  BY <1>3, <1>9 DEF vars
<1>10. QED BY <1>4, <1>5, <1>6, <1>7, <1>8, <1>9 DEF Next

\* Until the requester can log in again the database is the package's, and after a
\* successful restore this server can read every credential that has an account.
THEOREM RestoredIsTheBackup == Spec => []RestoredIsBackup
<1>1. Init => Faithful
  BY BackupAssumption DEF Init, Faithful, TargetKept, RestoredIsBackup
<1>2. Init => Secured
  BY DEF Init, Secured, Precious, ReplacingSteps, Restoring
<1>3. Faithful => RestoredIsBackup
  BY DEF Faithful
<1>4. QED BY <1>1, <1>2, <1>3, NextFaithful, NextSecured, Shaped, PTL DEF Spec
=============================================================================
