--------------------------- MODULE BackupRestore ---------------------------
(***************************************************************************)
(* Backups of the workspace and their restoring (backup-service.ts).       *)
(*                                                                         *)
(* A job of kind backup.create dumps the database, adds the credentials in *)
(* a form that another server can read, and lists the package.  A job of   *)
(* kind backup.restore makes a safety backup, replaces the database by the *)
(* dump of a package while the pages go on asking, puts the login of its   *)
(* requester back and encrypts the credentials anew.  The job runner runs  *)
(* one job at a time; the rows of its jobs, and the list of the packages,  *)
(* are in the database it replaces.  An action is what runs between two    *)
(* awaits.  The attempts of jobs are left to JobQueue, the time limits of  *)
(* the schedulers to SyncScheduler.                                        *)
(***************************************************************************)
EXTENDS Integers, FiniteSets

CONSTANTS
    Edits,      \* what users enter
    Keys,       \* connections with credentials
    Jobs,
    Packages,
    NoJob, NoPackage, Nothing,
    Retention,  \* automatic packages that are kept
    MaxFaults,  \* crashes, and replacements that fail half way
    MaxActs     \* uploads, deletions, retries and changes of connections

ASSUME BackupAssumption ==
    /\ NoJob \notin Jobs
    /\ NoPackage \notin Packages
    /\ Nothing \notin Packages
    /\ Retention \in Nat \ {0}
    /\ MaxFaults \in Nat /\ MaxActs \in Nat

VARIABLES
    db,         \* the database, save for app_login_credentials
    login,      \* app_login_credentials has the row of the administrator
    migrated,   \* kalenderDatabaseMigrations is set
    asked,      \* the payload of each job
    owed,       \* jobs whose request has yet to call setJobSecret
    secrets,    \* qgwJobSecrets
    made,       \* what is in each package
    disk,       \* the packages in the backup directory
    running,    \* the job of the runner
    step,       \* how far it is
    draft,      \* the dump and the bundle of the package being made
    deleting,   \* the package an administrator deletes, looked up or removed
    removed,    \* its file is removed
    entered,    \* history: edits that were accepted
    late,       \* history: those accepted after a safety backup's dump
    thrown,     \* history: packages an administrator deleted
    wished,     \* history: restores that were confirmed and have not run
    faults, acts,
    hurt        \* history: a replacement was cut short before the adoption

memory == <<migrated, owed, secrets>>
runner == <<running, step, draft>>
removal == <<deleting, removed>>
history == <<entered, late, thrown, wished, faults, acts, hurt>>
vars == <<db, login, memory, asked, made, disk, runner, removal, history>>

JobStates == {"none", "queued", "running", "succeeded", "failed"}

\* keys have a row in a credential table; this server can read those in sealed.
Databases ==
    [data : SUBSET Edits, keys : SUBSET Keys, sealed : SUBSET Keys,
     jobs : [Jobs -> JobStates], listed : SUBSET Packages, schema : {"old", "latest"}]

Payloads ==
    [kind : {"create", "automatic", "restore"}, of : Packages \cup {NoPackage},
     encrypted : BOOLEAN]

Contents ==
    [dump : Databases, bundle : SUBSET Keys, encrypted : BOOLEAN,
     kind : {"create", "automatic", "safety", "upload"}]

MakingSteps == {"dump", "export", "package", "record", "prune"}
ReplacingSteps == {"half", "open", "adopt"}
Steps == {"idle", "look", "stop", "extract", "close", "keys", "succeeded", "failed"}
         \cup MakingSteps \cup ReplacingSteps

ASSUME NothingAssumption == Nothing \notin Contents /\ Nothing \notin Payloads

Empty == [data |-> {}, keys |-> {}, sealed |-> {}, jobs |-> [j \in Jobs |-> "none"],
          listed |-> {}, schema |-> "latest"]

Init ==
    /\ db = Empty
    /\ login = TRUE
    /\ migrated = TRUE
    /\ asked = [j \in Jobs |-> Nothing]
    /\ owed = {} /\ secrets = {}
    /\ made = [p \in Packages |-> Nothing]
    /\ disk = {}
    /\ running = NoJob /\ step = "idle" /\ draft = Nothing
    /\ deleting = NoPackage /\ removed = FALSE
    /\ entered = {} /\ late = {} /\ thrown = {} /\ wished = {}
    /\ faults = 0 /\ acts = 0
    /\ hurt = FALSE

Act == acts < MaxActs /\ acts' = acts + 1

Restoring == running # NoJob /\ asked[running].kind = "restore"

\* What is entered now is in no safety backup, and will be replaced.
AfterSafetyDump == {"export", "package", "record", "stop", "extract", "close"}

-----------------------------------------------------------------------------
(* Users and administrators; every request of theirs needs the login.      *)

Edit(e) ==
    /\ login /\ e \notin entered
    /\ entered' = entered \cup {e}
    /\ late' = (IF Restoring /\ step \in AfterSafetyDump THEN late \cup {e} ELSE late)
    /\ db' = [db EXCEPT !.data = @ \cup {e}]
    /\ UNCHANGED <<login, memory, asked, made, disk, runner, removal,
                   thrown, wished, faults, acts, hurt>>

\* An account with its credential is added or removed.
Connect(k) ==
    /\ Act
    /\ login
    /\ db' = (IF k \in db.keys
              THEN [db EXCEPT !.keys = @ \ {k}, !.sealed = @ \ {k}]
              ELSE [db EXCEPT !.keys = @ \cup {k}, !.sealed = @ \cup {k}])
    /\ UNCHANGED <<login, memory, asked, made, disk, runner, removal,
                   entered, late, thrown, wished, faults, hurt>>

\* enqueueJob; with a password, setJobSecret follows when the row is there.
Enqueue(j, payload) ==
    /\ asked[j] = Nothing
    /\ asked' = [asked EXCEPT ![j] = payload]
    /\ db' = [db EXCEPT !.jobs[j] = "queued"]

AskBackup(j, encrypted) ==
    /\ login
    /\ Enqueue(j, [kind |-> "create", of |-> NoPackage, encrypted |-> encrypted])
    /\ owed' = (IF encrypted THEN owed \cup {j} ELSE owed)
    /\ UNCHANGED <<login, migrated, secrets, made, disk, runner, removal, history>>

AskRestore(j, p) ==
    /\ login
    /\ p \in db.listed
    /\ Enqueue(j, [kind |-> "restore", of |-> p, encrypted |-> made[p].encrypted])
    /\ owed' = (IF made[p].encrypted THEN owed \cup {j} ELSE owed)
    /\ wished' = wished \cup {j}
    /\ UNCHANGED <<login, migrated, secrets, made, disk, runner, removal,
                   entered, late, thrown, faults, acts, hurt>>

GiveSecret(j) ==
    /\ j \in owed
    /\ owed' = owed \ {j}
    /\ secrets' = secrets \cup {j}
    /\ UNCHANGED <<db, login, migrated, asked, made, disk, runner, removal, history>>

\* The runner finds an automatic backup due.
ScheduleBackup(j) ==
    /\ running = NoJob
    /\ Enqueue(j, [kind |-> "automatic", of |-> NoPackage, encrypted |-> FALSE])
    /\ UNCHANGED <<login, memory, made, disk, runner, removal, history>>

\* retryJob
Retry(j) ==
    /\ Act
    /\ login
    /\ db.jobs[j] = "failed"
    /\ db' = [db EXCEPT !.jobs[j] = "queued"]
    /\ wished' = wished \cup {j}
    /\ UNCHANGED <<login, memory, asked, made, disk, runner, removal,
                   entered, late, thrown, faults, hurt>>

\* A package of another server, of an older version, is uploaded.
Upload(p) ==
    /\ Act
    /\ login
    /\ made[p] = Nothing
    /\ made' = [made EXCEPT ![p] =
                    [dump |-> [Empty EXCEPT !.keys = Keys, !.schema = "old"],
                     bundle |-> Keys, encrypted |-> FALSE, kind |-> "upload"]]
    /\ disk' = disk \cup {p}
    /\ db' = [db EXCEPT !.listed = @ \cup {p}]
    /\ UNCHANGED <<login, memory, asked, runner, removal,
                   entered, late, thrown, wished, faults, hurt>>

DeleteLooks(p) ==
    /\ Act
    /\ login
    /\ deleting = NoPackage
    /\ p \in db.listed
    /\ \A j \in Jobs : db.jobs[j] \in {"queued", "running"} => asked[j].of # p
    /\ deleting' = p
    /\ UNCHANGED <<db, login, memory, asked, made, disk, runner, removed,
                   entered, late, thrown, wished, faults, hurt>>

DeleteRemoves ==
    /\ deleting # NoPackage /\ ~removed
    /\ removed' = TRUE
    /\ disk' = disk \ {deleting}
    /\ thrown' = thrown \cup {deleting}
    /\ UNCHANGED <<db, login, memory, asked, made, runner, deleting,
                   entered, late, wished, faults, acts, hurt>>

DeleteUnlists ==
    /\ removed
    /\ deleting' = NoPackage /\ removed' = FALSE
    /\ db' = [db EXCEPT !.listed = @ \ {deleting}]
    /\ UNCHANGED <<login, memory, asked, made, disk, runner, history>>

\* Any request, also one without a login, calls getDatabase: the first one
\* migrates. While tables are replaced it may find the old ones still complete.
Visit ==
    /\ ~migrated
    /\ migrated' = TRUE
    /\ db' = (IF step = "half" THEN db ELSE [db EXCEPT !.schema = "latest"])
    /\ UNCHANGED <<login, owed, secrets, asked, made, disk, runner, removal, history>>

-----------------------------------------------------------------------------
(* The job runner: creating a package.                                     *)

\* The job is claimed and its secret consumed: without it, it fails.
Claim(j) ==
    /\ running = NoJob
    /\ db.jobs[j] = "queued"
    /\ db' = [db EXCEPT !.jobs[j] = "running"]
    /\ running' = j
    /\ secrets' = secrets \ {j}
    /\ wished' = wished \ {j}
    /\ step' = (IF asked[j].encrypted /\ j \notin secrets THEN "failed"
                ELSE IF asked[j].kind = "restore" THEN "look" ELSE "dump")
    /\ UNCHANGED <<login, migrated, owed, asked, made, disk, draft, removal,
                   entered, late, thrown, faults, acts, hurt>>

GoOn(next) == step' = next /\ running' = running

\* pg_dump reads one snapshot.
DumpDatabase ==
    /\ step = "dump"
    /\ GoOn("export")
    /\ draft' = [dump |-> db, bundle |-> {}]
    /\ UNCHANGED <<db, login, memory, asked, made, disk, removal, history>>

\* exportPortableCredentialBundle reads the credentials as they are by now,
\* and fails for one it cannot decrypt.
Export ==
    /\ step = "export"
    /\ GoOn(IF db.keys = db.sealed THEN "package" ELSE "failed")
    /\ draft' = [draft EXCEPT !.bundle = db.keys]
    /\ UNCHANGED <<db, login, memory, asked, made, disk, removal, history>>

\* tar, and encryption: the file is in the backup directory.
Package(p) ==
    /\ step = "package"
    /\ made[p] = Nothing
    /\ GoOn("record")
    /\ made' = [made EXCEPT ![p] =
                    [dump |-> draft.dump, bundle |-> draft.bundle,
                     encrypted |-> ~Restoring /\ asked[running].encrypted,
                     kind |-> IF Restoring THEN "safety" ELSE asked[running].kind]]
    /\ disk' = disk \cup {p}
    /\ draft' = p
    /\ UNCHANGED <<db, login, memory, asked, removal, history>>

\* INSERT INTO backup_artifacts; job_id must name a row unless it is a safety backup.
Record ==
    /\ step = "record"
    /\ db' = [db EXCEPT !.listed = @ \cup {draft}]
    /\ draft' = Nothing
    /\ GoOn(IF Restoring THEN "stop"
            ELSE IF asked[running].kind = "automatic" THEN "prune" ELSE "succeeded")
    /\ UNCHANGED <<login, memory, asked, made, disk, removal, history>>

\* pruneAutomaticBackups keeps the newest; which those are is left open.
Prune(kept) ==
    /\ step = "prune"
    /\ LET listed == {p \in db.listed : made[p].kind = "automatic"}
       IN  /\ kept \subseteq listed
           /\ Cardinality(kept) = (IF Cardinality(listed) < Retention
                                   THEN Cardinality(listed) ELSE Retention)
           /\ disk' = disk \ (listed \ kept)
           /\ db' = [db EXCEPT !.listed = @ \ (listed \ kept)]
    /\ GoOn("succeeded")
    /\ UNCHANGED <<login, memory, asked, made, draft, removal, history>>

-----------------------------------------------------------------------------
(* The job runner: restoring a package.                                    *)

Target == asked[running].of

LookWithoutSafety ==
    /\ step = "look"
    /\ GoOn(IF Target \in db.listed /\ login THEN "stop" ELSE "failed")
    /\ UNCHANGED <<db, login, memory, asked, made, disk, draft, removal, history>>

\* The artifact's row, and the login of the requester.
Look ==
    /\ step = "look"
    /\ GoOn(IF Target \in db.listed /\ login THEN "dump" ELSE "failed")
    /\ UNCHANGED <<db, login, memory, asked, made, disk, draft, removal, history>>

\* The schedulers stop, or a tick outlasts the time limit.
Stop(next) ==
    /\ step = "stop"
    /\ next \in {"extract", "failed"}
    /\ GoOn(next)
    /\ UNCHANGED <<db, login, memory, asked, made, disk, draft, removal, history>>

\* Decrypt, extract, verify: without the file, or with a wrong password, it fails.
Extract(next) ==
    /\ step = "extract"
    /\ next \in {"close", "failed"}
    /\ Target \in disk \/ next = "failed"
    /\ GoOn(next)
    /\ UNCHANGED <<db, login, memory, asked, made, disk, draft, removal, history>>

\* closeDatabaseForRestore, and pg_restore begins to drop the tables.
Close ==
    /\ step = "close"
    /\ GoOn("half")
    /\ migrated' = FALSE
    /\ login' = FALSE
    /\ db' = Empty
    /\ UNCHANGED <<owed, secrets, asked, made, disk, draft, removal, history>>

\* pg_restore has ended; the tar of the attachments follows.
Replace ==
    /\ step = "half"
    /\ GoOn("open")
    /\ db' = made[Target].dump
    /\ UNCHANGED <<login, memory, asked, made, disk, draft, removal, history>>

\* pg_restore, tar or the adoption fails.
ReplaceFails ==
    /\ step \in ReplacingSteps
    /\ faults < MaxFaults
    /\ faults' = faults + 1
    /\ GoOn("failed")
    /\ hurt' = TRUE
    /\ UNCHANGED <<db, login, memory, asked, made, disk, draft, removal,
                   entered, late, thrown, wished, acts>>

OpenWithoutAdoption ==
    /\ step = "open"
    /\ GoOn("keys")
    /\ migrated' = TRUE
    /\ db' = (IF migrated THEN db ELSE [db EXCEPT !.schema = "latest"])
    /\ UNCHANGED <<login, owed, secrets, asked, made, disk, draft, removal, history>>

\* updateJobProgress and getDatabase migrate, unless a request has done so.
Open ==
    /\ step = "open"
    /\ GoOn("adopt")
    /\ migrated' = TRUE
    /\ db' = (IF migrated THEN db ELSE [db EXCEPT !.schema = "latest"])
    /\ UNCHANGED <<login, owed, secrets, asked, made, disk, draft, removal, history>>

\* adoptRestoredWorkspace: one transaction.
Adopt ==
    /\ step = "adopt"
    /\ GoOn("keys")
    /\ login' = TRUE
    /\ UNCHANGED <<db, memory, asked, made, disk, draft, removal, history>>

RestoreKeysForgets ==
    /\ step = "keys"
    /\ GoOn("succeeded")
    /\ UNCHANGED <<db, login, memory, asked, made, disk, draft, removal, history>>

\* restorePortableCredentialBundle fails for a credential that has no row.
RestoreKeys ==
    /\ step = "keys"
    /\ LET bundle == made[Target].bundle
       IN  /\ GoOn(IF bundle \subseteq db.keys THEN "succeeded" ELSE "failed")
           /\ db' = [db EXCEPT !.sealed = @ \cup (bundle \cap db.keys)]
    /\ UNCHANGED <<login, memory, asked, made, disk, draft, removal, history>>

\* finishJob writes the row of the job, if the database has one; a failed
\* automatic backup may be queued again.
Finish(status) ==
    /\ step \in {"succeeded", "failed"}
    /\ \/ status = step
       \/ status = "queued" /\ step = "failed" /\ asked[running].kind = "automatic"
    /\ db' = (IF db.jobs[running] = "none" THEN db
              ELSE [db EXCEPT !.jobs[running] = status])
    /\ running' = NoJob /\ step' = "idle" /\ draft' = Nothing
    /\ UNCHANGED <<login, memory, asked, made, disk, removal, history>>

-----------------------------------------------------------------------------
\* The process ends and starts again; recoverInterruptedJobs fails what ran.
Crash ==
    /\ faults < MaxFaults
    /\ faults' = faults + 1
    /\ hurt' = (hurt \/ step \in ReplacingSteps)
    /\ db' = [db EXCEPT !.schema = "latest",
                        !.jobs = [j \in Jobs |->
                                    IF @[j] = "running" THEN "failed" ELSE @[j]]]
    /\ migrated' = TRUE
    /\ owed' = {} /\ secrets' = {}
    /\ running' = NoJob /\ step' = "idle" /\ draft' = Nothing
    /\ deleting' = NoPackage /\ removed' = FALSE
    /\ UNCHANGED <<login, asked, made, disk, entered, late, thrown, wished, acts>>

Users ==
    \/ \E e \in Edits : Edit(e)
    \/ \E k \in Keys : Connect(k)
    \/ \E j \in Jobs : \/ \E encrypted \in BOOLEAN : AskBackup(j, encrypted)
                       \/ \E p \in Packages : AskRestore(j, p)
                       \/ Retry(j)
    \/ \E p \in Packages : Upload(p) \/ DeleteLooks(p)

Requests ==
    (\E j \in Jobs : GiveSecret(j)) \/ DeleteRemoves \/ DeleteUnlists \/ Visit

Making ==
    \/ \E j \in Jobs : Claim(j)
    \/ DumpDatabase \/ Export
    \/ \E p \in Packages : Package(p)
    \/ Record
    \/ \E kept \in SUBSET Packages : Prune(kept)
    \/ \E status \in {"succeeded", "failed", "queued"} : Finish(status)

Restore ==
    \/ Look
    \/ \E next \in {"extract", "close", "failed"} : Stop(next) \/ Extract(next)
    \/ Close \/ Replace \/ Open \/ Adopt \/ RestoreKeys

Next ==
    \/ Users \/ Requests \/ Making \/ Restore
    \/ \E j \in Jobs : ScheduleBackup(j)
    \/ ReplaceFails \/ Crash

Spec == Init /\ [][Next]_vars

-----------------------------------------------------------------------------
\* The database and the packages keep their shape. Which package is being made
\* is typed by the step, as draft is reused.
TypeOK ==
    /\ db \in Databases
    /\ login \in BOOLEAN /\ migrated \in BOOLEAN
    /\ removed \in BOOLEAN /\ hurt \in BOOLEAN
    /\ asked \in [Jobs -> Payloads \cup {Nothing}]
    /\ owed \subseteq Jobs /\ secrets \subseteq Jobs /\ wished \subseteq Jobs
    /\ made \in [Packages -> Contents \cup {Nothing}]
    /\ disk \subseteq Packages /\ thrown \subseteq Packages
    /\ running \in Jobs \cup {NoJob} /\ step \in Steps
    /\ deleting \in Packages \cup {NoPackage}
    /\ late \subseteq entered /\ entered \subseteq Edits
    /\ faults \in 0..MaxFaults /\ acts \in 0..MaxActs

\* Whatever a user entered is in the database, or in a package that is still
\* there, however backups, restores, failures and crashes follow each other.
\* Two exceptions: an administrator deleted a package that held it, or it was
\* entered while a restore ran, after the dump of its safety backup.
NothingLost ==
    \A e \in entered \ late :
        \/ e \in db.data
        \/ \E p \in Packages : /\ made[p] # Nothing /\ p \in disk \cup thrown
                               /\ e \in made[p].dump.data

\* Until its requester can log in again the database is that of the package, to
\* the last credential; and when the restore has succeeded this server can read
\* every credential in the package whose account is there, though another server
\* had encrypted it.
RestoredIsBackup ==
    /\ step \in {"open", "adopt"} =>
           /\ db.data = made[Target].dump.data
           /\ db.keys = made[Target].dump.keys
           /\ db.jobs = made[Target].dump.jobs
    /\ step = "succeeded" /\ Restoring =>
           made[Target].bundle \cap db.keys \subseteq db.sealed

\* However a restore ends, somebody can log in afterwards, unless it was cut
\* short between the replacement and the adoption: what may still fail after the
\* adoption, credentials without a row, does no harm to the login.
LoginReturns == running = NoJob => login \/ hurt

\* "The current login's user name and password stay as they are"
\* (workspace-app.tsx:4269): also when the restore fails.
LoginSurvives == running = NoJob => login

\* The business tables are used by this version's schema only
\* (docs/architecture/database-migrations.md, start-up steps 4 and 5).
SchemaIsLatest == running = NoJob /\ ~hurt => db.schema = "latest"

\* A restore runs because somebody confirmed it (restore/route.ts:18), and once
\* confirmed it runs once.
RestoresAreAsked ==
    [][Restoring' /\ running = NoJob => running' \in wished]_vars
=============================================================================
