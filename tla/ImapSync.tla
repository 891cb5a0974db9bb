------------------------------ MODULE ImapSync ------------------------------
(* Incremental IMAP synchronisation of one account                          *)
(* (apps/web/src/server/imap-sync.ts with the cursors and the message index *)
(* of mail-repository.ts).                                                  *)
(*                                                                          *)
(* The mail server and the local index change between any two steps of a    *)
(* sync: a search with its fetch is one step, each statement that writes    *)
(* the index or the cursor is another.  UIDs are small numbers; 0 stands    *)
(* for a NULL position, a row that is not there, and no UIDVALIDITY.        *)
EXTENDS Naturals, FiniteSets, FiniteSetsExt

CONSTANTS Folders,      \* folders by priority: the smallest is synchronised first
          MaxUid,       \* the largest UID of a folder
          MinNext,      \* the smallest UIDNEXT a folder is first seen with
          MaxMessages,  \* bound: UIDs given out by all folders together
          Batch,        \* maximumMessages, the messages of one sync (100)
          RecentWindow, \* RECENT_RECONCILE_WINDOW (200)
          DeepWindow,   \* DEEP_RECONCILE_WINDOW (500)
          AuditEvery,   \* syncs in DEEP_RECONCILE_INTERVAL_MS (30 minutes)
          OldUids,      \* messages dated before the cutoff of a bounded sync mode
          Threaded,     \* the server gives thread ids: equal UIDs are one thread
          MaxValidity,  \* bound: UIDVALIDITY values of a folder
          MaxWidenings, \* bound: times the sync range is widened
          MaxAborts,    \* bound: syncs that fail or die
          MaxRefusals   \* bound: searches that fail

ASSUME SyncAssumption ==
  /\ Folders \subseteq Nat /\ IsFiniteSet(Folders)
  /\ MaxUid \in Nat \ {0}
  /\ MinNext \in 1..MaxUid
  /\ MaxMessages \in Nat
  /\ Batch \in Nat \ {0} /\ RecentWindow \in Nat \ {0} /\ DeepWindow \in Nat \ {0}
  /\ AuditEvery \in Nat \ {0}
  /\ OldUids \subseteq 1..MaxUid
  /\ Threaded \in BOOLEAN
  /\ MaxValidity \in Nat \ {0} /\ MaxWidenings \in 0..1 /\ MaxAborts \in Nat
  /\ MaxRefusals \in Nat

VARIABLES remote,   \* per folder on the server: UIDVALIDITY, UIDNEXT, messages
          local,    \* mail_messages: the UIDVALIDITY each row was fetched under
          cursor,   \* sync_cursors
          full,     \* accounts.sync_mode is the full history
          widening, \* the account form saved a wider mode, backfill not yet reopened
          sync,     \* the running sync
          aborts,   \* history: syncs that failed so far
          refusals  \* history: searches that failed so far

faults == <<aborts, refusals>>
vars == <<remote, local, cursor, full, widening, sync, faults>>

Uids == 1..MaxUid

NoCursor == [valid |-> 0, last |-> 0, back |-> 0, complete |-> FALSE, deep |-> 0, wait |-> 0]

IdleSync ==
  [pc |-> "idle", then |-> "idle", folder |-> 0, left |-> {}, budget |-> 0, full |-> FALSE,
   valid |-> 0, next |-> 1, cur |-> NoCursor, last |-> 0, back |-> 0, complete |-> FALSE,
   found |-> {}, range |-> {}, audited |-> FALSE, before |-> 0]

\* A folder of the server with messages below its next UID.
RemoteFolders(valid) ==
  UNION {[valid : {valid}, next : {n}, uids : SUBSET (1..(n - 1))] : n \in MinNext..(MaxUid + 1)}

\* The UIDs the server has given out, over all folders.
Numbered == MapThenSumSet(LAMBDA f : remote[f].next - 1, Folders)

Init ==
  /\ remote \in [Folders -> RemoteFolders(1)]
  /\ Numbered <= MaxMessages
  /\ local = [f \in Folders |-> [u \in Uids |-> 0]]
  /\ cursor = [f \in Folders |-> NoCursor]
  /\ full \in BOOLEAN
  /\ widening = FALSE
  /\ sync = IdleSync
  /\ aborts = 0
  /\ refusals = 0

Rows(f) == {u \in Uids : local[f][u] # 0}

-----------------------------------------------------------------------------
(* The mail server and the user *)

\* The folder the running sync has open.
OpenFolder(f) == sync.pc \notin {"idle", "folder"} /\ sync.folder = f

Mail(f) ==
  /\ remote[f].next <= MaxUid
  /\ Numbered < MaxMessages
  /\ remote' = [remote EXCEPT ![f].uids = @ \cup {remote[f].next}, ![f].next = @ + 1]
  /\ UNCHANGED <<local, cursor, full, widening, sync, faults>>

Expunge(f, u) ==
  /\ u \in remote[f].uids
  /\ remote' = [remote EXCEPT ![f].uids = @ \ {u}]
  /\ UNCHANGED <<local, cursor, full, widening, sync, faults>>

\* The server renumbers a folder; not while a session has it open.
Renew(f) ==
  /\ remote[f].valid < MaxValidity
  /\ ~OpenFolder(f)
  /\ \E r \in RemoteFolders(remote[f].valid + 1) : remote' = [remote EXCEPT ![f] = r]
  /\ Numbered' <= MaxMessages
  /\ UNCHANGED <<local, cursor, full, widening, sync, faults>>

\* POST /api/mail-accounts of a known account saves a wider sync mode ...
Widen ==
  /\ ~full
  /\ MaxWidenings > 0
  /\ full' = TRUE
  /\ widening' = TRUE
  /\ UNCHANGED <<remote, local, cursor, sync, faults>>

\* ... and then reopenAccountHistoryBackfill reopens every cursor.
Reopen ==
  /\ widening
  /\ widening' = FALSE
  /\ cursor' = [f \in Folders |->
       IF cursor[f].valid = 0 THEN cursor[f]
       ELSE [cursor[f] EXCEPT !.complete = FALSE, !.back = IF @ # 0 THEN @ ELSE cursor[f].last + 1]]
  /\ UNCHANGED <<remote, local, full, sync, faults>>

-----------------------------------------------------------------------------
(* One sync *)

\* The n largest, the n smallest of a set of UIDs.
Newest(S, n) == {u \in S : Cardinality({v \in S : v > u}) < n}
Oldest(S, n) == {u \in S : Cardinality({v \in S : v < u}) < n}

\* What a search with the cutoff of the sync mode finds.
InRange(u) == sync.full \/ u \notin OldUids

\* The account is read: its sync mode gives the cutoff.  One more of the
\* syncs that make up the audit interval has come.
Begin ==
  /\ sync.pc = "idle"
  /\ cursor' = [f \in Folders |-> [cursor[f] EXCEPT !.wait = IF @ = 0 THEN 0 ELSE @ - 1]]
  /\ sync' = [IdleSync EXCEPT !.pc = "folder", !.left = Folders, !.budget = Batch, !.full = full]
  /\ UNCHANGED <<remote, local, full, widening, faults>>

\* searchUids: of the UIDs asked for, those that the server has; none when the
\* search fails, because client.search then resolves to false.
Search(asked, found) ==
  LET present == remote[sync.folder].uids \cap asked
  IN \/ found = present /\ UNCHANGED refusals
     \/ found = {} /\ refusals < MaxRefusals /\ refusals' = refusals + 1

\* resetFolderSyncState: the threads that touch the folder go, with every
\* message they hold.
Reset(f) ==
  /\ local' = [g \in Folders |-> [u \in Uids |->
       IF g = f \/ (Threaded /\ u \in Rows(f)) THEN 0 ELSE local[g][u]]]
  /\ cursor' = [cursor EXCEPT ![f] = NoCursor]

\* A folder's numbers are trusted without comparing UIDVALIDITY.
RenumberedNever(c, valid) == FALSE

Renumbered(c, valid) == c.valid \notin {0, valid}

\* The next folder is opened and its cursor read; an index of other numbers
\* is cleared first.
Open ==
  LET f == Min(sync.left)
      r == remote[f]
      stale == Renumbered(cursor[f], r.valid)
      cur == IF stale THEN NoCursor ELSE cursor[f]
  IN /\ sync.pc = "folder"
     /\ sync.left # {}
     /\ sync.budget > 0
     /\ IF stale THEN Reset(f) ELSE UNCHANGED <<local, cursor>>
     /\ sync' = [sync EXCEPT
          !.pc = IF cur.valid = 0 THEN "initial" ELSE "new",
          !.folder = f, !.left = @ \ {f},
          !.valid = r.valid, !.next = r.next, !.cur = cur,
          !.last = IF cur.last = 0 /\ cur.complete THEN r.next - 1 ELSE cur.last,
          !.back = cur.back, !.complete = cur.complete]
     /\ UNCHANGED <<remote, full, widening, faults>>

\* Every folder is done, or the messages of one sync are used up.
End ==
  /\ sync.pc = "folder"
  /\ sync.left = {} \/ sync.budget = 0
  /\ sync' = IdleSync
  /\ UNCHANGED <<remote, local, cursor, full, widening, faults>>

\* A folder without a cursor: its newest messages.
Initial ==
  /\ sync.pc = "initial"
  /\ \E matching \in SUBSET Uids :
       LET selected == Newest(matching, sync.budget)
       IN /\ Search({u \in Uids : InRange(u)}, matching)
          /\ sync' = [sync EXCEPT
               !.pc = "store", !.then = "save", !.found = selected,
               !.budget = @ - Cardinality(selected),
               !.last = sync.next - 1,
               !.back = IF selected = {} THEN 0 ELSE Min(selected),
               !.complete = (selected = matching)]
  /\ UNCHANGED <<remote, local, cursor, full, widening, aborts>>

\* The new position is the end of the folder, whatever was selected.
AdvanceToEnd(selected) == sync.next - 1

\* The new position is the last message selected.
AdvanceToSelected(selected) == Max(selected \cup {sync.last})

\* A folder with a cursor: the oldest messages above it.
New ==
  /\ sync.pc = "new"
  /\ \E fresh \in SUBSET Uids :
       LET selected == Oldest(fresh, sync.budget)
           budget == sync.budget - Cardinality(selected)
       IN /\ Search({u \in Uids : u > sync.last}, fresh)
          /\ sync' = [sync EXCEPT
               !.pc = "store",
               !.then = IF selected = fresh /\ ~sync.complete /\ budget > 0
                        THEN "history" ELSE "save",
               !.found = selected,
               !.budget = budget,
               !.last = AdvanceToSelected(selected)]
  /\ UNCHANGED <<remote, local, cursor, full, widening, aborts>>

\* Where the backfill goes on, by the cursor as it was read.
BackfillBefore ==
  IF sync.back # 0 THEN sync.back
  ELSE IF sync.cur.last > 0 THEN sync.cur.last + 1 ELSE sync.next

\* The newest messages below the backfill position.
History ==
  /\ sync.pc = "history"
  /\ \E older \in SUBSET Uids :
       LET selected == Newest(older, sync.budget)
       IN /\ Search({u \in Uids : u < BackfillBefore /\ InRange(u)}, older)
          /\ sync' = [sync EXCEPT
               !.pc = "store", !.then = "save", !.found = selected,
               !.budget = @ - Cardinality(selected),
               !.back = IF selected = {} THEN @ ELSE Min(selected),
               !.complete = (selected = older)]
  /\ UNCHANGED <<remote, local, cursor, full, widening, aborts>>

\* upsertMessages
Store ==
  /\ sync.pc = "store"
  /\ local' = [local EXCEPT ![sync.folder] =
       [u \in Uids |-> IF u \in sync.found THEN sync.valid ELSE @[u]]]
  /\ sync' = [sync EXCEPT !.pc = sync.then, !.found = {}]
  /\ UNCHANGED <<remote, cursor, full, widening, faults>>

\* saveSyncCursor, by the values the sync has worked with; an existing row
\* keeps its audit position.
Save ==
  /\ sync.pc = "save"
  /\ cursor' = [cursor EXCEPT ![sync.folder] =
       [valid |-> sync.valid, last |-> sync.last, back |-> sync.back,
        complete |-> sync.complete, deep |-> @.deep, wait |-> @.wait]]
  /\ sync' = [sync EXCEPT !.pc = "recent"]
  /\ UNCHANGED <<remote, local, full, widening, faults>>

\* The UIDs the last RecentWindow numbers of the folder cover.
RecentRange(latest) == {u \in Uids : u <= latest /\ u + RecentWindow > latest}

\* reconcileRecentFolderState: the server is asked for a range of UIDs ...
Recent ==
  LET range == RecentRange(sync.next - 1)
  IN /\ sync.pc = "recent"
     /\ \E found \in SUBSET range :
          /\ Search(range, found)
          /\ sync' = [sync EXCEPT
               !.pc = "drop", !.then = "deep", !.range = range, !.found = found]
     /\ UNCHANGED <<remote, local, cursor, full, widening, aborts>>

\* Every row of the folder that the search did not name.
MissingAnywhere == Rows(sync.folder) \ sync.found

\* Every row of the range that the search did not name.
Missing == (Rows(sync.folder) \cap sync.range) \ sync.found

\* ... and removeMissingFolderMessages deletes the rows it did not name.
Drop ==
  /\ sync.pc = "drop"
  /\ local' = [local EXCEPT ![sync.folder] = [u \in Uids |-> IF u \in Missing THEN 0 ELSE @[u]]]
  /\ sync' = [sync EXCEPT !.pc = sync.then, !.found = {}, !.range = {}]
  /\ UNCHANGED <<remote, cursor, full, widening, faults>>

Larger(a, b) == IF a > b THEN a ELSE b

\* The audit goes on from where it stands without ever starting anew.
AuditTopStuck(before, lowest, top) == IF before # 0 THEN before ELSE top

\* A saved position that is outside the auditable UIDs starts a new cycle.
AuditTop(before, lowest, top) == IF before \in lowest..top THEN before ELSE top

\* nextDeepReconcileRange: a window of UIDs below the recent ones, and the
\* position after it; an empty range where nothing is auditable.
DeepRange(latest, before, lowest) ==
  LET oldestRecent == IF latest >= RecentWindow THEN latest - RecentWindow + 1 ELSE 1
      top == oldestRecent - 1
      max == AuditTop(before, lowest, top)
      min == IF max >= DeepWindow THEN Larger(lowest, max - DeepWindow + 1) ELSE lowest
  IN IF top < lowest THEN [uids |-> {}, before |-> 0]
     ELSE [uids |-> min..max, before |-> IF min > lowest THEN min - 1 ELSE top]

\* The folder's audit is skipped: one range per sync, complete folders only,
\* not before it is due, and only where rows are indexed below the recent ones.
DeepPlan ==
  IF sync.audited \/ ~sync.complete \/ sync.cur.wait # 0 \/ Rows(sync.folder) = {}
  THEN [uids |-> {}, before |-> 0]
  ELSE DeepRange(sync.next - 1, sync.cur.deep, Min(Rows(sync.folder)))

\* reconcileDeepFolderState: its search.
Deep ==
  /\ sync.pc = "deep"
  /\ \/ /\ DeepPlan.uids = {}
        /\ sync' = [sync EXCEPT !.pc = "folder"]
        /\ UNCHANGED refusals
     \/ /\ DeepPlan.uids # {}
        /\ \E found \in SUBSET DeepPlan.uids :
             /\ Search(DeepPlan.uids, found)
             /\ sync' = [sync EXCEPT
                  !.pc = "drop", !.then = "saveDeep", !.range = DeepPlan.uids,
                  !.before = DeepPlan.before, !.found = found]
  /\ UNCHANGED <<remote, local, cursor, full, widening, aborts>>

\* saveDeepReconcileCursor
SaveDeep ==
  /\ sync.pc = "saveDeep"
  /\ cursor' = [cursor EXCEPT ![sync.folder].deep = sync.before, ![sync.folder].wait = AuditEvery]
  /\ sync' = [sync EXCEPT !.pc = "folder", !.audited = TRUE]
  /\ UNCHANGED <<remote, local, full, widening, faults>>

\* The sync fails (the connection, a statement), or dies with the process,
\* and a request that was widening the mode with it.
Abort ==
  /\ sync.pc # "idle"
  /\ aborts < MaxAborts
  /\ aborts' = aborts + 1
  /\ sync' = IdleSync
  /\ UNCHANGED <<remote, local, cursor, full, widening, refusals>>

-----------------------------------------------------------------------------

SyncStep ==
  Begin \/ Open \/ End \/ Initial \/ New \/ History \/ Store \/ Save
    \/ Recent \/ Drop \/ Deep \/ SaveDeep

Next ==
  \/ \E f \in Folders : Mail(f) \/ Renew(f)
  \/ \E f \in Folders, u \in Uids : Expunge(f, u)
  \/ Widen
  \/ Reopen
  \/ SyncStep
  \/ Abort

Spec == Init /\ [][Next]_vars

\* The scheduler's interval starts syncs again and again, and a sync runs on.
FairSpec == Spec /\ WF_vars(SyncStep) /\ WF_vars(Reopen)

-----------------------------------------------------------------------------
(* Properties *)

CursorRecord ==
  [valid : 0..MaxValidity, last : 0..MaxUid, back : 0..(MaxUid + 1),
   complete : BOOLEAN, deep : 0..MaxUid, wait : 0..AuditEvery]

\* Every variable has its type; a cursor stays below the next UID of the
\* numbers it is for.
TypeOK ==
  /\ \A f \in Folders : remote[f] \in RemoteFolders(remote[f].valid) /\ remote[f].valid \in 1..MaxValidity
  /\ local \in [Folders -> [Uids -> 0..MaxValidity]]
  /\ cursor \in [Folders -> CursorRecord]
  /\ full \in BOOLEAN /\ widening \in BOOLEAN /\ aborts \in 0..MaxAborts
  /\ refusals \in 0..MaxRefusals
  /\ \A f \in Folders : cursor[f].valid = remote[f].valid => cursor[f].last < remote[f].next
  /\ sync.folder \in Folders \cup {0} /\ sync.left \subseteq Folders /\ sync.budget \in 0..Batch

\* A cursor is a promise: under the numbers it is for, every message within
\* the sync range that the server holds at or below the last UID, and at or
\* above the backfill position unless the history is complete, is indexed as
\* it is numbered now.  A message lost to it is never searched for again.  A
\* folder first seen empty breaks the promise (NewMailIsFound): MinNext > 1.
\* So does a failed search (DropsFollowServer).
CursorCoversIndex ==
  \A f \in Folders, u \in Uids :
    /\ refusals = 0
    /\ cursor[f].valid = remote[f].valid
    /\ u \in remote[f].uids \ OldUids
    /\ u <= cursor[f].last
    /\ cursor[f].complete \/ (cursor[f].back # 0 /\ u >= cursor[f].back)
    => local[f][u] = remote[f].valid

DroppedAreGone ==
  \A f \in Folders : \A u \in Uids :
    local[f][u] # 0 /\ local'[f][u] = 0
      => u \notin remote[f].uids \/ local[f][u] # remote[f].valid

\* As long as no search failed, a row leaves the index only when the server no
\* longer has its message, or when its folder was renumbered: never because a
\* message arrived, or an audit ended, between the search and the delete.
DropsOnlyTheGone == [][refusals = 0 => DroppedAreGone]_vars

\* When the server comes to rest, failing syncs and all, the index comes to
\* mirror it: new mail and history are fetched batch by batch, and the recent
\* window and the audit cycle find every row whose message is gone.
IndexMirrorsServer ==
  <>[](\A f \in Folders, u \in Uids :
         local[f][u] = IF u \in remote[f].uids THEN remote[f].valid ELSE 0)

\* docs/architecture/storage-and-sync.md:46: new mail is looked for above
\* last_uid only; so once the history of a folder is complete, none of its
\* messages at or below last_uid may be missing from the index.
NewMailIsFound ==
  \A f \in Folders, u \in Uids :
    /\ cursor[f].valid = remote[f].valid
    /\ cursor[f].complete
    /\ u \in remote[f].uids \ OldUids
    /\ u <= cursor[f].last
    => local[f][u] = remote[f].valid

\* docs/architecture/storage-and-sync.md:49: what a reconciliation deletes from
\* the index are the UIDs of its window that the server no longer has.
DropsFollowServer == [][DroppedAreGone]_vars

\* docs/architecture/storage-and-sync.md:50: what is cleared is the old
\* index of that folder; the index of any other folder stays.
ResetStaysInFolder ==
  [][\A f, g \in Folders :
       f # g /\ cursor[f].valid # 0 /\ cursor'[f].valid = 0 => local'[g] = local[g]]_vars
=============================================================================
