----------------------------- MODULE MCImapSync -----------------------------
(* Small instances of ImapSync for TLC. *)
EXTENDS ImapSync

\* Accounts that synchronise their full history from the start.
FullHistoryInit == Init /\ full

FullHistorySpec ==
  FullHistoryInit /\ [][Next]_vars /\ WF_vars(SyncStep) /\ WF_vars(Reopen)
=============================================================================
