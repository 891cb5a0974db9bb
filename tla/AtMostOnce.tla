----------------------------- MODULE AtMostOnce -----------------------------
(* What an idempotency key promises its client, in the abstract.           *)
(*                                                                         *)
(* Two parts of the server make this promise, each with a table of its     *)
(* own: the calendar operation receipts (CalendarOperation) and the MCP    *)
(* write events (McpWrite).  Each is shown to implement this module.       *)
EXTENDS Sequences

CONSTANTS Keys,     \* idempotency keys a client may use
          Inputs    \* the changes it may ask for under a key

VARIABLES performed,  \* per key, the changes made under it, in order
          vouched     \* the <<key, input>> pairs a client was told are done

avars == <<performed, vouched>>

AInit ==
  /\ performed = [k \in Keys |-> <<>>]
  /\ vouched = {}

\* The first change under a key is made; there is never a second.
Perform(k, i) ==
  /\ performed[k] = <<>>
  /\ performed' = [performed EXCEPT ![k] = <<i>>]
  /\ UNCHANGED vouched

\* A client is told that its change is done: that very change was made.
Vouch(k, i) ==
  /\ performed[k] = <<i>>
  /\ vouched' = vouched \cup {<<k, i>>}
  /\ UNCHANGED performed

\* Keys whose retention ran out are new keys.
Forget(K) ==
  /\ performed' = [k \in Keys |-> IF k \in K THEN <<>> ELSE performed[k]]
  /\ vouched' = {p \in vouched : p[1] \notin K}

Once == \E k \in Keys, i \in Inputs : Perform(k, i) \/ Vouch(k, i)

\* Keys that are kept for ever.
ASpec == AInit /\ [][Once]_avars

\* Keys that are kept for a while.
LapsingSpec == AInit /\ [][Once \/ (\E K \in SUBSET Keys : Forget(K))]_avars
=============================================================================
