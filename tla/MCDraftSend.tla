----------------------------- MODULE MCDraftSend ----------------------------
(* Small instances of DraftSend for TLC. *)
EXTENDS DraftSend, TLC

\* Requests, drafts, keys and files are interchangeable.
Symmetry == Permutations(Senders) \cup Permutations(Workers) \cup Permutations(Drafts)
            \cup Permutations(Keys) \cup Permutations(Files)
=============================================================================
