-------------------------- MODULE MCExchangeDraft --------------------------
(* Small instances of ExchangeDraft for TLC. *)
EXTENDS ExchangeDraft, TLC

Symmetry == Permutations(Runners)
=============================================================================
