----------------------------- MODULE MCMcpWrite -----------------------------
(* Small instances of McpWrite for TLC. *)
EXTENDS McpWrite, TLC

\* Calls, keys and inputs are interchangeable.
Symmetry == Permutations(Calls) \cup Permutations(Keys) \cup Permutations(Inputs)
=============================================================================
