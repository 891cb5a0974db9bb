-------------------------- MODULE MCCalendarOutbox --------------------------
(* Small instances of CalendarOutbox for TLC. *)
EXTENDS CalendarOutbox, TLC

\* Pages, requests and operation ids are interchangeable.
Symmetry == Permutations(Calls) \cup Permutations(Operations) \cup Permutations(Tabs)
=============================================================================
