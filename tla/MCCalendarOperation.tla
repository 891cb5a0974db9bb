------------------------ MODULE MCCalendarOperation ------------------------
(* Small instances of CalendarOperation for TLC. *)
EXTENDS CalendarOperation, TLC

\* Requests are interchangeable, and so are operations and request bodies.
Symmetry == Permutations(Calls) \cup Permutations(Operations) \cup Permutations(Inputs)
=============================================================================
