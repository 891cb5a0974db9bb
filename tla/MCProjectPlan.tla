--------------------------- MODULE MCProjectPlan ---------------------------
(* ProjectPlan for TLC.                                                    *)
EXTENDS ProjectPlan, TLC

\* Items, the saves of the page and those of assistants are interchangeable.
Symmetry == Permutations(Items) \cup Permutations(Forms) \cup Permutations(Assistants)
=============================================================================
