--------------------------- MODULE MCBackupRestore --------------------------
(* BackupRestore for TLC.                                                  *)
EXTENDS BackupRestore, TLC

\* Edits, jobs and packages are interchangeable.
Symmetry == Permutations(Edits) \cup Permutations(Jobs) \cup Permutations(Packages)
=============================================================================
