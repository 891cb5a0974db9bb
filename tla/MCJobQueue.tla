----------------------------- MODULE MCJobQueue -----------------------------
(* A small instance of JobQueue for TLC; see Jobs.cfg.                     *)
EXTENDS JobQueue, TLC
=============================================================================
