------------------------------ MODULE MCIngest ------------------------------
(***************************************************************************)
(* Instances of Ingest for TLC.  Runs are interchangeable, and so are the  *)
(* threads that only poll.                                                 *)
(***************************************************************************)
EXTENDS Ingest, TLC

Symmetry == Permutations(Task) \cup Permutations(Pollers)
=============================================================================
