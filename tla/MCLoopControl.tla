--------------------------- MODULE MCLoopControl ---------------------------
(***************************************************************************)
(* Instances of LoopControl for TLC.  Processes are interchangeable, and   *)
(* so are the threads that only poll.                                      *)
(***************************************************************************)
EXTENDS LoopControl, TLC

Symmetry == Permutations(Proc) \cup Permutations(Pollers)
=============================================================================
