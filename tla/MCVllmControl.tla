--------------------------- MODULE MCVllmControl ---------------------------
(***************************************************************************)
(* Instances of VllmControl for TLC.  Processes are interchangeable.       *)
(***************************************************************************)
EXTENDS VllmControl, TLC

Symmetry == Permutations(Proc)
=============================================================================
