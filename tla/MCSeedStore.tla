---------------------------- MODULE MCSeedStore ----------------------------
(* Constants of SeedStore for TLC. *)
EXTENDS SeedStore, TLC

CONSTANTS q1, q2, q3

MCQuestion  == {q1, q2, q3}
MCSplitting == {q3}
MCWide      == MCQuestion

\* The questions that splitlines() leaves whole, the drafts and the clients
\* can each be renamed.
Symmetry == Permutations({q1, q2}) \cup Permutations(Draft) \cup Permutations(Client)
=============================================================================
