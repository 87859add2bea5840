--------------------------- MODULE MCAgentRunner ---------------------------
(***************************************************************************)
(* The threads and the values of a user are interchangeable.               *)
(***************************************************************************)
EXTENDS AgentRunner, TLC

Symmetry == Permutations(Client) \cup Permutations(UserValues)
=============================================================================
