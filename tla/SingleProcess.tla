--------------------------- MODULE SingleProcess ---------------------------
(***************************************************************************)
(* What loop_control.py and vllm_control.py both promise: a managed        *)
(* program of which at most one instance is alive.  An instance is spawned *)
(* only when none is alive, and an instance that died is never alive again.*)
(***************************************************************************)
CONSTANT Proc       \* the process instances the operating system may create

VARIABLES live,     \* the instances alive now
          spawned   \* every instance ever created

vars == <<live, spawned>>

Init == /\ live = {}
        /\ spawned = {}

Spawn(p) == /\ live = {}
            /\ p \notin spawned
            /\ live' = {p}
            /\ spawned' = spawned \cup {p}

Die(p) == /\ p \in live
          /\ live' = live \ {p}
          /\ UNCHANGED spawned

Next == \E p \in Proc : Spawn(p) \/ Die(p)

Spec == Init /\ [][Next]_vars
=============================================================================
