----------------------------- MODULE MCGrading -----------------------------
(* Constants of Grading for TLC: two cases, one written by a human and one *)
(* generated; a world that never changes, and one that changes at time 1.  *)
(* With more passages than by default the answer is another.               *)
EXTENDS Grading, TLC

CONSTANTS a, b, t1, t2

MCSources(c) == IF c = a THEN {[path |-> "p", first |-> 1, last |-> 9]} ELSE {}

\* Version 1 of the pipeline finds nothing that overlaps.
MCRetrieved(v, c) ==
  <<[path |-> "p", first |-> IF v.version = 0 THEN 9 ELSE 10, last |-> 12]>>

MCSays(w, t, k) ==
  LET changed == w = "shifts" /\ t > 0
      garbled == w = "shifts" /\ t = 0
  IN CASE k.prompt.call = "answer" -> IF changed \/ k.prompt.view.k = 9 THEN t2 ELSE t1
       [] k.model = "prejudge" -> 1
       [] k.prompt.case = a ->
            IF garbled /\ k.prompt.call = "correctness" THEN Garbage
            ELSE IF k.prompt.text = t1 THEN 2 ELSE 0
       [] OTHER -> IF changed THEN Bare ELSE 1

MCWeights == [correctness |-> 4, recall |-> 3, faithfulness |-> 3]

Opt(mode, reach, limit, subset, drift, ttl, k) ==
  [mode |-> mode, reach |-> reach, limit |-> limit, subset |-> subset, drift |-> drift,
   ttl |-> ttl, k |-> k]
MCOrder == <<a, b>>
MCOptions ==
  {Opt("oracle", {"oracle"}, 2, 0, TRUE, 2, 5), Opt("prejudge", Mode, 1, 0, FALSE, 1, 5),
   Opt("prejudge", {"prejudge"}, NoLimit, 1, TRUE, 0, 5),
   Opt("oracle", {"oracle"}, 2, 0, FALSE, 2, 9)}

\* The processes are interchangeable.
Symmetry == Permutations(Eval)
=============================================================================
