--------------------------- MODULE MCVectorStore ---------------------------
(* Constants of VectorStore for TLC. *)
EXTENDS VectorStore, TLC

\* Chunks, writers and readers can each be renamed.
Symmetry == Permutations(Chunk) \cup Permutations(Writer) \cup Permutations(Reader)
=============================================================================
