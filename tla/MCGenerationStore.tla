--------------------------- MODULE MCGenerationStore ---------------------------
(* Bounded instance of GenerationStore: two worker incarnations, one row     *)
(* from an older release and one or more new ones.                           *)
EXTENDS GenerationStore, TLC

CONSTANTS w1, w2, j1, j2, k1

Symmetry == Permutations({w1, w2}) \cup Permutations({j1, j2})
=============================================================================
