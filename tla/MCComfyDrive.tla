------------------------------ MODULE MCComfyDrive ------------------------------
(* Bounded instances of ComfyDrive. *)
EXTENDS ComfyDrive, TLC

CONSTANTS w1, w2, j1, j2, k1, k2

Symmetry == Permutations({k1, k2})
=============================================================================
