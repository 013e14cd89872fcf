------------------------------ MODULE MCFakeDrive ------------------------------
(* Bounded instances of FakeDrive: job ids for more attempts than there are  *)
(* rows, and attempt 0 for the jobs of an older release.                     *)
EXTENDS FakeDrive, TLC

CONSTANTS w1, w2, w3, k1, k2

MCJobs == Gens \X (0 .. 3)
Symmetry == Permutations({k1, k2}) \cup Permutations(Workers)
=============================================================================
