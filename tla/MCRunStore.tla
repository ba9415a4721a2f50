----------------------------- MODULE MCRunStore -----------------------------
(* Model values and symmetry for checking RunStore with TLC. *)
EXTENDS RunStore, TLC

CONSTANTS r1, r2, c1, w1, x1

Symmetric == Permutations(Runs)
=============================================================================
