----------------------------- MODULE MCAccount ------------------------------
(* Account with one session of each kind and requests that are alike.      *)
EXTENDS Account, TLC

Symmetry == Permutations(Worker)
=============================================================================
