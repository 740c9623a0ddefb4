------------------------------ MODULE MCFamily ------------------------------
(* Family with users, families and names that are alike.                   *)
EXTENDS Family, TLC

Symmetry ==
  Permutations(User) \cup Permutations(Family) \cup Permutations(Name) \cup Permutations(Worker)
=============================================================================
