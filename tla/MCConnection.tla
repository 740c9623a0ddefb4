---------------------------- MODULE MCConnection ----------------------------
(* Connection on small sets of users, rows and concurrent requests.        *)
EXTENDS Connection, TLC

Symmetry == Permutations(User) \cup Permutations(Row) \cup Permutations(Worker)
=============================================================================
