------------------------- MODULE MCEventApplication ------------------------
(* EventApplication on small sets of users, events and requests.           *)
EXTENDS EventApplication, TLC

Symmetry == Permutations(User) \cup Permutations(Event) \cup Permutations(Worker)
=============================================================================
