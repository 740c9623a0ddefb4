------------------------- MODULE MCEventInvitation -------------------------
(* EventInvitation on small sets of users, events and requests.            *)
EXTENDS EventInvitation, TLC

Symmetry == Permutations(User) \cup Permutations(Event) \cup Permutations(Worker)
=============================================================================
