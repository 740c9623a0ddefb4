----------------------------- MODULE MCDonation -----------------------------
(* Donation with one payment that two users claim.                         *)
EXTENDS Donation, TLC

Symmetry == Permutations(Donor) \cup Permutations(Worker) \cup Permutations(Token)
=============================================================================
