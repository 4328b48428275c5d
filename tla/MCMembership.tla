---------------------------- MODULE MCMembership ----------------------------
(* Membership with two requests at a time. *)
EXTENDS Membership, TLC

MCSymmetry == Permutations(Users) \cup Permutations(Clients)
=============================================================================
