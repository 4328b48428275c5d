----------------------------- MODULE MCAccounts -----------------------------
(* Accounts with a window of two seconds and a clock of thirds of a second. *)
EXTENDS Accounts, TLC

MCSymmetry == Permutations(Clients)
=============================================================================
