----------------------------- MODULE MCSessions -----------------------------
(* Sessions of an account used by two clients at a time. *)
EXTENDS Sessions, TLC

MCSymmetry == Permutations(Clients) \cup Permutations(Passwords)
=============================================================================
