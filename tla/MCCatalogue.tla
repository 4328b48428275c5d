---------------------------- MODULE MCCatalogue ----------------------------
(* Catalogue with three requests, which overlap in every way. *)
EXTENDS Catalogue

MCLifetimes == {1, Never}
=============================================================================
