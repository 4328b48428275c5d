------------------------------ MODULE MCOutbox ------------------------------
(* Outbox with two workers whose tasks make two calls of one row each. *)
EXTENDS Outbox
=============================================================================
