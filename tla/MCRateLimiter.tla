--------------------------- MODULE MCRateLimiter ---------------------------
(* RateLimiter with two gateway tasks and a window of four ticks. *)
EXTENDS RateLimiter, TLC

MCSymmetry == Permutations(Procs)
=============================================================================
