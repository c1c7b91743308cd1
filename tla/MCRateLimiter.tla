--------------------------- MODULE MCRateLimiter ---------------------------
(* A small instance of RateLimiter: two tokens every three ticks. *)
EXTENDS RateLimiter, TLC

CallerSymmetry == Permutations(Callers)
=============================================================================
