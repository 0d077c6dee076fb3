---------------------------- MODULE MCRateLimiter ----------------------------
(* Small instances of RateLimiter. *)
EXTENDS RateLimiter, TLC

CONSTANTS k1, k2

LimiterSymmetry == Permutations(Keys)

=============================================================================
