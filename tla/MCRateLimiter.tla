--------------------------- MODULE MCRateLimiter ---------------------------
(***************************************************************************)
(* RateLimiter with a burst of two, and two thirds of a token per tick.    *)
(***************************************************************************)
EXTENDS RateLimiter, TLC

CONSTANTS login, setup

Symmetry == Permutations(Bucket)
=============================================================================
