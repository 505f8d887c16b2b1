----------------------------- MODULE MCRateLimiter -----------------------------
(***************************************************************************)
(* Finite instances of RateLimiter.                                        *)
(***************************************************************************)
EXTENDS RateLimiter, TLC

CONSTANTS c1, c2

\* A client is only its address: any two can be exchanged.
ClientSymmetry == Permutations({c1, c2})
=============================================================================
