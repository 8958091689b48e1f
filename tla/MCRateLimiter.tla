--------------------------- MODULE MCRateLimiter ---------------------------
(* Two threads, two addresses, a bucket of one connection of two units.     *)
EXTENDS RateLimiter, TLC

MCSymmetry == Permutations(Threads) \cup Permutations(Addrs)
=============================================================================
