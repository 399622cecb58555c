---------------------------- MODULE MCRateLimiter ----------------------------
(* Instance for TLC: the handlers are interchangeable.                      *)
EXTENDS RateLimiter, TLC

Interchangeable == Permutations(Streams)
==============================================================================
