----------------------------- MODULE MCRateLimiter -----------------------------
(* Instances of the rate limiter for TLC. *)
EXTENDS RateLimiter, TLC

Interchangeable == Permutations(Worker)
================================================================================
