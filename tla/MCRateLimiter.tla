--------------------------- MODULE MCRateLimiter ---------------------------
(***************************************************************************)
(* RateLimiter on small instances.                                         *)
(***************************************************************************)
EXTENDS RateLimiter, TLC

\* Requests are interchangeable.
Interchangeable == Permutations(Requests)
=============================================================================
