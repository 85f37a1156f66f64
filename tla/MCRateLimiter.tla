--------------------------- MODULE MCRateLimiter ---------------------------
(* RateLimiter for TLC.  No symmetry: the run checks liveness.             *)
EXTENDS RateLimiter
=============================================================================
