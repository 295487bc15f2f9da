--------------------------- MODULE MCRateLimiter ---------------------------
(* The instances of RateLimiter that TLC checks are given by their .cfg. *)
EXTENDS RateLimiter
=============================================================================
