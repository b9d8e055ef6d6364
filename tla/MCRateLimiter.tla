--------------------------- MODULE MCRateLimiter ---------------------------
(* The limiter for model checking.  Clients share nothing, so one is enough; *)
(* the values are in Limiter.cfg.                                            *)
EXTENDS RateLimiter
=============================================================================
