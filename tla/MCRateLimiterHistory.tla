------------------------ MODULE MCRateLimiterHistory ------------------------
(* TLC instance of RateLimiterHistory. *)
EXTENDS MCRateLimiter, RateLimiterHistory
=============================================================================
