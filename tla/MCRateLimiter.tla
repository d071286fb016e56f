--------------------------- MODULE MCRateLimiter ----------------------------
(* A model-checking instance of RateLimiter: two clients in two shards. *)
EXTENDS RateLimiter, TLC

CONSTANTS c1, c2

TwoShards == c1 :> 1 @@ c2 :> 2
=============================================================================
