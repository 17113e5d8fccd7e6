--------------------------- MODULE MCRateLimiter ---------------------------
(* The rate limiter on a small instance: a window of four ticks, two seconds *)
(* long, and two requests under way on two replicas.                         *)
EXTENDS RateLimiter, TLC

CONSTANTS h1, h2, g1, g2

TwoReplicas == h1 :> g1 @@ h2 :> g2
=============================================================================
