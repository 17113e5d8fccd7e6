----------------------------- MODULE MCGateway -----------------------------
(* The proxy on a small instance: two requests and one connection.           *)
EXTENDS Gateway, TLC

CONSTANTS h1, h2

Bearing(token, sub, claimed) == [token |-> token, sub |-> sub, claimed |-> claimed]

\* No token; one that has expired; one without a user; alice with her own, and
\* alice with her own and a header that says bob.
MCRequests ==
  {Bearing("none", None, "alice"), Bearing("invalid", "alice", None), Bearing("valid", None, None),
   Bearing("valid", "alice", None), Bearing("valid", "alice", "bob")}
=============================================================================
