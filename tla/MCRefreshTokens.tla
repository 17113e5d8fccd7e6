-------------------------- MODULE MCRefreshTokens --------------------------
(* Refresh tokens on a small instance: one user, two handlers, three tokens.  *)
EXTENDS RefreshTokens, TLC

CONSTANTS s1, s2

SessionSymmetry == Permutations(Sessions)
=============================================================================
