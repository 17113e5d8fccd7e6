SPECIFICATION FairSpec
CONSTANTS
  h1 = h1
  h2 = h2
  Handlers = {h1, h2}
  Users = {"alice", "bob"}
  Requests <- MCRequests
  MaxConnections = 1
  MaxRedirects = 1
  None = None
INVARIANTS
  TypeOK
  RefusedHasNoEffect
  IdentityFromToken
PROPERTY EveryRequestAnswered
