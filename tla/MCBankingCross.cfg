SPECIFICATION Spec
CONSTANTS
  Accounts = {1, 2}
  Users = {"alice", "bob"}
  TxSessions = {s1, s2}
  AccSessions = {}
  InitialOwner <- MCInitialOwner
  InitialBalance <- MCInitialBalance
  MaxBalance = 2
  None = None
  Requests <- CrossRequests
  AccRequests = {}
  Numbers = {"n1", "n2"}
SYMMETRY SessionSymmetry
INVARIANTS
  BalancesMatchEntries
  AtMostOncePerKey
  CacheNamesCommitted
  OutsideSeesCommitted
  NoCircularWait
  BalancesInRange
PROPERTIES
  ImplementsLedger
