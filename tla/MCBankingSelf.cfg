SPECIFICATION Spec
CONSTANTS
  Accounts = {1, 2}
  Users = {"alice", "bob"}
  TxSessions = {s1}
  AccSessions = {}
  InitialOwner <- MCInitialOwner
  InitialBalance <- MCInitialBalance
  MaxBalance = 4
  None = None
  Requests <- SelfRequests
  AccRequests = {}
  Numbers = {"n1", "n2"}
INVARIANTS
  BalancesMatchEntries
