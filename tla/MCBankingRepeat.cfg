SPECIFICATION Spec
CONSTANTS
  Accounts = {1, 2}
  Users = {"alice", "bob"}
  TxSessions = {s1}
  AccSessions = {}
  InitialOwner <- MCInitialOwner
  InitialBalance <- MCInitialBalance
  MaxBalance = 2
  None = None
  Requests <- WithdrawRequests
  AccRequests = {}
  Numbers = {"n1", "n2"}
INVARIANTS
  RepeatReturnsExisting
