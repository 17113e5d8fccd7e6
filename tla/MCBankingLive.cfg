SPECIFICATION FairSpec
CONSTANTS
  Accounts = {1, 2}
  Users = {"alice", "bob"}
  TxSessions = {s1, s2}
  AccSessions = {}
  InitialOwner <- MCInitialOwner
  InitialBalance <- MCInitialBalance
  MaxBalance = 2
  None = None
  Requests <- FairRequests
  AccRequests = {}
  Numbers = {"n1", "n2"}
PROPERTIES
  EveryRequestEnds
