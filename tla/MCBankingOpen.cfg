SPECIFICATION Spec
CONSTANTS
  Accounts = {1, 2}
  Users = {"alice", "bob"}
  TxSessions = {s1}
  AccSessions = {w1, w2}
  InitialOwner <- OpenOwner
  InitialBalance <- OpenBalance
  MaxBalance = 2
  None = None
  Requests <- OpenMoney
  AccRequests <- OpenRequests
  Numbers = {"n1", "n2"}
SYMMETRY WorkerSymmetry
INVARIANTS
  TypeOK
  LockedRowsCurrent
  AccountNumbersUnique
PROPERTIES
  FrozenMoneyStill
  ImplementsLedger
