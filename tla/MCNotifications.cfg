SPECIFICATION FairSpec
CONSTANTS
  t1 = t1
  t2 = t2
  p1 = p1
  p2 = p2
  r1 = r1
  r2 = r2
  Replicas = {r1, r2}
  Partitions = {p1, p2}
  Transactions = {t1, t2}
  PartitionOf <- MCPartitionOf
  MaxHistory = 1
  MaxFailures = 2
  MaxRestarts = 1
  None = None
CHECK_DEADLOCK FALSE
INVARIANTS
  TypeOK
  CommittedIsNotified
  NotifiedInOrder
  RestartsRepeatNothing
PROPERTY EveryEventNotified
