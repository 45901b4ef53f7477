SPECIFICATION FairSpec
CONSTANTS
  t1 = t1
  t2 = t2
  p1 = p1
  p2 = p2
  f1 = f1
  r1 = r1
  Transactions = {t1, t2}
  Pollers = {p1}
  Rebuilders = {f1}
  Requests = {r1}
  Limit = 1
  MaxChanges = 2
  MaxFaults = 1
INVARIANTS
  TypeOK
  OnlyConsumedRowsGo
  NothingForgotten
PROPERTIES
  OutboxDelivers
  FullRebuildRepairs
CHECK_DEADLOCK FALSE
