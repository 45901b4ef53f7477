SPECIFICATION FairSpec
CONSTANTS
  a = a
  b = b
  p1 = p1
  f1 = f1
  f2 = f2
  Records = {a}
  Accounts = {a}
  Buckets = {b}
  Layouts <- MCLayouts
  Pollers = {p1}
  Forcers = {f1, f2}
  MaxVersion = 2
  MaxFaults = 1
INVARIANTS
  TypeOK
  CachedMeansApplied
PROPERTIES
  PollingDelivers
  ExpiryRepairs
CHECK_DEADLOCK FALSE
