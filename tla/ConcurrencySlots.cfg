SPECIFICATION FairSpec
CONSTANTS
  s1 = s1
  s2 = s2
  r1 = r1
  r2 = r2
  r3 = r3
  Servers = {s1, s2}
  Requests = {r1, r2, r3}
  ServerOf <- MCServerOf
  Max = 1
  MaxWait = 2
  MaxFaults = 1
INVARIANTS
  TypeOK
  RunningWithinLimit
  SlotsAccountedFor
  WaitersCounted
PROPERTIES
  SlotsComeBack
  QuietRepairsCounter
CHECK_DEADLOCK FALSE
