SPECIFICATION FairSpec
CONSTANTS
  a1 = a1
  a2 = a2
  w1 = w1
  w2 = w2
  r1 = r1
  u1 = u1
  Accounts = {a1, a2}
  Lists <- MCLists
  Writers = {w1, w2}
  Readers = {r1}
  Updaters = {u1}
  MaxVersion = 3
  MaxFaults = 1
INVARIANTS
  TypeOK
  ReaderKeepsItsSnapshot
PROPERTIES
  OldSnapshotsGo
  ImplementsRegister
CHECK_DEADLOCK FALSE
