SPECIFICATION Spec
CONSTANTS
  e1 = e1
  e2 = e2
  g = g
  w1 = w1
  w2 = w2
  Events = {e1, e2}
  Garbage = {g}
  Workers = {w1, w2}
  BatchSize = 2
  MaxAttempts = 2
  StreamMaxLen = 2
  FaultKinds <- AllFaults
  MaxFaults = 1
SYMMETRY Symmetry
INVARIANTS
  TypeOK
  NoSilentLoss
  NothingStranded
PROPERTIES
  ImplementsDelivery
CHECK_DEADLOCK FALSE
