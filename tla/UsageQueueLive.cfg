SPECIFICATION FairSpec
CONSTANTS
  e1 = e1
  e2 = e2
  g = g
  w1 = w1
  w2 = w2
  Events = {e1, e2}
  Garbage = {g}
  Workers = {w1, w2}
  BatchSize = 2
  MaxAttempts = 2
  StreamMaxLen = 10
  FaultKinds <- NoFaults
  MaxFaults = 0
PROPERTIES
  EventuallySettled
CHECK_DEADLOCK FALSE
