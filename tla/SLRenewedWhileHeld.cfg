SPECIFICATION Spec
CONSTANTS
  c1 = c1
  c2 = c2
  c3 = c3
  c4 = c4
  o1 = o1
  o2 = o2
  o3 = o3
  o4 = o4
  x = x
  y = y
  Calls = {c1, c2, c3, c4}
  Operations = {o1, o2, o3}
  PrintOf <- MCPrintOf
  Lease = 2
  TTL = 3
  Backoff = 1
  MaxTime = 5
  MaxFaults = 0
SYMMETRY Symmetry
INVARIANTS
  RenewedWhileHeld
CHECK_DEADLOCK FALSE
