SPECIFICATION Spec
CONSTANTS
  r1 = r1
  r2 = r2
  Requests = {r1, r2}
  Costs <- MCCosts
  Grants <- MCGrants
  MaxTurns = 1
  OrphansAllowed = TRUE
SYMMETRY Symmetry
INVARIANTS
  TypeOK
  ReservedExact
  SpentExact
  ChargeIsLatestReport
  RefundIsFree
PROPERTIES
  SettlementIsFinal
CHECK_DEADLOCK FALSE
