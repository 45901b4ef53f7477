SPECIFICATION Spec
CONSTANTS
  r1 = r1
  Requests = {r1}
  Costs <- MCCosts
  Grants <- MCGrants
  MaxTurns = 1
  OrphansAllowed = FALSE
INVARIANTS
  CorrectionPrevails
CHECK_DEADLOCK FALSE
