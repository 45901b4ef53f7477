SPECIFICATION FairSpec
CONSTANTS
  ga = ga
  gb = gb
  codeA = codeA
  codeB = codeB
  sg = sg
  k1 = k1
  Everyone = Everyone
  Gateways = {ga, gb}
  GatewayOf <- MCGatewayOf
  RegionOf <- MCRegionOf
  Notices <- MCNotices
  Keys = {k1}
  Limit = 2
  MaxEvents = 2
  MaxFaults = 1
INVARIANTS
  TypeOK
  NothingPassedUnhandled
  StaleOnlyIfLate
PROPERTIES
  InvalidationDelivers
  ExpiryRepairs
CHECK_DEADLOCK FALSE
