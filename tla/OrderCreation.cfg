\* Two requests of clients that repeat them, under one transaction id.
SPECIFICATION FairSpec
CONSTANTS
  r1 = r1
  r2 = r2
  k1 = k1
  o1 = o1
  o2 = o2
  o3 = o3
  NoOrder = NoOrder
  Requests <- TwoRequests
  Keys <- OneKey
  OrderIds <- ThreeIds
  MaxRetries = 1
  MaxFaults = 3
  ReadBackSeesInsert = TRUE
INVARIANTS
  RowNamesTheOrder
PROPERTIES
  ImplementsContract
  PlacedOrdersAreTold
