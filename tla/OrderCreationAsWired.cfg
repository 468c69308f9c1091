\* The two data sources as the modules wire them: expected to fail.
SPECIFICATION FairSpec
CONSTANTS
  r1 = r1
  r2 = r2
  k1 = k1
  o1 = o1
  o2 = o2
  o3 = o3
  NoOrder = NoOrder
  Requests <- TwoRequests
  Keys <- OneKey
  OrderIds <- ThreeIds
  MaxRetries = 1
  MaxFaults = 0
  ReadBackSeesInsert = FALSE
PROPERTIES
  ClientsAreAnswered
