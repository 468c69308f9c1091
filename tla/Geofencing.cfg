SPECIFICATION FairGeoSpec
CONSTANTS
  Fences = {f1, f2}
  Zones = {z1}
  Entities = {e1}
  Boundaries <- Polygons
  Stops <- Route
  Probes <- Coordinates
  CellSize = 2
  DwellTicks = 3
  MaxDistance = 5000
  Limit = 2
  NoFence = NoFence
  NoZone = NoZone
INVARIANTS
  LookupsAnswerLikeAScan
  SubscribersAgree
PROPERTY
  SilentEntitiesDwell
