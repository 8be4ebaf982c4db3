SPECIFICATION CacheSpec
CONSTANTS
  Keys = {k1, k2, k3, k4}
  Values = {v1, v2}
  Capacity = 3
INVARIANTS
  CacheTypeOK
  UsageMatchesMap
  WithinCapacity
  KeptAreMostRecent
  ValuesAreLatest
