\* Three requests, two connections; a record of two versions.
CONSTANTS
  p1 = p1  p2 = p2  p3 = p3  x = x  y = y
  Requests = {p1, p2, p3}
  Facts = {x, y}
  FactsOf <- TwoVersions
  MaxVersion = 2
  MaxAttempts = 3
  MaxTime = 1
  PoolSize = 2
SPECIFICATION MCFairSpec
INVARIANTS CacheIsHonoured EvidenceIsSupported
PROPERTIES RequestsEnd
