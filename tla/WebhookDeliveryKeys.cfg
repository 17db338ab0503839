\* An API thread and the worker; two records of one version; one transaction fails.
CONSTANTS
  s1 = s1  k1 = k1  k2 = k2  w = w  a1 = a1
  Syncers = {a1, w}
  Worker = w
  SlugList <- OneSlug
  Keys = {k1, k2}
  MaxProfile = 1
  MaxRecord = 1
  Rank <- Everything
  MaxAttempts = 2
  MaxFailures = 1
SPECIFICATION MCSpec
INVARIANT KeysAreStable
