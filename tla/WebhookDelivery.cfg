\* An API thread and the worker; one record of two versions; two attempts; one
\* transaction fails.
CONSTANTS
  s1 = s1  k1 = k1  k2 = k2  w = w  a1 = a1
  Syncers = {a1, w}
  Worker = w
  SlugList <- OneSlug
  Keys = {k1}
  MaxProfile = 1
  MaxRecord = 2
  Rank <- Everything
  MaxAttempts = 2
  MaxFailures = 1
SPECIFICATION MCSpec
INVARIANTS AttemptsInOrder
PROPERTIES SettledIsFinal EveryAlertSettles NothingMissed
