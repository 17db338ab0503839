\* An API thread and the worker; two records, one profile.
CONSTANTS
  s1 = s1  k1 = k1  k2 = k2  w = w  a1 = a1
  Syncers = {a1, w}
  Worker = w
  SlugList <- OneSlug
  Keys = {k1, k2}
  MaxProfile = 1
  MaxRecord = 2
  Rank <- Ranked
SPECIFICATION Spec
INVARIANTS OnePerSubject AlertsAreJustified
PROPERTIES ImplementsInbox
