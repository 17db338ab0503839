\* A store with one old version; processes may die; a rejected payload. No
\* symmetry, since properties are temporal.
CONSTANTS
  p1 = p1  p2 = p2  r0 = r0  r1 = r1  r2 = r2
  d0 = d0  d1 = d1  d2 = d2  d3 = d3  k1 = k1  k2 = k2
  f1 = f1  f2 = f2  f3 = f3  a1 = a1  a2 = a2  b1 = b1  o1 = o1  o2 = o2
  NoOrg = NoOrg  NoRun = NoRun  NoDoc = NoDoc  NoTime = NoTime
  Ingesters = {p1, p2}
  Filler = p2
  OldRun = r0
  OldDoc = d0
  RunIds = {r0, r1, r2}
  Docs = {d0, d1, d2, d3}
  BadDocs = {d3}
  Keys = {k1, k2}
  Prints = {f1, f2, f3}
  Aliases = {a1, a2, b1}
  Orgs = {o1, o2}
  OrgOf <- Organization
  RecordsOf <- Names
  MaxTime = 1
SPECIFICATION MCBackfillSpec
INVARIANTS HistoryIsLinked
PROPERTIES RunsEnd BackfillEnds
