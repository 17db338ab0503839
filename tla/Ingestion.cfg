\* Two ingesters, two records, two payloads with both in opposite order, one with
\* one, one with a name that cannot be normalized, one that is rejected.
CONSTANTS
  p1 = p1  p2 = p2  r1 = r1  r2 = r2  r3 = r3
  d1 = d1  d2 = d2  d3 = d3  d4 = d4  d5 = d5  k1 = k1  k2 = k2
  f1 = f1  f2 = f2  f3 = f3  a1 = a1  a2 = a2  a3 = a3  o1 = o1
  NoOrg = NoOrg  NoRun = NoRun  NoDoc = NoDoc  NoTime = NoTime
  Ingesters = {p1, p2}
  RunIds = {r1, r2, r3}
  Docs = {d1, d2, d3, d4, d5}
  BadDocs = {d5}
  Keys = {k1, k2}
  Prints = {f1, f2, f3}
  Aliases = {a1, a2, a3}
  Orgs = {o1}
  OrgOf <- Organization
  RecordsOf <- TwoRecords
  MaxTime = 2
SPECIFICATION MCSpec
SYMMETRY Symmetry
INVARIANTS TypeOK Lineage NoEmptyVersion RunsAreAtomic RawBeforeCanonical LinksAreComplete
PROPERTIES VersionsAreImmutable ImplementsHistory
