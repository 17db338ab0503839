\* Two clients, one of them init, which may also POST and PUT; one slug, three
\* versions, two payloads to tell them apart.  No symmetry, since a property is temporal.
CONSTANTS
  c1 = c1  c2 = c2  s1 = s1  x1 = x1  x2 = x2
  Clients = {c1, c2}
  Seeders = {c2}
  Slugs = {s1}
  Payloads = {x1, x2}
  Demo <- DemoProfile
  MaxVersion = 3
SPECIFICATION FairSpec
INVARIANT ActiveIsLatest
PROPERTIES ImplementsLog RequestsEnd
