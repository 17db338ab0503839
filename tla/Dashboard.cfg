\* Two records, two runs, two versions of the profile; one request at a time.
CONSTANTS
  k1 = k1  k2 = k2  r1 = r1  rub = rub  usd = usd
  Regions = {r1}
  MaxKeywords = 4
  Keys = {k1, k2}
  MaxVersion = 2
  MaxProfile = 2
  MaxRuns = 2
  MaxClock = 1
  NoDeadline = NoDeadline
  Currencies = {rub, usd}
  Unknown = Unknown
  MaxAmount = 2
  MaxLots = 3
  Content <- Said
  CompanyOf <- Companies
SPECIFICATION Spec
INVARIANTS NoPageFails HistoryBacksPage CountsAddUp AheadIsNotExpired
INVARIANTS WiderReachNeverHurts EvidenceNeverHurts RecommendedIsCertain TotalsAreWhole
INVARIANTS EvidenceIsNotOlder FreshnessCoversPage
