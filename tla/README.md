# TenderPulse in TLA+

TLA+ models of TenderPulse (`src/src/tenderpulse`), the TLC configurations that check
them on small instances, and TLAPS proofs of the theorems that matter most.

## 1. The system

TenderPulse takes procurement notices from the Russian public-procurement portal (EIS),
keeps every version of each of them, ranks them for company profiles and alerts about the
recommended ones.  Three kinds of processes share one PostgreSQL database and one object
store:

- the **API** (`api.py`): FastAPI with synchronous endpoints, that is a pool of threads, each
  request with a session of its own;
- the **worker** (`worker.py`): one loop — fetch and ingest, synchronize alerts, dispatch
  webhooks, wait — restarted by Docker when it dies;
- **init** (`cli.py`, `bootstrap.py`): migrations, backfill of the organization registry, demo
  seed, and out.

Nothing but the database coordinates them.  Sessions run at PostgreSQL's default isolation,
READ COMMITTED: each SELECT sees what is committed when it runs; an UPDATE of a row that
another transaction has written waits for it and then acts on what that one left; an insert
that collides in a unique index with an uncommitted one waits, with a committed one fails;
a cycle of waits is ended by aborting a transaction.  SQLAlchemy delays writes to the next
flush and writes UPDATEs before INSERTs.  That is where most hazards come from: state that
was read before a flush is used after it.

| Component | Code | State it keeps | Operations | What makes it correct |
|---|---|---|---|---|
| Ingestion coordinator | `ingestion.py`, `live_ingestion.py` | `ingestion_runs` | `ingest` (three transactions and a put), `record_fetch_failure`, `_mark_failed` | a payload is applied whole or not at all; no run is worked on for ever; raw before canonical |
| Raw object store | `raw_store.py` | objects by SHA-256; `raw_artifacts` | `put` | no row without its bytes |
| Canonical store | `persistence/repository.py`, `domain/history.py` | `procurement_records`, `procurement_versions` | `apply_records` | an ordered, gapless lineage per record; nothing committed is rewritten; no empty version |
| Organization registry | `domain/organizations.py`, `repository.py` | `organizations`, `organization_aliases`, links | `_sync_organizations`, backfill | each version has the links of all its names, to registered aliases |
| Company profiles | `profiles.py`, `repository.py`, `api.py` | `company_profiles` | POST, PUT, seed | exactly the latest version is active; what was acknowledged stays; conflicts are 409 |
| In-app alerts | `alerts.py`, `persistence/alert_repository.py` | `alert_events` | `sync_profile`, `sync_all`, `mark_read` | one alert per profile and record version, for what was recommended; none is missed |
| Webhook delivery | `alert_delivery.py` | `alert_delivery_attempts` | `dispatch_pending`, `_deliver` | stable key, bounded retries, an ordered and final history of attempts |
| Worker | `worker.py`, `runtime.py`, `live_ingestion.py` | none | `run_cycle`, `run_scheduled_loop`, the stop signal | the store catches up with the source and the alerts with the store; SIGTERM ends it |
| AI extraction | `ai/*`, `persistence/ai_repository.py` | `ai_extraction_attempts`, a cached token | `extract`, `_get_access_token` | attempts belong to the version they were made from; one validated answer is reused |
| Matching, geography | `domain/matching.py`, `domain/geography.py` | none | `rank`, `match`, `assess_geography` | precedence of expiry, blockers and uncertainty over the score |
| Outcomes, analytics, freshness | `outcomes.py`, `product_analytics.py`, `ingestion_repository.py` | none | `build_award_outcome`, `build_product_analytics`, `source_freshness` | no false totals; the numbers of a page agree |
| API pages | `api.py` | none | `dashboard`, `tender_detail`, `product_analytics`, `recommendations` | what one page shows is consistent, though it is read by a dozen SELECTs |
| Source adapters | `sources/*` | none | parsers, `http.py` | all the records of a payload, or a typed rejection |
| Rendering, migrations, marts | `web/`, `migrations/`, `analytics/` | the schema | templates, DDL, SQL | — |

How they interact: the coordinator calls the object store, the adapters' parsers and the
canonical store, which calls the organization registry, all in the caller's thread; the
worker calls the coordinator, then alerts, then the dispatcher; the dispatcher POSTs to an
external receiver; the AI service reads the canonical store and calls an external model;
every read endpoint projects the same tables.  Profiles and records reach alerts through the
database alone.

What is hard here: interleavings of statements of concurrent transactions; deadlocks; a
process that dies, a connection that is lost before or after a commit took effect; an
external call inside a transaction; a clock that does not move with the commits.
`PROJECT.json` lists each hazard at its line, with the properties that would catch it.

## 2. The modules

| Module | What it is | Abstract specification it implements |
|---|---|---|
| `VersionHistory` | `domain/history.py`, the executable specification of versioning | — |
| `Ingestion` | the coordinator over the object store, the canonical store and the registry | `VersionHistory` |
| `ProfileLog` | an append-only log of profile versions, with the acknowledged ones | — |
| `Profiles` | POST, PUT and seed over `company_profiles` | `ProfileLog` |
| `AlertInbox` | what in-app alerts promise | — |
| `AlertOutbox` | synchronizations of the API and the worker, `mark_read`, while profiles and records change | `AlertInbox` |
| `WebhookDelivery` | extends `AlertOutbox` by the dispatch half of the worker's transaction | — |
| `Extraction` | AI evidence requests of the API while the record changes | — |
| `Backfill` | extends `Ingestion` by init's backfill of a store that is older than the registry | — |
| `Matching` | `match` and `assess_geography` as operators | — |
| `Outcomes` | `build_award_outcome` as operators | — |
| `Dashboard` | extends `Matching` and `Outcomes`: the pages, SELECT by SELECT, while the world commits | — |
| `EisAdapters` | what the two EIS parsers make of a payload: records, a rejection, another exception | — |
| `WorkerCycle` | extends `EisAdapters`: the worker's loop over a feed, manual runs, uploads, death and SIGTERM | — |
| `TokenCache` | the token that the threads of the API share | — |
| `MC*` | instances for TLC | |
| `IngestionProofs`, `BackfillProofs` (which extends it), `ProfilesProofs`, `AlertProofs` (of `AlertOutbox` and `WebhookDelivery`), `ExtractionProofs`, `DashboardProofs` (also of `Matching` and `Outcomes`), `WorkerProofs` (also of `EisAdapters`), `TokenCacheProofs` | theorems and proofs | |

### Common conventions

Each actor (an ingester, a client, a syncer) has a program counter `pc`, local variables
`job`, and, where it writes row by row, its uncommitted rows (`tx`, `staged`).  A SELECT, a
flush, a commit, a call to the outside is a step.  Shared variables hold what is committed;
COMMIT publishes the staged rows.  `WaitsFor(p, q)` says that the statement p is at waits for
the transaction of q; `Granted` that it waits for nobody; `Deadlocked` that it is on a cycle
of waits, where `AbortDeadlock` may happen.  `Fail` is an exception: the transaction rolls
back and the handlers of the code take over.  Operators whose comment begins with "Mutant:"
are plausible bugs used to see that a property can fail; they are no part of any
specification.

Abstracted: the content of records is a fingerprint, that of profiles a payload, that of an
alert the record version it was made from; bytes, names, digests and ids are model values or
numbers; parameters, counters for reports and log lines are left out.

### `Ingestion`

`pc` follows `ingest`: `StartRun` (the transaction that inserts the run as running),
`PutRaw`, the artifact transaction (`SeekArtifact`, `SaveArtifact`), `Parse` with the clock
read for `finished_at`, the third transaction, and `MarkFailed` for whatever raised.  In the
third transaction `SeekRecord` and then `KeepVersion`, `SupersedeVersion` or `RefuseVersion`
are the two SELECTs of `_apply_record`, `WriteVersion` is its flush (`RejectWrite` when a
unique index refuses), and `SeekOrg`, `AddOrg`, `SeekAlias`, `AddAlias` are
`_sync_organizations` for one name.  Each of the three commits may take effect without its
answer: the first (`StartUnacknowledged`) lies outside the `try`, so that `ingest` raises and
leaves the run `running`; the second is a `StatementFails` at `parse`; the third
(`CommitUnacknowledged`) makes `_mark_failed` overwrite `succeeded`.  `_mark_failed` opens a
transaction of its own and may raise too (`MarkFails`).  `Crash` ends a process anywhere.  The UPDATEs are as blind as in the code: `Close` finds the
version it closes by id whatever it holds by then, and `current_version` is set to the value
read plus one.  What keeps the lineage in order is the unique indexes (`WriteCollides`) and
the row locks, which is why the properties are not true by construction.

### `Profiles`

One POST, PUT or seed is `seek`/`find`/`compare`/`select` (its SELECTs), `flush` (the UPDATEs
and INSERTs, which take the locks) and `commit`.  `reply` is the answer; `acked` remembers the
versions whose callers were told they are saved.

### `AlertOutbox` and `WebhookDelivery`

`ReadProfile`, `ReadRecords` (with the ranking, a constant `Rank`), then for each recommended
record `FindOpen` and `KeepAlert` or `MissAlert` (the two SELECTs of `add_recommendation`: the
version that is open now, and the key that is made from it), `AddAlert` or `AlertCollides` (its
flush).  An alert keeps two record versions: the one it is linked to
(`subject.rv`) and the one its payload was made from (`snap`).  The slugs of `sync_all` are
ordered, so what is left of them is a set of places in `SlugList`; `Foremost` is the next.

`WebhookDelivery` takes these actions as they are and lets the worker's commit wait for the
dispatch: `ListAlerts`, for each alert `SkipAlert` or `SendPost` and its `Answer`
or `NoAnswer`, then `CommitCycle`.  `AbortCycle` may happen at every point and takes back the
alerts and the attempts, not the requests: `posts` is what left the worker.  The instance of
`MCWebhookDelivery` counts the transactions that fail (`failures`), so that only finitely many do
and liveness is not vacuous.

### `Extraction`

A request (`extract_evidence` of `api.py`, then `AIExtractionService.extract`) takes a
connection of the pool with its first SELECT (`ReadContext`, `NotFound`, or `PoolTimeout`
where all are taken) and keeps it to its end.  `ReuseValidated` or `CallModel` is
`find_validated`; `ModelAnswers` is any answer, well-formed and quoting the fields that were
sent (validated) or not (rejected); `ModelFails` is what the client raises, its timeout
included; `AddAttempt` and `Commit` are the insert, whose `created_at` is read before the
commit.  The record may get a version (`NewVersion`) and others may ask at every point.
Input, hash, prompt and provider are determined by the version; a claim is the set of facts
it quotes, and `FactsOf` says what the fields of each version hold.

### `Backfill`

The store of `BackfillInit` holds a version that was written before migration 0004: the
registry is empty.  The process of init is one of the ingesters, because the demo seed
ingests.  `ReadVersions` is the SELECT of `backfill_organization_links`; for each version,
ordered by `valid_from`, `SyncVersion` begins `_sync_organizations`, whose statements are the
actions of `Ingestion` (`SyncName`), in init's transaction and with the same locks;
`CommitBackfill` and `FailBackfill` are the two ends of `factory.begin()`.  Other processes
ingest all the while: `docker-compose.yml` starts the services after init, but nothing keeps
an operator from running it beside them.

### `Matching`, `Outcomes` and `Dashboard`

A notice is what `match` sees of it: whether a classification matches, how many positive
keywords do, a negative one, the regions and the mode, and where the amounts lie.  Scores are
in twentieths.  `Geography` is the first rule of `assess_geography` that holds, `Decision` the
label with its precedence.  An award is a sequence of lots with an amount and a currency or
neither; `Sums` has the sum of the first n lots at each n.

A request of `Dashboard` follows `Plan(kind)`, the order of the reads of its handler.  Each
read is a SELECT (`ReadRecords`, `ReadLineages`, `ReadContext` and `ReadAttempts` for each
card, `ReadAwards`, `ReadHistory`, `ReadFreshness`) or a reading of the clock (`RankRecords`,
`Analyse`).  `World` is what other transactions commit in between: a run that succeeds with its versions
(`SucceedRun`) or is marked failed, perhaps after its commit (`FailRun`), an attempt for the
version its extraction read at the beginning (`Extract`), a profile.  Versions of records and
of the profile stand for their contents, given by constants.  A failed lookup (`KeyError`) or
the `ValueError` of `build_product_analytics` makes the page an error.

### `EisAdapters` and `WorkerCycle`

An entry of the feed, or an element of a package, is a record of flags: are the required texts
there, is the price missing, a number, refused by the model or malformed, is there a currency,
and so on: in the order of the checks, which differs between a notification and a contract.
`EntryOutcome`, `FeedOutcome`, `ElementOutcome`, `MemberOutcome` and
`PackageOutcome` say, in the order of the code's checks, whether all becomes records, a
`SourceContractError`, or another exception.

`WorkerCycle` is the process: `Start` (Docker), `LoopHead`, `ReadProfiles`, one of `Fetch`,
`FetchRaises`, `FetchRejected`, `FetchFails`, then `Ingest`, `SyncAlerts`, `Wait`.  What leaves
`run_cycle` as an exception ends the process (`off`), and it is started again.  The feed is
ordered by update date (`MovedToFront`) and cut to `Limit` (`Window`).  A manual run reads its page in one step
and stores it in a later one, so that it may store an older page than the worker; an upload
describes the same purchases in another form.  The transactions inside `Ingest` and
`SyncAlerts` are those of `Ingestion`, `AlertOutbox` and `WebhookDelivery`.

### `TokenCache`

`_access_token` and `_expires_at_ms` are read and written one at a time: `ReadClock`,
`ReadExpiry`, `ReadToken` are the parts of the test and the return, `StoreToken` and
`StoreExpiry` the two assignments.  A token stands for the instant at which it expires.
`Tick` waits for threads whose delay is over (`Due`), which is how the timeouts of the client
become bounds.  That is an idealization: the timeouts of httpx hold for each operation (connect,
pool, write, read), so that an answer that trickles in may take longer than the 30 seconds.

## 3. The runs

| Run | Instance | What it shows |
|---|---|---|
| `Ingestion` | 2 ingesters, 3 runs, 2 payloads with the same 2 records in opposite order, one with a name without letters, one the parser rejects | lineage, immutability, no empty version, atomic runs, raw before canonical, complete links, refinement of `VersionHistory` |
| `IngestionEnds` | `Backfill`: an old version, 2 processes of which one is init, 2 more runs, the order reversal with several names per record, two organizations, one in two spellings, a malformed payload; lost connections and acknowledgements, deaths | after a backfill every version has all its links; every run and every backfill ends or is abandoned, whatever order they lock organizations in |
| `Profiles` | a client and init (which may also be a client), 1 slug, 2 payloads, 3 versions | one active version, the latest; refinement of `ProfileLog`, which tells a lost or replaced version apart; every request is answered |
| `AlertOutbox` | API thread and worker, 1 profile, 2 records of 2 versions, the second of which reverses the ranking or ends the recommendation | one alert per subject, of something recommended; refinement of `AlertInbox` |
| `AlertVersions` | the same | **violated**: an alert is linked to version 2 and shows version 1 |
| `WebhookDelivery` | API thread and worker, 1 record of 2 versions, 2 attempts for each alert, one transaction that fails anywhere | attempts in order, settled is final; no recommendation is missed, and every alert settles |
| `WebhookKeys` | 2 records, rollback after a POST | **violated**: two keys for one subject |
| `Extraction` | 3 requests, 2 connections, a record of 2 versions that say different things, 3 attempts, 2 instants | a validated attempt is reused; evidence is supported by its version; every request is answered |
| `Dashboard` | one request at a time, 2 records of 2 versions (a purchase that changes, one that becomes an award), 2 runs, 2 versions of the profile, runs that are marked failed before or after their commit, all notices and companies of one region | no interleaving makes a page fail or contradict itself; labels and totals are monotone in what they should be |
| `WorkerCycle` | 3 purchases on pages of 2, 4 publications, 1 manual run or upload, 1 death | as long as at most 2 purchases change between two stored pages, none falls off the page before it is stored and the store catches up with the source; in any case the alerts catch up with the store and SIGTERM ends the worker |
| `WorkerPriceless` | 2 publications, nothing else fails | **violated**: an entry with a currency and no price keeps its whole page from ever being stored |
| `TokenCache` | 3 threads, a clock over two lives of a token | no chat arrives with a token that is over |

The three violations are findings: each contradicts a sentence of the repository's documents,
quoted in `PROJECT.json`.  The models show more divergences of the same kind, which have no
run of their own:

- a run stays `running` for ever, where `docs/ARCHITECTURE.md:71` says "Unexpected states fail
  loud: job получает terminal `failed` с typed reason", not only when its process dies
  (`Crash` of `Ingestion`), but also with the process alive: when the first commit of `ingest`
  took effect and its acknowledgement was lost (`StartUnacknowledged`), and when `_mark_failed`
  finds the database away as well (`MarkFails`).  `RunsEnd` names these runs: nobody works on
  them (`Abandoned`), and nothing takes them up;
- when the acknowledgement of the third commit of `ingest` is lost, `_mark_failed` overwrites
  `succeeded` and a `failed` run has current versions (`CommitUnacknowledged`, `MarkFailed`, and
  `FailRun` of `Dashboard`): the latest success of `source_freshness` is then before a run whose
  records are shown, which is why `FreshnessCoversPage` is about runs that still count as
  succeeded;
- the loser of a race between two POSTs or PUTs of a profile gets an `IntegrityError` from the
  flush (`RejectFlush`) and is answered 500, where `docs/ARCHITECTURE.md:86` says "4xx input,
  409 state, 502 dependency" and `tests/test_api.py:366` asserts 409 for a duplicate;
- of two extraction requests that both missed the cache the later may fail, and its attempt
  hides the validated one of the same version, where `docs/QUALITY.md:52` says "Current
  validated AI evidence replaces the extraction action with an explicit coverage/result
  state.";
- a rollback after a POST takes the attempt with it, so that an alert can be POSTed more than
  `max_attempts` times (`posts` of `WebhookDelivery` counts them).

**Bounds.**  Two concurrent actors are enough for every race listed: each
hazard is between a reader-writer and one other writer, and locks have one holder.  Two
records in opposite orders are the smallest deadlock.  Three runs let a third version be made
after a race of two, and `MaxTime` 2 lets two runs share a time and a third be later.  Two
versions of a profile are a creation and an update, a third is an update that races with one; two
payloads tell a version from another that took its place.  Two versions of a record let one
change between two SELECTs and reverse a ranking.  Two attempts are a retry and the limit; one
failure takes back a POST, an attempt or an alert (`MaxFailures`; the theorems allow any number).
Three requests on two connections are the smallest number that fills the pool and still has a
race between two that hold one; two instants order two attempts.  In
`Dashboard` two versions of each record and two runs let a record be created, changed and
changed in kind between any two SELECTs of a page; the clock has two instants, so that a
deadline can pass between the ranking and the analytics; requests do not write, so one at a
time is enough.  Its label properties compare with every company and notice of one region and
up to four keywords, one beyond the cap.  In `WorkerCycle` the third purchase pushes one off
the page, and nothing but the budget of publications bounds how many change.  In `IngestionEnds` init is not run again after a success; it may fail any number of
times.  In `TokenCache` delays of 2 and 1 stand for the client's two timeouts of 30
seconds and a margin of 3 for its 60: they add up to the margin, the limit of the assumption.  Bounds appear only in guards of the
environment (`Tick`, `StartRun`, `SaveProfile`, `IngestRecord`, `NewVersion`,
`Ask`, `ReadVersions`, `SucceedRun`, `Publish`, `ManualFetch`, `Upload`, `Die`), in
`failures` of `MCWebhookDelivery`, and in the range of the versions a request may name.

**Types.**  `TypeOK` is a property of the run `Ingestion`; in every other module but
`AlertInbox`, `ProfileLog` and `VersionHistory` the types are part of the proved invariant (in
`WorkerCycle` of one that presumes `FewPublished`).

**Deadlock** of the model is checked in every run but the two of `WorkerCycle`: where nothing
is left to do an instance stutters explicitly (`Exhausted`), everywhere else somebody can
always go on.  The worker may be stopped for good, which is the end of the story.

**Fairness.**  Weak fairness of an actor's work: a thread that can take its next step takes
it — statements, HTTP requests and model calls have timeouts or end.  `AbortDeadlock` is part
of the work because PostgreSQL detects deadlocks after `deadlock_timeout`.  Beginning a run or
a request is never fair.  The worker's next cycle is (`run_scheduled_loop`, and the restart
policy of `docker-compose.yml`).  Strong fairness of `Flush` in `Profiles`: a statement that
waits for a lock is queued and woken, so it cannot be overtaken for ever.  So is the
strong fairness of the two inserts of `Backfill`, which may wait for an init that fails again
and again.  Failures are never fair.  Requests in `Profiles` and `Extraction` may be aborted, in
`IngestionEnds` connections and acknowledgements may be lost and processes may die, in
`WebhookDelivery` finitely many transactions fail, and the worker may die.  In `Extraction` the
model need not answer: `ModelAnswers` is not in the fair `Work`, `ModelFails` is, because the
client's timeout ends every call.  In `WebhookDelivery` reading an alert is left out, since no step
looks at the mark; that `SyncAll` is fair presumes cycles that get past the ingestion, which
`AlertsCatchUp` of `WorkerCycle` looks into; and with one record inserts collide there but cannot
deadlock, as they do in `AlertOutbox`.

The worker's fairness is `WF(Step)`: the process goes on, is restarted, and each of its calls
ends by a timeout.  Nothing makes the source answer well, so `StoreCatchesUp` and
`AlertsCatchUp` are conditional: *if* again and again the source answers with a page that can
be parsed (or fails in the way the cycle catches), *then* in the end the store, or the alerts,
are up to date.  `StaysInReach` and `StoreCatchesUp` are conditional on `FewPublished` too: that at
most `Limit` purchases change between two pages that the worker stores, within the days the query
looks back.  No code can guarantee it, and none notices when it does not hold: beyond the cut a
purchase is lost until it changes again, which `docs/README.md:61` (no promise of completeness)
allows.  A purchase that was written by hand after the worker's page, in an older or an uploaded
form, and is off the page since keeps that form (`touched`); on the page the next cycle puts
it right.

## 4. The theorems

For every value of the constants that the named assumptions admit, by TLAPS:

| Module | Theorem | States |
|---|---|---|
| `IngestionProofs` | `TypeCorrect`, `LineageHolds`, `NoEmptyVersionHolds`, `VersionsStay` | `Spec => []TypeOK`, `[]Lineage`, `[]NoEmptyVersion`, `VersionsAreImmutable` |
| | `RawFirst`, `RunsWhole`, `LinksComplete`, `HistoryImplemented` | `Spec => []RawBeforeCanonical`, `[]RunsAreAtomic`, `[]LinksAreComplete`, `ImplementsHistory` |
| `BackfillProofs` | `HistoryLinked`, `BackfillKeepsStore` | `BackfillSpec => []HistoryIsLinked`, `[](BackfillTypeOK /\ Lineage /\ RawBeforeCanonical)` |
| | `BackfillKeepsHistory` | `BackfillSpec => VersionsAreImmutable`, and each of its steps is one of `VersionHistory` or a stutter |
| `ProfilesProofs` | `ProfilesTyped`, `ActiveIsLatestHolds`, `LogImplemented` | `Spec => []TypeOK`, `[]ActiveIsLatest`, `ImplementsLog` |
| `AlertProofs` | `SubjectsUnique`, `AlertsJustified`, `InboxImplemented` | `Spec => []OnePerSubject`, `[]AlertsAreJustified`, `ImplementsInbox` |
| | `AttemptsOrdered`, `SettledFinal` | `WebhookSpec => []AttemptsInOrder`, `SettledIsFinal` |
| | `DispatchKeepsInbox` | `WebhookSpec => [](OnePerSubject /\ AlertsAreJustified) /\ ImplementsInbox` |
| `ExtractionProofs` | `ExtractionTyped`, `EvidenceHolds`, `CacheHolds` | `Spec => []TypeOK`, `[]EvidenceIsSupported`, `[]CacheIsHonoured` |
| `DashboardProofs` | `WiderReachMonotone`, `EvidenceMonotone`, `RecommendedFits` | what the labels depend on, of the operators of `Matching`, for any regions and any number of keywords |
| | `PagesAnswer`, `HistoryBacks`, `CountsHold`, `AheadHolds`, `EvidenceHolds`, `FreshnessHolds` | `Spec => []NoPageFails`, `[]HistoryBacksPage`, `[]CountsAddUp`, `[]AheadIsNotExpired`, `[]EvidenceIsNotOlder`, `[]FreshnessCoversPage` |
| | `RecommendationsFit`, `WiderReachHolds`, `EvidenceNeverHurtsHolds`, `TotalsHold` | `Spec => []RecommendedIsCertain`, `[]WiderReachNeverHurts`, `[]EvidenceNeverHurts`, `[]TotalsAreWhole` |
| `WorkerProofs` | `FeedKeysDistinct`, `PackageKeysDistinct` | the records of a payload that is parsed have distinct keys, for any feed, limit and package |
| | `NothingFallsOff` | `Spec => StaysInReach`, that is `[]FewPublished => []InReach` |
| `TokenCacheProofs` | `TokenLive`, `ExpiryNear` | `Spec => []TokenIsLive`, `[]ExpiryIsNear` |

Each inductive invariant was checked by TLC on the instance of a run before it was proved.

**`IngestionProofs`.**  `Lineage` is not inductive: that a commit keeps it depends on what the
committing transaction has staged, and that on who held which lock since.  The inductive
invariant adds that no two transactions have staged the same record, that a staged version is
the successor of the current one and closes it, starts later and differs from it, and that
what was read (`seen`, `closes`) was at most the current version when it was read.  The
indexes are what turns a stale read into a failure: the flush of a version that is not the
successor of the current one collides.

The second half of the module adds three layers to that invariant, and a refinement.

- `RawInv`: a run has one owner while it is worked on (`OneOwner`), is running until its owner
  is done with it, and what its owner applies was stored and recorded under that run before
  (`RawOK`); so every version can be traced (`Traced`) to a run that has ended and to bytes that
  exist.
- `CoverInv`: each record that the owner is past is staged, or was found to be the open
  version (`CoverOK`).  The latter may have been closed since, but versions are never removed,
  which is why the property asks that the record is *in* the lineage and no more.
- `LinkInv`: a staged version has the links of the names it is past, and of no others
  (`Linked`, `NamesDone`); an alias or an organization that a link names is committed or staged
  by the same transaction (`RegistryOK`), because a transaction waits for the one that has
  staged it, and the two commit in one piece; and what the catalog refers to is there
  (`CatalogOK`).  It says nothing of versions that nobody has in hand, so that `Backfill`,
  where old versions have no links, can use it; that every version of `Ingestion` has all its
  links is proved from it.
- `HistoryImplemented`: a commit is one `Apply` whose batch are the records it has staged.  What
  it does to the list of a record is `After`: the version is appended and the one before it
  closed at the same instant (`PublishHistory`), and `Accepts` holds because the invariant
  makes a staged version start later than the open one.  Every other step leaves all the
  lists alone.

**`BackfillProofs`.**  Init that has not backfilled is no ingester: it applies records of
versions that are in the store already, so `LinkInv` does not hold of it.  Hence the second
instance `Others` of `IngestionProofs`, in which init is idle with an empty transaction as long
as it has not backfilled (`OthersPc`, `OthersJob`, `OthersTx`).  A step of anybody else is a step
of `Ingestion` there (`OthersMove`, `OthersGranted`: without init they wait for fewer); the
commit of init only adds to the catalog.  The inductive invariant (`FillInv`) is
`Others!LinkInv` with what init is at: where it stands in the version at hand (`AtName`), that
what it has staged refers to what is there or staged too (`StagedLinksOK`), and that each
version has all its links or, before init is done, is still to do, in hand with the links of
the names that are past, or staged whole (`LinkedOrOld`, `InHand`).  A version that is closed meanwhile is the
same version (`Continues`), which is why links are stated of numbers and not of rows.
`BackfillKeepsHistory` follows because init stages no version.

**`ProfilesProofs`.**  `ActiveIsLatest` needs what a request read (`ReadsOK`), what it has
flushed and not committed (`StagedOK`), and that one transaction at most has flushed a slug
(`OneWriter`).  From the same invariant follows the refinement: each commit appends the next
version, every other step stutters.

**`AlertProofs`.**  `OnePerSubject` says nothing of uncommitted rows.  `NoClash` does: no two
alerts, committed or staged, of one syncer or of two, have an id or a subject in common.  An
insert keeps it for four different reasons, one for each kind of other row (`AddAlertStep`):
its subject was not committed; nobody else holds it back (`Granted`, the wait of the unique
index); the syncer has not staged it itself, which it saw when it looked for the key
(`JobOK`, of the step `insert`); and the id is fresh (`FreshId`, for any finite set of ids in
use).  `AlertsAreJustified` needs that whatever is left of the ranking was recommended for the version
of the profile at hand (`Justified`), though profile and records change meanwhile (`JobSame`).
The steps are proved for
any fresh id, so that the invariant serves `WebhookSpec` too, whose ids also avoid those the
receiver has seen.  A commit is `Deliver` of `AlertInbox`, `mark_read` is `Read`, all else
stutters.  `DispatchKeepsInbox` is the same of `WebhookSpec`: the dispatch touches attempts
alone, and a commit that was put off, or taken back, is one `Deliver` or none.

For the webhook `AttemptsInOrder` of the committed attempts is not enough, because the worker
counts what it sees in its own transaction: `HistoriesOK` says the same of the attempts
together with the uncommitted ones (`Tried`), and that no two have one number.  A new attempt
is the next of a history all of whose attempts have failed and may be repeated
(`PendingFacts`), which is also why `SettledIsFinal` holds.  An answer changes the one attempt
that is started (`StartedOK`) and no number (`CountByNumber`).  The worker does nothing else
while it dispatches (`WorkerDispatches`), so what it has listed stays in its transaction
(`ListedOK`): the committed attempts are of committed alerts.

**`ExtractionProofs`.**  `EvidenceIsSupported` speaks of stored attempts; the invariant adds the
outcomes that are still to be recorded (`SupportedRow`) and that a request past its context has
a version (`HasVersion`).  `CacheIsHonoured` rests on attempts never being removed
(`AttemptsStay`): what was known when a request came is known when it looks (`KnownStays`).

**`DashboardProofs`** begins with the operators.  A rank of the six geography labels
(`RankOfGeography`): a wider reach never lowers it (`RankWidens`), and the label of a notice is
monotone in the rank (`WorthAtMonotone`, `DecisionByRank`); the rest is arithmetic of the capped
contributions.  The total of an award is the last of the sums of its first lots (`Sums`): that
there are such sums, and that those of a longer list agree, is an induction over the lots, made
with the least place where it would fail (`LeastOf`), since the least number of a set exists.

Of the pages, `PagesInv` says what each read of a page bounds, as long as it is past
(`Past`): the versions that were read are at most those committed now, a lineage that is read
later is at least as long as what the card shows, evidence that is read later is of no older
version, and a label is what `match` said at some instant not after now (`Matched`).  Which read
comes later is the order of the SELECTs in the handlers (`Plan`, `Before`, lemma `Order`);
swapping two of them would break the proof, as it breaks the runs of the mutants.  Steps of
other transactions keep all of it because nothing committed is taken back (`Onward`).
`FreshnessCoversPage` adds that a version was written by a run that has ended (`WorldOK`) and
that a failed run never succeeds afterwards (`Onward`): a writer that counts as a success now
did when the latest success was read, which was last.

**`WorkerProofs`.**  What a parser gives as records has distinct keys: `FirstBad` found nothing,
so that no entry was refused as seen before, and as many keys as elements means one each.
`StaysInReach` says nothing of the order of the feed, on which it rests.  The inductive
invariant (`ReachInv`) says that what was published since the worker's last page is exactly the
first `n` of the feed for some `n` up to the limit (`RecentFirst`), that every other purchase is
stored or was written by hand (`OthersStored`), and, while a page waits to be stored, that what
it has not read of them comes first as well (`UnreadFirst`), because it was published after.
Moving a purchase to the front keeps the first ones first (`FirstMoved`), and a list without
repetition has as many first purchases as places (`FirstCount`), which turns the assumption on
the number of publications (`FewPublished`) into a bound on places.

**`TokenCacheProofs`.**  `TokenIsLive` follows from what a thread knows at each step: the delay
it is in bounds how old its reading of the clock is (`DelaysHold`), and the token it is about
to read outlasts the sending (`ReadIsLive`).  The comparison is made with the cached *expiry*,
and the token that is read after it may be another's: what saves it is that the expiry exceeds
that of the cached token by the delay of one answer at most (`ExpiryIsNear`), also for an
assignment that is still to come (`StoredIsNear`), and that the margin covers both delays
(`TokenAssumption`).

**Assumptions**: the named ASSUMEs of the modules; TLC evaluates them in every run.  That
records and syncers are finitely many (`AlertAssumption`, `DashboardAssumption`) is what lets a
highest ranked record, or an unused id, exist.

Records of a payload are taken to have distinct keys in `Ingestion` (`DistinctKeysAssumption`):
`FeedKeysDistinct` and `PackageKeysDistinct` prove it of the two parsers.  An unknown amount is no
number (`OutcomesAssumption`), as `None` is not.

**Only model-checked**: liveness, which needs ENABLED and is out of reach of the prover
(`RunsEnd`, `BackfillEnds`, `RequestsEnd` of `Profiles` and of `Extraction`, `EveryAlertSettles`,
`NothingMissed`, `StoreCatchesUp`, `AlertsCatchUp`, `StopEnds`).  Every safety property of the
runs that pass is a theorem.

## 5. The plan

Done: all the modules of section 2, their runs, and the theorems of section 4.

To model, where it adds something: the sums of the analytics, the list of alerts on a page.

## 6. Not modelled

Parsing of XML and ZIP beyond the outcome that `EisAdapters` gives: the texts, the paths and
sizes of members and the limit of 500 records of a package; an element has one lot.  TLS,
certificates and credentials.  Rendering, sorting and texts of the pages, the browser's script,
the list of alerts on the dashboard, and the sums of `build_product_analytics` by category,
region, buyer and budget, which are counts over what was read.  `upload_eis_package` is a
coroutine that runs a synchronous ingestion and blocks the event loop of the API meanwhile; the
event loop is not modelled.  Migrations as programs (their indexes are in the models) and the
dbt marts.  The TED and USAspending adapters, whose sources the product no longer ingests, and
the HTTP client's calls for them.  Reports and log lines.

A token that the server revokes before its expiry stays in the cache until then: `Chat` changes
nothing whatever the answer, as in the code.  The server's clock and the client's are taken to
be one.

Nothing here says that PostgreSQL, SQLAlchemy or the object store do what their documentation
says: the models assume it.
