----------------------------- MODULE Ingestion -----------------------------
(***************************************************************************)
(* The ingestion coordinator (ingestion.py) over the canonical procurement *)
(* store (persistence/repository.py), the raw object store (raw_store.py)  *)
(* and the organization registry the store keeps.                          *)
(*                                                                         *)
(* Ingesters are the concurrent callers of IngestionCoordinator.ingest:    *)
(* the worker's cycle, the API's run and upload endpoints and the seeding  *)
(* of init.  Each runs three transactions: insert the run row, record the  *)
(* raw artifact, apply the parsed records and close the run.  They share a *)
(* database at READ COMMITTED: a statement sees what is committed when it  *)
(* runs, a row that was written or inserted stays locked until its         *)
(* transaction ends, and a unique index makes the second inserter wait for *)
(* the first and then fail.                                                *)
(*                                                                         *)
(* A transaction's own writes are staged in tx[p] and become visible at    *)
(* commit.  The staged writes are also the locks: WaitsFor reads them.     *)
(***************************************************************************)
EXTENDS Integers, Sequences, FiniteSets

CONSTANTS Ingesters,  \* threads or processes that may ingest at the same time
          RunIds,     \* ids of ingestion runs (uuid4): bounds how many runs there are
          Docs,       \* raw payloads, each standing for its SHA-256
          BadDocs,    \* payloads the parser rejects with SourceContractError
          Keys,       \* natural keys of procurement records
          Prints,     \* canonical fingerprints
          Aliases,    \* organization names as displayed by the source
          Orgs,       \* normalized organization names
          NoOrg,      \* normalize_organization_name raises for such an alias
          OrgOf,      \* Aliases -> Orgs \cup {NoOrg}
          RecordsOf,  \* Docs -> the records the parser returns, in order
          NoRun, NoDoc, NoTime,  \* None
          MaxTime     \* bound: the last instant the clock shows

Times == 0..MaxTime

\* A parsed record, as far as the store tells records apart: the fingerprint
\* covers every field but observed_at and evidence.
Record == [key : Keys, print : Prints, names : Seq(Aliases)]

ASSUME IngestionAssumption ==
  /\ MaxTime \in Nat
  /\ NoTime \notin Nat
  /\ NoRun \notin RunIds
  /\ NoDoc \notin Docs
  /\ NoOrg \notin Orgs
  /\ BadDocs \subseteq Docs
  /\ OrgOf \in [Aliases -> Orgs \cup {NoOrg}]
  /\ RecordsOf \in [Docs -> Seq(Record)]

\* parse_eis_rss and parse_eis_package reject a payload that names a record
\* twice, so the records of one run have distinct keys.
ASSUME DistinctKeysAssumption ==
  \A d \in Docs : \A i, j \in DOMAIN RecordsOf[d] :
    RecordsOf[d][i].key = RecordsOf[d][j].key => i = j

VARIABLES
  runs,      \* ingestion_runs: status and raw_sha256
  objects,   \* the raw bytes in the object store
  artifacts, \* raw_artifacts
  current,   \* procurement_records: current_version, 0 where there is no row
  versions,  \* procurement_versions
  orgs,      \* organizations
  aliases,   \* organization_aliases
  links,     \* procurement_organization_links
  clock,
  pc, job,   \* where each ingester is, and its local variables
  tx         \* the uncommitted writes of each ingester's transaction

catalog == <<orgs, aliases, links>>
store == <<runs, artifacts, current, versions, catalog>>
vars == <<store, objects, clock, pc, job, tx>>

Row == [key : Keys, version : Nat, print : Prints, doc : Docs, run : RunIds,
        from : Times, to : Times \cup {NoTime}]

\* A staged version: the row to insert and the version it closes (0: none).
Write == [row : Row, closes : Nat]

Link == [key : Keys, version : Nat, ordinal : Nat, alias : Aliases]

Run == [status : {"unused", "running", "succeeded", "failed"}, doc : Docs \cup {NoDoc}]

\* What a transaction has flushed and not committed.
Transaction == [writes : SUBSET Write, orgs : SUBSET Orgs,
                aliases : SUBSET Aliases, links : SUBSET Link]

EmptyTx == [writes |-> {}, orgs |-> {}, aliases |-> {}, links |-> {}]

\* run, doc, at: the arguments; i, j: the record and the name at hand; seen:
\* the current_version that was read (for the artifact: 1 if there is a row);
\* closes: the version found current.
Job == [run : RunIds \cup {NoRun}, doc : Docs \cup {NoDoc}, at : Times,
        i : Nat, j : Nat, seen : Nat, closes : Nat]

IdleJob == [run |-> NoRun, doc |-> NoDoc, at |-> 0, i |-> 1, j |-> 1,
            seen |-> 0, closes |-> 0]

Steps == {"idle", "put", "seekArtifact", "saveArtifact", "parse", "seekRecord",
          "compare", "write", "seekOrg", "addOrg", "seekAlias", "addAlias",
          "commit", "failing"}

\* Steps inside the two transactions that follow the raw store.
InTransaction == Steps \ {"idle", "put", "parse", "failing"}

TypeOK ==
  /\ runs \in [RunIds -> Run]
  /\ objects \subseteq Docs /\ artifacts \subseteq Docs
  /\ current \in [Keys -> Nat]
  /\ versions \subseteq Row
  /\ orgs \subseteq Orgs /\ aliases \subseteq Aliases /\ links \subseteq Link
  /\ clock \in Times
  /\ pc \in [Ingesters -> Steps]
  /\ job \in [Ingesters -> Job]
  /\ tx \in [Ingesters -> Transaction]

Init ==
  /\ runs = [r \in RunIds |-> [status |-> "unused", doc |-> NoDoc]]
  /\ objects = {} /\ artifacts = {}
  /\ current = [k \in Keys |-> 0]
  /\ versions = {} /\ orgs = {} /\ aliases = {} /\ links = {}
  /\ clock = 0
  /\ pc = [p \in Ingesters |-> "idle"]
  /\ job = [p \in Ingesters |-> IdleJob]
  /\ tx = [p \in Ingesters |-> EmptyTx]

-----------------------------------------------------------------------------

Goto(p, step) == pc' = [pc EXCEPT ![p] = step]

\* Any exception inside ingest: the transaction rolls back, _mark_failed is next.
Fail(p) ==
  /\ Goto(p, "failing")
  /\ tx' = [tx EXCEPT ![p] = EmptyTx]
  /\ UNCHANGED <<store, objects, clock, job>>

\* ingest returned or raised, or its process died.
Leave(p) ==
  /\ Goto(p, "idle")
  /\ job' = [job EXCEPT ![p] = IdleJob]
  /\ tx' = [tx EXCEPT ![p] = EmptyTx]

Records(p) == RecordsOf[job[p].doc]
Rec(p) == Records(p)[job[p].i]
Name(p) == Rec(p).names[job[p].j]
RowsOf(k) == {v \in versions : v.key = k}
OpenRows(k) == {v \in RowsOf(k) : v.to = NoTime}
StagedKeys(p) == {w.row.key : w \in tx[p].writes}

\* A statement of p waits for q's transaction to end: it updates or inserts a
\* row q has written.  An insert that collides with a committed row waits for
\* nobody, it fails.
WaitsFor(p, q) ==
  /\ p # q
  /\ \/ /\ pc[p] = "write"
        /\ Rec(p).key \in StagedKeys(q)
        /\ job[p].seen = 0 => current[Rec(p).key] = 0
     \/ pc[p] = "addOrg" /\ OrgOf[Name(p)] \in tx[q].orgs
     \/ pc[p] = "addAlias" /\ Name(p) \in tx[q].aliases

Granted(p) == \A q \in Ingesters : ~WaitsFor(p, q)

\* p is on a cycle of transactions that wait for one another.  Every lock has
\* one holder, so a set in which everybody waits and is waited for is a union
\* of cycles.
Deadlocked(p) ==
  \E S \in SUBSET Ingesters :
    /\ p \in S
    /\ \A q \in S : (\E r \in S : WaitsFor(q, r)) /\ (\E r \in S : WaitsFor(r, q))

-----------------------------------------------------------------------------
(* The fetch and the first transaction. *)

\* The caller holds a payload; the run row is committed as running.
StartRun(p) ==
  /\ pc[p] = "idle"
  /\ \E r \in RunIds, d \in Docs :
       /\ runs[r].status = "unused"
       /\ runs' = [runs EXCEPT ![r].status = "running"]
       /\ job' = [job EXCEPT ![p] = [IdleJob EXCEPT !.run = r, !.doc = d]]
  /\ Goto(p, "put")
  /\ UNCHANGED <<artifacts, current, versions, catalog, objects, clock, tx>>

\* The first transaction is committed and its acknowledgement lost: ingest raises
\* before its try, and the run row stays as it is.
StartUnacknowledged(p) ==
  /\ pc[p] = "idle"
  /\ \E r \in RunIds :
       /\ runs[r].status = "unused"
       /\ runs' = [runs EXCEPT ![r].status = "running"]
  /\ UNCHANGED <<artifacts, current, versions, catalog, objects, clock, pc, job, tx>>

\* The source could not be fetched: a run that failed before it started.
RecordFetchFailure(p) ==
  /\ pc[p] = "idle"
  /\ \E r \in RunIds :
       /\ runs[r].status = "unused"
       /\ runs' = [runs EXCEPT ![r].status = "failed"]
  /\ UNCHANGED <<artifacts, current, versions, catalog, objects, clock, pc, job, tx>>

\* RawStore.put: the object is written unless it is there already.
PutRaw(p) ==
  /\ pc[p] = "put"
  /\ objects' = objects \cup {job[p].doc}
  /\ Goto(p, "seekArtifact")
  /\ UNCHANGED <<store, clock, job, tx>>

\* Mutant: the failure of the object store is swallowed.
PutRawFailureIgnored(p) ==
  /\ pc[p] = "put"
  /\ Goto(p, "seekArtifact")
  /\ UNCHANGED <<store, objects, clock, job, tx>>

\* The object store is unreachable, or holds a corrupt object.
PutRawFails(p) ==
  /\ pc[p] = "put"
  /\ Fail(p)

-----------------------------------------------------------------------------
(* The second transaction: the artifact row and the run's raw_sha256. *)

SeekArtifact(p) ==
  /\ pc[p] = "seekArtifact"
  /\ job' = [job EXCEPT ![p].seen = IF job[p].doc \in artifacts THEN 1 ELSE 0]
  /\ Goto(p, "saveArtifact")
  /\ UNCHANGED <<store, objects, clock, tx>>

SaveArtifact(p) ==
  /\ pc[p] = "saveArtifact"
  /\ job[p].seen = 0 => job[p].doc \notin artifacts
  /\ artifacts' = artifacts \cup {job[p].doc}
  /\ runs' = [runs EXCEPT ![job[p].run].doc = job[p].doc]
  /\ Goto(p, "parse")
  /\ UNCHANGED <<current, versions, catalog, objects, clock, job, tx>>

\* Somebody committed the same artifact in between: primary key violation.
ArtifactCollides(p) ==
  /\ pc[p] = "saveArtifact"
  /\ job[p].seen = 0 /\ job[p].doc \in artifacts
  /\ Fail(p)

-----------------------------------------------------------------------------
(* Parsing, outside any transaction; finished_at is read before the third. *)

\* Where apply_records goes once the first i records are done.
AfterRecords(p, i) == IF i = Len(Records(p)) THEN "commit" ELSE "seekRecord"

Parse(p) ==
  /\ pc[p] = "parse"
  /\ job[p].doc \notin BadDocs
  /\ job' = [job EXCEPT ![p].at = clock, ![p].i = 1]
  /\ Goto(p, AfterRecords(p, 0))
  /\ UNCHANGED <<store, objects, clock, tx>>

ParseFails(p) ==
  /\ pc[p] = "parse"
  /\ job[p].doc \in BadDocs
  /\ Fail(p)

-----------------------------------------------------------------------------
(* The third transaction: _apply_record for each record, then the run. *)

\* The record at hand is done; i moves to the next.
FinishRecord(p) ==
  /\ job' = [job EXCEPT ![p].i = @ + 1]
  /\ Goto(p, AfterRecords(p, job[p].i))

\* SELECT the record row.  Without one the record is CREATED.
SeekRecord(p) ==
  /\ pc[p] = "seekRecord"
  /\ LET cv == current[Rec(p).key] IN
     /\ job' = [job EXCEPT ![p].seen = cv, ![p].closes = 0]
     /\ Goto(p, IF cv = 0 THEN "write" ELSE "compare")
  /\ UNCHANGED <<store, objects, clock, tx>>

\* SELECT the open version: the fingerprint is the current one.
KeepVersion(p) ==
  /\ pc[p] = "compare"
  /\ \E v \in OpenRows(Rec(p).key) : v.print = Rec(p).print
  /\ FinishRecord(p)
  /\ UNCHANGED <<store, objects, clock, tx>>

\* Mutant: the fingerprints are not compared.
SupersedeUnchanged(p) ==
  /\ pc[p] = "compare"
  /\ \E v \in OpenRows(Rec(p).key) : /\ v.from < job[p].at
                                    /\ job' = [job EXCEPT ![p].closes = v.version]
  /\ Goto(p, "write")
  /\ UNCHANGED <<store, objects, clock, tx>>

\* Mutant: the times are not compared.
SupersedeAnytime(p) ==
  /\ pc[p] = "compare"
  /\ \E v \in OpenRows(Rec(p).key) : /\ v.print # Rec(p).print
                                    /\ job' = [job EXCEPT ![p].closes = v.version]
  /\ Goto(p, "write")
  /\ UNCHANGED <<store, objects, clock, tx>>

\* The fingerprint differs and finished_at is after the open version's start.
SupersedeVersion(p) ==
  /\ pc[p] = "compare"
  /\ \E v \in OpenRows(Rec(p).key) :
       /\ v.print # Rec(p).print
       /\ v.from < job[p].at
       /\ job' = [job EXCEPT ![p].closes = v.version]
  /\ Goto(p, "write")
  /\ UNCHANGED <<store, objects, clock, tx>>

\* "new version time must be strictly after the current version", or no open
\* version at all.
RefuseVersion(p) ==
  /\ pc[p] = "compare"
  /\ \A v \in OpenRows(Rec(p).key) : v.print # Rec(p).print /\ job[p].at <= v.from
  /\ Fail(p)

\* Mutant: no unique index on (record, version) nor on the open version.
WriteCollidesOnRecordOnly(p) == job[p].seen = 0 /\ current[Rec(p).key] # 0

\* The unique indexes on the record, on (record, version) and on the record's
\* open version reject what p is about to flush.
WriteCollides(p) ==
  LET k == Rec(p).key IN
  IF job[p].seen = 0 THEN current[k] # 0
  ELSE \E v \in RowsOf(k) : \/ v.version = job[p].seen + 1
                            \/ v.to = NoTime /\ v.version # job[p].closes

NewRow(p) == [key |-> Rec(p).key, version |-> job[p].seen + 1, print |-> Rec(p).print,
              doc |-> job[p].doc, run |-> job[p].run, from |-> job[p].at, to |-> NoTime]

\* After the version (j = 0) or the j-th name: _sync_organizations goes on.
NextName(p, j) ==
  IF j = Len(Rec(p).names) THEN FinishRecord(p)
  ELSE /\ job' = [job EXCEPT ![p].j = j + 1]
       /\ Goto(p, "seekOrg")

\* The flush: close the version that was read, set current_version to what was
\* read plus one, insert the new version.
WriteVersion(p) ==
  /\ pc[p] = "write"
  /\ Granted(p)
  /\ ~WriteCollides(p)
  /\ tx' = [tx EXCEPT ![p].writes =
              @ \cup {[row |-> NewRow(p), closes |-> job[p].closes]}]
  /\ NextName(p, 0)
  /\ UNCHANGED <<store, objects, clock>>

\* Mutant: a record that collides is skipped and the run goes on.
SkipCollision(p) ==
  /\ pc[p] = "write"
  /\ Granted(p)
  /\ WriteCollides(p)
  /\ FinishRecord(p)
  /\ UNCHANGED <<store, objects, clock, tx>>

RejectWrite(p) ==
  /\ pc[p] = "write"
  /\ Granted(p)
  /\ WriteCollides(p)
  /\ Fail(p)

-----------------------------------------------------------------------------
(* _sync_organizations: for each name SELECT or INSERT the organization, then *)
(* SELECT or INSERT the alias, then add the link.                             *)

\* The registry as p's transaction sees it.
SeenOrgs(p) == orgs \cup tx[p].orgs
SeenAliases(p) == aliases \cup tx[p].aliases

SeekOrg(p) ==
  /\ pc[p] = "seekOrg"
  /\ OrgOf[Name(p)] # NoOrg
  /\ Goto(p, IF OrgOf[Name(p)] \in SeenOrgs(p) THEN "seekAlias" ELSE "addOrg")
  /\ UNCHANGED <<store, objects, clock, job, tx>>

\* "organization name has no letters or numbers"
RefuseName(p) ==
  /\ pc[p] = "seekOrg"
  /\ OrgOf[Name(p)] = NoOrg
  /\ Fail(p)

AddOrg(p) ==
  /\ pc[p] = "addOrg"
  /\ Granted(p)
  /\ OrgOf[Name(p)] \notin orgs
  /\ tx' = [tx EXCEPT ![p].orgs = @ \cup {OrgOf[Name(p)]}]
  /\ Goto(p, "seekAlias")
  /\ UNCHANGED <<store, objects, clock, job>>

\* Somebody committed the same organization in between.
OrgCollides(p) ==
  /\ pc[p] = "addOrg"
  /\ OrgOf[Name(p)] \in orgs
  /\ Fail(p)

\* Mutant: the link is added without registering the alias.
AddLinkOnly(p) ==
  /\ tx' = [tx EXCEPT ![p].links =
              @ \cup {[key |-> Rec(p).key, version |-> job[p].seen + 1,
                       ordinal |-> job[p].j, alias |-> Name(p)]}]
  /\ NextName(p, job[p].j)

AddLink(p) ==
  /\ tx' = [tx EXCEPT ![p].links =
              @ \cup {[key |-> Rec(p).key, version |-> job[p].seen + 1,
                       ordinal |-> job[p].j, alias |-> Name(p)]},
                      ![p].aliases = IF Name(p) \in aliases THEN @
                                     ELSE @ \cup {Name(p)}]
  /\ NextName(p, job[p].j)

SeekAlias(p) ==
  /\ pc[p] = "seekAlias"
  /\ IF Name(p) \in SeenAliases(p)
     THEN AddLink(p)
     ELSE Goto(p, "addAlias") /\ UNCHANGED <<job, tx>>
  /\ UNCHANGED <<store, objects, clock>>

AddAlias(p) ==
  /\ pc[p] = "addAlias"
  /\ Granted(p)
  /\ Name(p) \notin aliases
  /\ AddLink(p)
  /\ UNCHANGED <<store, objects, clock>>

AliasCollides(p) ==
  /\ pc[p] = "addAlias"
  /\ Name(p) \in aliases
  /\ Fail(p)

-----------------------------------------------------------------------------
(* The end of a run. *)

\* Mutant: every version of the record is closed, whichever was read.
CloseAll(v, writes) ==
  LET closing == {w \in writes : w.row.key = v.key} IN
  IF closing = {} THEN v
  ELSE [v EXCEPT !.to = (CHOOSE w \in closing : TRUE).row.from]

\* UPDATE ... SET valid_to: the row is found by its id, whatever it holds now.
Close(v, writes) ==
  LET closing == {w \in writes : w.row.key = v.key /\ w.closes = v.version} IN
  IF closing = {} THEN v
  ELSE [v EXCEPT !.to = (CHOOSE w \in closing : TRUE).row.from]

\* What COMMIT makes visible: the staged rows and the run's success.
Publish(p) ==
  /\ LET writes == tx[p].writes IN
     /\ versions' = {Close(v, writes) : v \in versions} \cup {w.row : w \in writes}
     /\ current' = [k \in Keys |->
                      IF k \in StagedKeys(p)
                      THEN (CHOOSE w \in writes : w.row.key = k).row.version
                      ELSE current[k]]
  /\ orgs' = orgs \cup tx[p].orgs
  /\ aliases' = aliases \cup tx[p].aliases
  /\ links' = links \cup tx[p].links
  /\ runs' = [runs EXCEPT ![job[p].run].status = "succeeded"]
  /\ UNCHANGED <<artifacts, objects, clock>>

CommitRun(p) ==
  /\ pc[p] = "commit"
  /\ Publish(p)
  /\ Leave(p)

\* The connection is lost after the server committed and before it said so:
\* the ingester takes the exception for a failed run.
CommitUnacknowledged(p) ==
  /\ pc[p] = "commit"
  /\ Publish(p)
  /\ Goto(p, "failing")
  /\ tx' = [tx EXCEPT ![p] = EmptyTx]
  /\ UNCHANGED job

\* Mutant: a status nobody else knows.
MarkError(p) ==
  /\ pc[p] = "failing"
  /\ runs' = [runs EXCEPT ![job[p].run].status = "error"]
  /\ Leave(p)
  /\ UNCHANGED <<artifacts, current, versions, catalog, objects, clock>>

\* Mutant: a failed run is tried again, as often as it takes.
RetryRun(p) ==
  /\ pc[p] = "failing"
  /\ Goto(p, "put")
  /\ UNCHANGED <<store, objects, clock, job, tx>>

\* _mark_failed does not look at the status it overwrites.
MarkFailed(p) ==
  /\ pc[p] = "failing"
  /\ runs' = [runs EXCEPT ![job[p].run].status = "failed"]
  /\ Leave(p)
  /\ UNCHANGED <<artifacts, current, versions, catalog, objects, clock>>

\* The transaction of _mark_failed raises in its turn, the database being away
\* still: the run row is left alone.
MarkFails(p) ==
  /\ pc[p] = "failing"
  /\ Leave(p)
  /\ UNCHANGED <<store, objects, clock>>

-----------------------------------------------------------------------------
(* What the environment does. *)

\* PostgreSQL ends a cycle of waiting transactions by aborting one of them.
AbortDeadlock(p) ==
  /\ Deadlocked(p)
  /\ Fail(p)

\* A statement fails for another reason (the connection is lost, a timeout), or the
\* second transaction is committed and its acknowledgement lost.
StatementFails(p) ==
  /\ pc[p] \in InTransaction \cup {"parse"}
  /\ Fail(p)

\* The process dies: the open transaction is rolled back, what was committed stays.
Crash(p) ==
  /\ pc[p] # "idle"
  /\ Leave(p)
  /\ UNCHANGED <<store, objects, clock>>

Tick ==
  /\ clock < MaxTime
  /\ clock' = clock + 1
  /\ UNCHANGED <<store, objects, pc, job, tx>>

\* The steps of ingest once it has begun.
Work(p) ==
  \/ PutRaw(p)
  \/ SeekArtifact(p) \/ SaveArtifact(p) \/ ArtifactCollides(p)
  \/ Parse(p) \/ ParseFails(p)
  \/ SeekRecord(p) \/ KeepVersion(p) \/ SupersedeVersion(p) \/ RefuseVersion(p)
  \/ WriteVersion(p) \/ RejectWrite(p)
  \/ SeekOrg(p) \/ RefuseName(p) \/ AddOrg(p) \/ OrgCollides(p)
  \/ SeekAlias(p) \/ AddAlias(p) \/ AliasCollides(p)
  \/ CommitRun(p) \/ MarkFailed(p)
  \/ AbortDeadlock(p)

Begin(p) == StartRun(p) \/ StartUnacknowledged(p) \/ RecordFetchFailure(p)

Fault(p) ==
  \/ PutRawFails(p) \/ StatementFails(p) \/ CommitUnacknowledged(p) \/ MarkFails(p)

\* Everything but the death of a process.
Live == Tick \/ \E p \in Ingesters : Begin(p) \/ Work(p) \/ Fault(p)

Next == Live \/ \E p \in Ingesters : Crash(p)

Spec == Init /\ [][Next]_vars

-----------------------------------------------------------------------------
(* Properties. *)

\* The versions of a record are numbered 1 to current_version without gap or
\* double, each starts where its predecessor ended and later than it began, and
\* only the last is open: whatever the order in which the statements of
\* concurrent runs reach the database (_apply_record and its unique indexes).
Lineage ==
  \A k \in Keys :
    /\ {v.version : v \in RowsOf(k)} = 1..current[k]
    /\ \A v, w \in RowsOf(k) : v.version = w.version => v = w
    /\ \A v \in RowsOf(k) : v.to = NoTime <=> v.version = current[k]
    /\ \A v, w \in RowsOf(k) :
         w.version = v.version + 1 => v.to = w.from /\ v.from < w.from

\* A new version means a changed record: two versions that follow one another
\* differ in their fingerprint, also when two runs bring the same payload at the
\* same time (the comparison in _apply_record is made before the lock is taken).
NoEmptyVersion ==
  \A v, w \in versions :
    v.key = w.key /\ w.version = v.version + 1 => v.print # w.print

\* A payload is applied whole or not at all: when a run succeeded, or when any
\* version of it is visible, every record of its payload has been a version of
\* its lineage; no run that has not reached its end shows anything (the third
\* transaction of ingest; no record is lost to a concurrent run).
RunsAreAtomic ==
  /\ \A v \in versions : runs[v.run].status \in {"succeeded", "failed"}
  /\ \A r \in RunIds :
       (runs[r].status = "succeeded" \/ \E v \in versions : v.run = r) =>
         \A i \in DOMAIN RecordsOf[runs[r].doc] :
           LET rec == RecordsOf[runs[r].doc][i] IN
           \E v \in versions : v.key = rec.key /\ v.print = rec.print

\* Every version can be traced to bytes that exist: its payload is in the object
\* store and in raw_artifacts, and is the one its run recorded (the order of put
\* and the two transactions in ingest).
RawBeforeCanonical ==
  /\ artifacts \subseteq objects
  /\ \A v \in versions : v.doc \in artifacts /\ runs[v.run].doc = v.doc

\* A version comes with the links of all the names of its record, in order, to
\* registered aliases of registered organizations (_sync_organizations), and
\* links belong to versions.
LinksAreComplete ==
  /\ \A l \in links : /\ l.alias \in aliases /\ OrgOf[l.alias] \in orgs
                      /\ \E v \in versions : v.key = l.key /\ v.version = l.version
  /\ \A v \in versions : \E i \in DOMAIN RecordsOf[v.doc] :
       LET rec == RecordsOf[v.doc][i] IN
       /\ rec.key = v.key /\ rec.print = v.print
       /\ {l \in links : l.key = v.key /\ l.version = v.version} =
            {[key |-> v.key, version |-> v.version, ordinal |-> j,
              alias |-> rec.names[j]] : j \in DOMAIN rec.names}

\* A committed version is never rewritten: it stays as it is, or its open end is
\* closed, once (the blind UPDATE of a version that a transaction read earlier).
VersionsAreImmutable ==
  [][\A v \in versions : \/ v \in versions'
                         \/ /\ v.to = NoTime
                            /\ \E t \in Times : [v EXCEPT !.to = t] \in versions']_vars

\* The store implements the executable specification of domain/history.py.
VersionsOf(k) ==
  [n \in 1..current[k] |->
     LET v == CHOOSE v \in RowsOf(k) : v.version = n
     IN [version |-> v.version, print |-> v.print, from |-> v.from, to |-> v.to]]

History == INSTANCE VersionHistory WITH history <- [k \in Keys |-> VersionsOf(k)]

ImplementsHistory == History!Spec

Running(r) == runs[r].status = "running"

\* Nobody works on the run: ingest raised without _mark_failed, or its process died.
Abandoned(r) == \A p \in Ingesters : job[p].run # r

\* Nobody works on a run for ever: it ends, or is abandoned.  Transactions that wait
\* for one another get their lock or are aborted, and no failure is tried again.  (One
\* that is abandoned while it is "running" stays so for ever: nothing takes it up.)
RunsEnd == \A r \in RunIds : Running(r) ~> (~Running(r) \/ Abandoned(r))
=============================================================================
