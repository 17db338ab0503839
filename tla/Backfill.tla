------------------------------ MODULE Backfill ------------------------------
(***************************************************************************)
(* Ingestion on a database that is older than the organization registry:   *)
(* the versions in it came without links, and init-db (cli.py) makes them  *)
(* up in one transaction, backfill_organization_links (repository.py).     *)
(* Others ingest meanwhile.                                                *)
(*                                                                         *)
(* The process of init is one of the ingesters, because the demo seed      *)
(* ingests.  While it is backfilling, its job is at the record of a        *)
(* version that is in the store, and _sync_organizations is the same.      *)
(***************************************************************************)
EXTENDS Ingestion

CONSTANTS Filler,    \* the process of init
          OldRun,    \* the run that came before the registry
          OldDoc     \* its payload

ASSUME BackfillAssumption ==
  Filler \in Ingesters /\ OldRun \in RunIds /\ OldDoc \in Docs \ BadDocs

VARIABLES
  filling,    \* init is backfilling
  todo,       \* the versions it has read and is not done with
  backfilled  \* ghost: a backfill was committed

fill == <<filling, todo, backfilled>>
fillVars == <<vars, fill>>

BackfillTypeOK ==
  /\ TypeOK
  /\ filling \in BOOLEAN /\ backfilled \in BOOLEAN
  /\ todo \subseteq Row
  /\ filling => pc[Filler] \in InTransaction \cup {"failing"}

OldRows == {[key |-> RecordsOf[OldDoc][i].key, version |-> 1, print |-> RecordsOf[OldDoc][i].print,
             doc |-> OldDoc, run |-> OldRun, from |-> 0, to |-> NoTime] :
              i \in DOMAIN RecordsOf[OldDoc]}

BackfillInit ==
  /\ runs = [r \in RunIds |-> IF r = OldRun THEN [status |-> "succeeded", doc |-> OldDoc]
                              ELSE [status |-> "unused", doc |-> NoDoc]]
  /\ objects = {OldDoc} /\ artifacts = {OldDoc}
  /\ versions = OldRows
  /\ current = [k \in Keys |-> IF \E v \in OldRows : v.key = k THEN 1 ELSE 0]
  /\ orgs = {} /\ aliases = {} /\ links = {}
  /\ clock = 0
  /\ pc = [p \in Ingesters |-> "idle"]
  /\ job = [p \in Ingesters |-> IdleJob]
  /\ tx = [p \in Ingesters |-> EmptyTx]
  /\ filling = FALSE /\ todo = {} /\ backfilled = FALSE

-----------------------------------------------------------------------------

\* Mutant: only the open versions are read.
ReadVersionsOpen ==
  /\ pc[Filler] = "idle" /\ ~backfilled
  /\ Goto(Filler, "seekRecord")
  /\ filling' = TRUE /\ todo' = {v \in versions : v.to = NoTime}
  /\ UNCHANGED <<store, objects, clock, job, tx, backfilled>>

\* SELECT all versions.  Init may be run again after a failure (bound: not after a
\* success).
ReadVersions ==
  /\ pc[Filler] = "idle" /\ ~backfilled
  /\ Goto(Filler, "seekRecord")
  /\ filling' = TRUE /\ todo' = versions
  /\ UNCHANGED <<store, objects, clock, job, tx, backfilled>>

\* _sync_organizations is done with a version (it left its record behind as an
\* ingester does), or has not begun.
Between == filling /\ pc[Filler] \in {"seekRecord", "commit"}

\* The next version, ordered by valid_from, and its first name.
SyncVersion(v) ==
  /\ Between
  /\ \A w \in todo : v.from <= w.from
  /\ todo' = todo \ {v}
  /\ \E i \in DOMAIN RecordsOf[v.doc] :
       /\ RecordsOf[v.doc][i].key = v.key
       /\ IF RecordsOf[v.doc][i].names = <<>> THEN UNCHANGED <<pc, job>>
          ELSE /\ job' = [job EXCEPT ![Filler] = [IdleJob EXCEPT !.doc = v.doc, !.i = i,
                                                                !.seen = v.version - 1]]
               /\ Goto(Filler, "seekOrg")
  /\ UNCHANGED <<store, objects, clock, tx, filling, backfilled>>

\* SELECT or INSERT the organization and the alias of a name, then the link unless
\* it is there.
SyncName(p) ==
  \/ SeekOrg(p) \/ RefuseName(p) \/ AddOrg(p) \/ OrgCollides(p)
  \/ SeekAlias(p) \/ AddAlias(p) \/ AliasCollides(p)
  \/ AbortDeadlock(p)

\* COMMIT; init goes on.
CommitBackfill ==
  /\ Between /\ todo = {}
  /\ orgs' = orgs \cup tx[Filler].orgs
  /\ aliases' = aliases \cup tx[Filler].aliases
  /\ links' = links \cup tx[Filler].links
  /\ Leave(Filler)
  /\ filling' = FALSE /\ backfilled' = TRUE
  /\ UNCHANGED <<runs, artifacts, current, versions, objects, clock, todo>>

\* Mutant: init tries again at once, as often as it takes.
RetryBackfill ==
  /\ filling /\ pc[Filler] = "failing"
  /\ Goto(Filler, "seekRecord")
  /\ job' = [job EXCEPT ![Filler] = IdleJob]
  /\ todo' = versions
  /\ UNCHANGED <<store, objects, clock, tx, filling, backfilled>>

\* An exception: the transaction was rolled back, init ends with an error.
FailBackfill ==
  /\ filling /\ pc[Filler] = "failing"
  /\ Leave(Filler)
  /\ filling' = FALSE /\ todo' = {}
  /\ UNCHANGED <<store, objects, clock, backfilled>>

FillerWork ==
  \/ \E v \in todo : SyncVersion(v)
  \/ CommitBackfill \/ FailBackfill
  \/ filling /\ SyncName(Filler) /\ UNCHANGED fill

\* An ingester at work; the process of init is one, for the demo seed, once it has
\* backfilled.  That init dies while it backfills is a failure to everybody else.
Ingests(p) == p = Filler => ~filling
Begins(p) == p = Filler => backfilled

BackfillNext ==
  \/ ReadVersions \/ FillerWork
  \/ filling /\ StatementFails(Filler) /\ UNCHANGED fill
  \/ Tick /\ UNCHANGED fill
  \/ \E p \in Ingesters :
       /\ Ingests(p)
       /\ (Begins(p) /\ Begin(p)) \/ Work(p) \/ Fault(p) \/ Crash(p)
       /\ UNCHANGED fill

\* A thread that can go on does, and PostgreSQL detects deadlocks; nobody has to
\* begin.  Init may fail again and again, but an insert that waits for it is queued
\* and not overtaken for ever.
BackfillFairness ==
  /\ WF_fillVars(FillerWork)
  /\ \A p \in Ingesters :
       /\ WF_fillVars(Ingests(p) /\ Work(p) /\ UNCHANGED fill)
       /\ SF_fillVars(Ingests(p) /\ (AddOrg(p) \/ AddAlias(p)) /\ UNCHANGED fill)

BackfillSpec == BackfillInit /\ [][BackfillNext]_fillVars /\ BackfillFairness

-----------------------------------------------------------------------------
(* Properties. *)

LinksOf(v) == {l \in links : l.key = v.key /\ l.version = v.version}

LinksOfRecord(v) ==
  UNION {{[key |-> v.key, version |-> v.version, ordinal |-> j, alias |-> RecordsOf[v.doc][i].names[j]] :
            j \in DOMAIN RecordsOf[v.doc][i].names} :
              i \in {i \in DOMAIN RecordsOf[v.doc] : RecordsOf[v.doc][i].key = v.key}}

\* After a backfill every version in the store has the links of its record, those
\* that were committed while it ran included; before, the old ones have none or
\* all.  Links belong to versions and name registered aliases (init_db, ADR-002).
HistoryIsLinked ==
  /\ \A v \in versions :
       \/ LinksOf(v) = LinksOfRecord(v)
       \/ ~backfilled /\ v.run = OldRun /\ LinksOf(v) = {}
  /\ \A l \in links : /\ l.alias \in aliases /\ OrgOf[l.alias] \in orgs
                      /\ \E v \in versions : v.key = l.key /\ v.version = l.version

\* Init ends, though the backfill waits for organizations that runs have inserted
\* and they for its own, in another order.
BackfillEnds == filling ~> ~filling
=============================================================================
