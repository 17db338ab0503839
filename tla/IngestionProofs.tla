-------------------------- MODULE IngestionProofs --------------------------
(***************************************************************************)
(* Theorems about Ingestion for any ingesters, payloads and records: the   *)
(* lineage of each record; then where the versions come from, what a run   *)
(* leaves behind, and that the store implements VersionHistory.  Each part *)
(* adds to the inductive invariant of the parts before it.                 *)
(***************************************************************************)
EXTENDS Ingestion, TLAPS

-----------------------------------------------------------------------------
(* Types.  A step inside a payload needs its record, a step inside a record   *)
(* its name, so the type invariant is proved with JobsOK.                     *)

RecordSteps == {"seekRecord", "compare", "write"}
NameSteps == {"seekOrg", "addOrg", "seekAlias", "addAlias"}

\* Local variables x at a step: they point at a run, a payload, a record of the
\* payload and a name of the record.
JobOK(x, step) ==
  step # "idle" =>
    /\ x.run \in RunIds
    /\ x.doc \in Docs
    /\ step \in RecordSteps \cup NameSteps => x.i \in 1..Len(RecordsOf[x.doc])
    /\ step \in NameSteps => x.j \in 1..Len(RecordsOf[x.doc][x.i].names)
    /\ step \in NameSteps \ {"seekOrg"} => OrgOf[RecordsOf[x.doc][x.i].names[x.j]] # NoOrg

JobsOK == \A p \in Ingesters : JobOK(job[p], pc[p])

\* A row of a run is all that p leaves behind.
RowOnly(p) == StartUnacknowledged(p) \/ RecordFetchFailure(p)

StoreType ==
  /\ runs \in [RunIds -> Run]
  /\ objects \subseteq Docs /\ artifacts \subseteq Docs
  /\ current \in [Keys -> Nat]
  /\ versions \subseteq Row
  /\ orgs \subseteq Orgs /\ aliases \subseteq Aliases /\ links \subseteq Link
  /\ clock \in Times

LocalType ==
  /\ pc \in [Ingesters -> Steps]
  /\ job \in [Ingesters -> Job]
  /\ tx \in [Ingesters -> Transaction]

LEMMA SplitType ==
  /\ TypeOK <=> StoreType /\ LocalType
  /\ TypeOK' <=> StoreType' /\ LocalType'
BY DEF TypeOK, StoreType, LocalType

LEMMA RecType ==
  ASSUME TypeOK, JobsOK, NEW p \in Ingesters, pc[p] \in RecordSteps \cup NameSteps
  PROVE  /\ Records(p) \in Seq(Record)
         /\ Rec(p) \in Record
         /\ Rec(p).key \in Keys /\ Rec(p).print \in Prints
         /\ Rec(p).names \in Seq(Aliases)
         /\ job[p] \in Job /\ job[p].run \in RunIds /\ job[p].doc \in Docs
         /\ job[p].i \in 1..Len(Records(p))
         /\ job[p].i \in Nat /\ job[p].j \in Nat /\ job[p].seen \in Nat
         /\ job[p].closes \in Nat /\ job[p].at \in Times
<1>1. /\ pc[p] # "idle" /\ JobOK(job[p], pc[p])
  BY DEF JobsOK, RecordSteps, NameSteps
<1>2. /\ job[p].run \in RunIds /\ job[p].doc \in Docs
      /\ job[p].i \in 1..Len(Records(p))
  BY <1>1 DEF JobOK, Records
<1>3. Records(p) \in Seq(Record)
  BY <1>2, IngestionAssumption DEF Records
<1>4. Rec(p) \in Record
  BY <1>2, <1>3 DEF Rec
<1>5. job[p] \in Job BY DEF TypeOK
<1> QED BY <1>2, <1>3, <1>4, <1>5 DEF Record, Job

LEMMA NameType ==
  ASSUME TypeOK, JobsOK, NEW p \in Ingesters, pc[p] \in NameSteps
  PROVE  /\ Name(p) \in Aliases
         /\ OrgOf[Name(p)] \in Orgs \cup {NoOrg}
         /\ pc[p] # "seekOrg" => OrgOf[Name(p)] \in Orgs
         /\ job[p].j \in 1..Len(Rec(p).names)
<1>1. Rec(p).names \in Seq(Aliases) BY RecType
<1>2. job[p].j \in 1..Len(Rec(p).names)
  BY DEF JobsOK, JobOK, NameSteps, Rec, Records
<1>3. Name(p) \in Aliases /\ OrgOf[Name(p)] \in Orgs \cup {NoOrg}
  BY <1>1, <1>2, IngestionAssumption DEF Name
<1>4. pc[p] # "seekOrg" => OrgOf[Name(p)] # NoOrg
  BY DEF JobsOK, JobOK, NameSteps, Name, Rec, Records
<1> QED BY <1>2, <1>3, <1>4

\* One ingester moves: its new step and local variables need only fit together.
LEMMA MoveJob ==
  ASSUME LocalType, JobsOK, NEW p \in Ingesters,
         NEW step \in Steps, NEW x \in Job, JobOK(x, step),
         pc' = [pc EXCEPT ![p] = step], job' = [job EXCEPT ![p] = x]
  PROVE  pc' \in [Ingesters -> Steps] /\ job' \in [Ingesters -> Job] /\ JobsOK'
BY DEF LocalType, JobsOK

LEMMA InitType == Init => TypeOK /\ JobsOK
<1> SUFFICES ASSUME Init PROVE TypeOK /\ JobsOK OBVIOUS
<1>1. IdleJob \in Job /\ EmptyTx \in Transaction
  BY IngestionAssumption DEF IdleJob, Job, EmptyTx, Transaction, Times
<1>2. TypeOK BY <1>1, IngestionAssumption DEF Init, TypeOK, Run, Steps, Times
<1>3. JobsOK BY DEF Init, JobsOK, JobOK
<1> QED BY <1>2, <1>3

\* Rolling back and giving up.
LEMMA LeaveType ==
  ASSUME LocalType, JobsOK, NEW p \in Ingesters, Leave(p)
  PROVE  LocalType' /\ JobsOK'
<1>1. IdleJob \in Job /\ EmptyTx \in Transaction
  BY IngestionAssumption DEF IdleJob, Job, EmptyTx, Transaction, Times
<1>2. JobOK(IdleJob, "idle") BY DEF JobOK
<1>3. pc' \in [Ingesters -> Steps] /\ job' \in [Ingesters -> Job] /\ JobsOK'
  BY <1>1, <1>2, MoveJob DEF Leave, Goto, Steps
<1>4. tx' \in [Ingesters -> Transaction] BY <1>1 DEF Leave, LocalType
<1> QED BY <1>3, <1>4 DEF LocalType

LEMMA FailType ==
  ASSUME LocalType, JobsOK, NEW p \in Ingesters, pc[p] # "idle", Goto(p, "failing"),
         tx' = [tx EXCEPT ![p] = EmptyTx], UNCHANGED job
  PROVE  LocalType' /\ JobsOK'
<1>1. EmptyTx \in Transaction BY DEF EmptyTx, Transaction
<1>2. JobOK(job[p], "failing") /\ job[p] \in Job
  BY DEF JobsOK, JobOK, RecordSteps, NameSteps, LocalType
<1>3. job' = [job EXCEPT ![p] = job[p]] BY DEF LocalType
<1>4. pc' \in [Ingesters -> Steps] /\ job' \in [Ingesters -> Job] /\ JobsOK'
  BY <1>2, <1>3, MoveJob DEF Goto, Steps
<1>5. tx' \in [Ingesters -> Transaction] BY <1>1 DEF LocalType
<1> QED BY <1>4, <1>5 DEF LocalType

LEMMA FinishType ==
  ASSUME TypeOK, JobsOK, NEW p \in Ingesters, pc[p] \in RecordSteps \cup NameSteps,
         FinishRecord(p)
  PROVE  pc' \in [Ingesters -> Steps] /\ job' \in [Ingesters -> Job] /\ JobsOK'
<1> DEFINE x == [job[p] EXCEPT !.i = @ + 1]
           step == AfterRecords(p, job[p].i)
<1>1. /\ job[p] \in Job /\ job[p].run \in RunIds /\ job[p].doc \in Docs
      /\ job[p].i \in 1..Len(RecordsOf[job[p].doc])
      /\ Len(RecordsOf[job[p].doc]) \in Nat
  BY RecType DEF Records
<1>2. x \in Job /\ x.run = job[p].run /\ x.doc = job[p].doc /\ x.i = job[p].i + 1
  BY <1>1 DEF Job
<1>3. step \in Steps BY DEF AfterRecords, Steps
<1>4. JobOK(x, step)
  BY <1>1, <1>2 DEF JobOK, AfterRecords, Records, RecordSteps, NameSteps
<1>5. pc' = [pc EXCEPT ![p] = step] /\ job' = [job EXCEPT ![p] = x]
  BY DEF FinishRecord, Goto
<1> QED BY <1>2, <1>3, <1>4, <1>5, MoveJob, SplitType

LEMMA NextNameType ==
  ASSUME TypeOK, JobsOK, NEW p \in Ingesters, pc[p] \in RecordSteps \cup NameSteps,
         NEW j \in Nat, j <= Len(Rec(p).names), NextName(p, j)
  PROVE  pc' \in [Ingesters -> Steps] /\ job' \in [Ingesters -> Job] /\ JobsOK'
<1>1. CASE j = Len(Rec(p).names) BY <1>1, FinishType DEF NextName
<1>2. CASE j # Len(Rec(p).names)
  <2> DEFINE x == [job[p] EXCEPT !.j = j + 1]
  <2>1. /\ job[p] \in Job /\ job[p].run \in RunIds /\ job[p].doc \in Docs
        /\ job[p].i \in 1..Len(RecordsOf[job[p].doc])
        /\ j + 1 \in 1..Len(RecordsOf[job[p].doc][job[p].i].names)
    BY <1>2, RecType DEF Records, Rec
  <2>a. j + 1 \in Nat OBVIOUS
  <2>2. /\ x \in Job /\ x.run = job[p].run /\ x.doc = job[p].doc
        /\ x.i = job[p].i /\ x.j = j + 1
    <3>1. job[p] \in Job BY <2>1
    <3> QED BY <2>a, <3>1 DEF Job
  <2>3. JobOK(x, "seekOrg") /\ "seekOrg" \in Steps
    BY <2>1, <2>2 DEF JobOK, RecordSteps, NameSteps, Steps
  <2>4. pc' = [pc EXCEPT ![p] = "seekOrg"] /\ job' = [job EXCEPT ![p] = x]
    BY <1>2 DEF NextName, Goto
  <2> QED BY <2>2, <2>3, <2>4, MoveJob, SplitType
<1> QED BY <1>1, <1>2

\* A step that only changes where p is.
LEMMA GotoType ==
  ASSUME TypeOK, JobsOK, NEW p \in Ingesters, NEW step \in Steps,
         JobOK(job[p], step), Goto(p, step), UNCHANGED job
  PROVE  pc' \in [Ingesters -> Steps] /\ job' \in [Ingesters -> Job] /\ JobsOK'
<1>1. job[p] \in Job /\ job' = [job EXCEPT ![p] = job[p]] BY DEF TypeOK
<1> QED BY <1>1, MoveJob, SplitType DEF Goto

LEMMA NewRowType ==
  ASSUME TypeOK, JobsOK, NEW p \in Ingesters, pc[p] = "write"
  PROVE  [row |-> NewRow(p), closes |-> job[p].closes] \in Write
<1>1. NewRow(p) \in Row
  BY RecType DEF NewRow, Row, RecordSteps
<1> QED BY <1>1, RecType DEF Write, RecordSteps

LEMMA AddLinkType ==
  ASSUME TypeOK, JobsOK, NEW p \in Ingesters, pc[p] \in NameSteps, AddLink(p)
  PROVE  LocalType' /\ JobsOK'
<1>1. job[p].j \in Nat /\ job[p].j <= Len(Rec(p).names) /\ NextName(p, job[p].j)
  BY NameType, RecType DEF AddLink
<1>2. pc' \in [Ingesters -> Steps] /\ job' \in [Ingesters -> Job] /\ JobsOK'
  BY <1>1, NextNameType
<1>3. [key |-> Rec(p).key, version |-> job[p].seen + 1, ordinal |-> job[p].j,
       alias |-> Name(p)] \in Link /\ Name(p) \in Aliases
  BY NameType, RecType DEF Link
<1>4. tx' \in [Ingesters -> Transaction]
  <2> DEFINE l == [key |-> Rec(p).key, version |-> job[p].seen + 1,
                   ordinal |-> job[p].j, alias |-> Name(p)]
             y == [tx[p] EXCEPT !.links = @ \cup {l},
                                !.aliases = IF Name(p) \in aliases THEN @
                                            ELSE @ \cup {Name(p)}]
  <2>1. tx \in [Ingesters -> Transaction] BY DEF TypeOK
  <2>2. tx' = [tx EXCEPT ![p] = y] BY <2>1 DEF AddLink, Transaction
  <2>3. y \in Transaction
    <3> HIDE DEF l
    <3>1. l \in Link /\ Name(p) \in Aliases BY <1>3 DEF l
    <3> QED BY <2>1, <3>1 DEF Transaction
  <2> QED BY <2>1, <2>2, <2>3
<1> QED BY <1>2, <1>4 DEF LocalType

\* What a commit writes.
LEMMA PublishType ==
  ASSUME TypeOK, JobsOK, NEW p \in Ingesters, pc[p] = "commit", Publish(p)
  PROVE  StoreType'
<1>1. tx[p] \in Transaction BY DEF TypeOK
<1>2. tx[p].writes \subseteq Write BY <1>1 DEF Transaction
<1>3. \A v \in versions : Close(v, tx[p].writes) \in Row
  <2> TAKE v \in versions
  <2> DEFINE closing == {w \in tx[p].writes : w.row.key = v.key /\ w.closes = v.version}
             w0 == CHOOSE w \in closing : TRUE
  <2>1. v \in Row BY DEF TypeOK
  <2>2. CASE closing = {} BY <2>1, <2>2 DEF Close
  <2>3. CASE closing # {}
    <3>1. w0 \in closing BY <2>3
    <3>2. w0.row.from \in Times BY <3>1, <1>2 DEF Write, Row
    <3>3. Close(v, tx[p].writes) = [v EXCEPT !.to = w0.row.from] BY <2>3 DEF Close
    <3> HIDE DEF w0
    <3> QED BY <3>2, <3>3, <2>1 DEF Row
  <2> QED BY <2>2, <2>3
<1>4. versions' \subseteq Row
  BY <1>2, <1>3 DEF Publish, Write
<1>5. current' \in [Keys -> Nat]
  <2>1. ASSUME NEW k \in Keys, k \in StagedKeys(p)
        PROVE  (CHOOSE w \in tx[p].writes : w.row.key = k).row.version \in Nat
    <3>1. \E w \in tx[p].writes : w.row.key = k BY <2>1 DEF StagedKeys
    <3>2. (CHOOSE w \in tx[p].writes : w.row.key = k) \in tx[p].writes BY <3>1
    <3> QED BY <3>2, <1>2 DEF Write, Row
  <2> QED BY <2>1 DEF Publish, TypeOK
<1>6. orgs' \subseteq Orgs /\ aliases' \subseteq Aliases /\ links' \subseteq Link
  BY <1>1 DEF Publish, TypeOK, Transaction
<1>7. runs' \in [RunIds -> Run]
  BY DEF Publish, TypeOK, Run
<1>8. artifacts' \subseteq Docs /\ objects' \subseteq Docs /\ clock' \in Times
  BY DEF Publish, TypeOK
<1> QED BY <1>4, <1>5, <1>6, <1>7, <1>8 DEF StoreType

TypeInv == TypeOK /\ JobsOK

LEMMA TypeStep == TypeInv /\ [Next]_vars => TypeInv'
<1> SUFFICES ASSUME TypeOK, JobsOK, [Next]_vars PROVE TypeOK' /\ JobsOK'
  BY DEF TypeInv
<1> USE SplitType
<1> StoreType /\ LocalType OBVIOUS
\* A step of p that leaves the store alone keeps its type.
<1>a. ASSUME UNCHANGED <<store, objects, clock>> PROVE StoreType'
  BY <1>a DEF StoreType, store, catalog
<1>b. ASSUME UNCHANGED vars PROVE TypeOK' /\ JobsOK'
  BY <1>b DEF vars, store, catalog, TypeOK, JobsOK
<1>c. ASSUME NEW p \in Ingesters, pc[p] # "idle", Fail(p) PROVE TypeOK' /\ JobsOK'
  BY <1>a, <1>c, FailType DEF Fail
<1>d. ASSUME NEW p \in Ingesters, UNCHANGED <<store, objects, clock, tx>>,
             pc' \in [Ingesters -> Steps] /\ job' \in [Ingesters -> Job] /\ JobsOK'
      PROVE TypeOK' /\ JobsOK'
  BY <1>d, <1>a DEF StoreType, LocalType, TypeOK
<1>1. CASE Tick
  <2>1. clock' \in Times BY <1>1, IngestionAssumption DEF Tick, TypeOK, Times
  <2>2. JobsOK' /\ LocalType' BY <1>1 DEF Tick, JobsOK, LocalType
  <2>3. UNCHANGED <<store, objects>> BY <1>1 DEF Tick
  <2>4. StoreType' BY <2>1, <2>3 DEF store, catalog, StoreType
  <2> QED BY <2>2, <2>4
<1>2. ASSUME NEW p \in Ingesters, StartRun(p) PROVE TypeOK' /\ JobsOK'
  <2>1. PICK r \in RunIds, d \in Docs :
          /\ runs' = [runs EXCEPT ![r].status = "running"]
          /\ job' = [job EXCEPT ![p] = [IdleJob EXCEPT !.run = r, !.doc = d]]
    BY <1>2 DEF StartRun
  <2> DEFINE x == [IdleJob EXCEPT !.run = r, !.doc = d]
  <2>a. IdleJob \in Job BY IngestionAssumption DEF IdleJob, Job, Times
  <2>2. x \in Job /\ x.run = r /\ x.doc = d BY <2>a DEF Job
  <2>3. JobOK(x, "put") /\ "put" \in Steps
    BY <2>2 DEF JobOK, RecordSteps, NameSteps, Steps
  <2>4. pc' \in [Ingesters -> Steps] /\ job' \in [Ingesters -> Job] /\ JobsOK'
    BY <2>1, <2>2, <2>3, <1>2, MoveJob DEF StartRun, Goto
  <2>5. runs' \in [RunIds -> Run] BY <2>1 DEF TypeOK, Run
  <2> QED BY <2>4, <2>5, <1>2 DEF StartRun, catalog, TypeOK
<1>3. ASSUME NEW p \in Ingesters, RowOnly(p) PROVE TypeOK' /\ JobsOK'
  <2>1. runs' \in [RunIds -> Run]
    BY <1>3 DEF RowOnly, StartUnacknowledged, RecordFetchFailure, TypeOK, Run
  <2> QED BY <2>1, <1>3
      DEF RowOnly, StartUnacknowledged, RecordFetchFailure, catalog, TypeOK, JobsOK
<1>4. ASSUME NEW p \in Ingesters, PutRaw(p) PROVE TypeOK' /\ JobsOK'
  <2>1. JobOK(job[p], "seekArtifact") /\ job[p].doc \in Docs
    BY <1>4 DEF PutRaw, JobsOK, JobOK, RecordSteps, NameSteps
  <2>2. pc' \in [Ingesters -> Steps] /\ job' \in [Ingesters -> Job] /\ JobsOK'
    BY <2>1, <1>4, GotoType DEF PutRaw, Steps
  <2> QED BY <2>1, <2>2, <1>4 DEF PutRaw, store, catalog, TypeOK
<1>5. ASSUME NEW p \in Ingesters, SeekArtifact(p) PROVE TypeOK' /\ JobsOK'
  <2> DEFINE x == [job[p] EXCEPT !.seen = IF job[p].doc \in artifacts THEN 1 ELSE 0]
  <2>1. x \in Job /\ x.run = job[p].run /\ x.doc = job[p].doc
    BY DEF TypeOK, Job
  <2>2. JobOK(x, "saveArtifact") /\ "saveArtifact" \in Steps
    BY <2>1, <1>5 DEF SeekArtifact, JobsOK, JobOK, RecordSteps, NameSteps, Steps
  <2>3. pc' \in [Ingesters -> Steps] /\ job' \in [Ingesters -> Job] /\ JobsOK'
    BY <2>1, <2>2, <1>5, MoveJob DEF SeekArtifact, Goto
  <2> QED BY <2>3, <1>5, <1>d DEF SeekArtifact
<1>6. ASSUME NEW p \in Ingesters, SaveArtifact(p) PROVE TypeOK' /\ JobsOK'
  <2>1. JobOK(job[p], "parse") /\ job[p].doc \in Docs
    BY <1>6 DEF SaveArtifact, JobsOK, JobOK, RecordSteps, NameSteps
  <2>2. pc' \in [Ingesters -> Steps] /\ job' \in [Ingesters -> Job] /\ JobsOK'
    BY <2>1, <1>6, GotoType DEF SaveArtifact, Steps
  <2>3. runs' \in [RunIds -> Run] BY <2>1, <1>6 DEF SaveArtifact, TypeOK, Run
  <2> QED BY <2>1, <2>2, <2>3, <1>6 DEF SaveArtifact, catalog, TypeOK
<1>7. ASSUME NEW p \in Ingesters, Parse(p) PROVE TypeOK' /\ JobsOK'
  <2> DEFINE x == [job[p] EXCEPT !.at = clock, !.i = 1]
             step == AfterRecords(p, 0)
  <2>1. x \in Job /\ x.run = job[p].run /\ x.doc = job[p].doc /\ x.i = 1
    BY DEF TypeOK, Job
  <2>2. job[p].run \in RunIds /\ job[p].doc \in Docs
    BY <1>7 DEF Parse, JobsOK, JobOK
  <2>3. RecordsOf[job[p].doc] \in Seq(Record) BY <2>2, IngestionAssumption
  <2>4. JobOK(x, step) /\ step \in Steps
    BY <2>1, <2>2, <2>3 DEF AfterRecords, Records, JobOK, RecordSteps, NameSteps, Steps
  <2>5. job' = [job EXCEPT ![p] = x] BY <1>7 DEF Parse, TypeOK
  <2>6. pc' \in [Ingesters -> Steps] /\ job' \in [Ingesters -> Job] /\ JobsOK'
    BY <2>1, <2>4, <2>5, <1>7, MoveJob DEF Parse, Goto
  <2> QED BY <2>6, <1>7, <1>d DEF Parse
<1>8. ASSUME NEW p \in Ingesters, SeekRecord(p) PROVE TypeOK' /\ JobsOK'
  <2> DEFINE cv == current[Rec(p).key]
             x == [job[p] EXCEPT !.seen = cv, !.closes = 0]
             step == IF cv = 0 THEN "write" ELSE "compare"
  <2>1. cv \in Nat BY <1>8, RecType DEF SeekRecord, RecordSteps, TypeOK
  <2>2. x \in Job /\ x.run = job[p].run /\ x.doc = job[p].doc /\ x.i = job[p].i
    BY <2>1 DEF TypeOK, Job
  <2>3. JobOK(x, step) /\ step \in Steps
    BY <2>2, <1>8 DEF SeekRecord, JobsOK, JobOK, RecordSteps, NameSteps, Steps
  <2>4. job' = [job EXCEPT ![p] = x] BY <1>8 DEF SeekRecord, TypeOK
  <2>5. pc' \in [Ingesters -> Steps] /\ job' \in [Ingesters -> Job] /\ JobsOK'
    BY <2>2, <2>3, <2>4, <1>8, MoveJob DEF SeekRecord, Goto
  <2> QED BY <2>5, <1>8, <1>d DEF SeekRecord
<1>9. ASSUME NEW p \in Ingesters, KeepVersion(p) PROVE TypeOK' /\ JobsOK'
  BY <1>9, <1>d, FinishType DEF KeepVersion, RecordSteps
<1>10. ASSUME NEW p \in Ingesters, SupersedeVersion(p) PROVE TypeOK' /\ JobsOK'
  <2>1. PICK v \in OpenRows(Rec(p).key) : job' = [job EXCEPT ![p].closes = v.version]
    BY <1>10 DEF SupersedeVersion
  <2> DEFINE x == [job[p] EXCEPT !.closes = v.version]
  <2>2. v.version \in Nat BY DEF OpenRows, RowsOf, TypeOK, Row
  <2>3. x \in Job /\ x.run = job[p].run /\ x.doc = job[p].doc /\ x.i = job[p].i
    BY <2>2 DEF TypeOK, Job
  <2>4. JobOK(x, "write") /\ "write" \in Steps
    BY <2>3, <1>10 DEF SupersedeVersion, JobsOK, JobOK, RecordSteps, NameSteps, Steps
  <2>5. pc' \in [Ingesters -> Steps] /\ job' \in [Ingesters -> Job] /\ JobsOK'
    BY <2>1, <2>3, <2>4, <1>10, MoveJob DEF SupersedeVersion, Goto
  <2> QED BY <2>5, <1>10, <1>d DEF SupersedeVersion
<1>11. ASSUME NEW p \in Ingesters, WriteVersion(p) PROVE TypeOK' /\ JobsOK'
  <2>1. Rec(p).names \in Seq(Aliases) BY <1>11, RecType DEF WriteVersion, RecordSteps
  <2>2. pc' \in [Ingesters -> Steps] /\ job' \in [Ingesters -> Job] /\ JobsOK'
    BY <2>1, <1>11, NextNameType DEF WriteVersion, RecordSteps
  <2>3. tx' \in [Ingesters -> Transaction]
    BY <1>11, NewRowType DEF WriteVersion, TypeOK, Transaction
  <2> QED BY <2>2, <2>3, <1>11, <1>a DEF WriteVersion, LocalType
<1>12. ASSUME NEW p \in Ingesters, SeekOrg(p) PROVE TypeOK' /\ JobsOK'
  <2> DEFINE step == IF OrgOf[Name(p)] \in SeenOrgs(p) THEN "seekAlias" ELSE "addOrg"
  <2>1. JobOK(job[p], "seekOrg")
    BY <1>12 DEF SeekOrg, JobsOK
  <2>2. OrgOf[RecordsOf[job[p].doc][job[p].i].names[job[p].j]] # NoOrg
    BY <1>12 DEF SeekOrg, Name, Rec, Records
  <2>3. JobOK(job[p], step) /\ step \in Steps
    BY <2>1, <2>2 DEF JobOK, RecordSteps, NameSteps, Steps
  <2>4. Goto(p, step) /\ UNCHANGED job BY <1>12 DEF SeekOrg
  <2> HIDE DEF step
  <2>5. pc' \in [Ingesters -> Steps] /\ job' \in [Ingesters -> Job] /\ JobsOK'
    BY <2>3, <2>4, GotoType
  <2> QED BY <2>5, <1>12, <1>d DEF SeekOrg
<1>13. ASSUME NEW p \in Ingesters, AddOrg(p) PROVE TypeOK' /\ JobsOK'
  <2>1. JobOK(job[p], "seekAlias") /\ "seekAlias" \in Steps
    BY <1>13 DEF AddOrg, JobsOK, JobOK, RecordSteps, NameSteps, Steps
  <2>2. pc' \in [Ingesters -> Steps] /\ job' \in [Ingesters -> Job] /\ JobsOK'
    BY <2>1, <1>13, GotoType DEF AddOrg
  <2>3. OrgOf[Name(p)] \in Orgs
    BY <1>13, NameType DEF AddOrg, NameSteps
  <2>4. tx' \in [Ingesters -> Transaction]
    BY <2>3, <1>13 DEF AddOrg, TypeOK, Transaction
  <2> QED BY <2>2, <2>4, <1>13, <1>a DEF AddOrg, LocalType
<1>14. ASSUME NEW p \in Ingesters, SeekAlias(p) PROVE TypeOK' /\ JobsOK'
  <2>1. StoreType' /\ pc[p] \in NameSteps
    BY <1>14, <1>a DEF SeekAlias, NameSteps
  <2>2. CASE AddLink(p) BY <2>1, <2>2, AddLinkType
  <2>3. CASE Goto(p, "addAlias") /\ UNCHANGED <<job, tx>>
    <3>1. JobOK(job[p], "addAlias") /\ "addAlias" \in Steps
      BY <1>14 DEF SeekAlias, JobsOK, JobOK, RecordSteps, NameSteps, Steps
    <3>2. pc' \in [Ingesters -> Steps] /\ job' \in [Ingesters -> Job] /\ JobsOK'
      BY <3>1, <2>3, GotoType
    <3> QED BY <3>2, <2>1, <2>3 DEF LocalType
  <2> QED BY <2>2, <2>3, <1>14 DEF SeekAlias
<1>15. ASSUME NEW p \in Ingesters, AddAlias(p) PROVE TypeOK' /\ JobsOK'
  <2>1. StoreType' /\ pc[p] \in NameSteps
    BY <1>15, <1>a DEF AddAlias, NameSteps
  <2> QED BY <2>1, <1>15, AddLinkType DEF AddAlias
<1>16. ASSUME NEW p \in Ingesters, CommitRun(p) PROVE TypeOK' /\ JobsOK'
  BY <1>16, PublishType, LeaveType DEF CommitRun
<1>17. ASSUME NEW p \in Ingesters, CommitUnacknowledged(p) PROVE TypeOK' /\ JobsOK'
  BY <1>17, PublishType, FailType DEF CommitUnacknowledged
<1>18. ASSUME NEW p \in Ingesters, MarkFailed(p) PROVE TypeOK' /\ JobsOK'
  <2>1. runs' \in [RunIds -> Run] BY <1>18 DEF MarkFailed, TypeOK, Run
  <2>2. StoreType' BY <2>1, <1>18 DEF MarkFailed, StoreType, catalog
  <2> QED BY <2>2, <1>18, LeaveType DEF MarkFailed
<1>19. ASSUME NEW p \in Ingesters, MarkFails(p) \/ Crash(p) PROVE TypeOK' /\ JobsOK'
  BY <1>19, <1>a, LeaveType DEF MarkFails, Crash
\* Every other step of p is the failure of its transaction.
<1>20. ASSUME NEW p \in Ingesters,
              \/ ArtifactCollides(p) \/ ParseFails(p) \/ RefuseVersion(p)
              \/ RejectWrite(p) \/ RefuseName(p) \/ OrgCollides(p) \/ AliasCollides(p)
              \/ AbortDeadlock(p) \/ PutRawFails(p) \/ StatementFails(p)
       PROVE TypeOK' /\ JobsOK'
  <2>1. pc[p] # "idle" /\ Fail(p)
    <3>1. CASE AbortDeadlock(p)
      <4>1. \E r \in Ingesters : WaitsFor(p, r)
        BY <3>1 DEF AbortDeadlock, Deadlocked
      <4> QED BY <4>1, <3>1 DEF WaitsFor, AbortDeadlock
    <3> QED BY <1>20, <3>1 DEF ArtifactCollides, ParseFails, RefuseVersion, RejectWrite,
          RefuseName, OrgCollides, AliasCollides, PutRawFails, StatementFails, InTransaction
  <2> QED BY <2>1, <1>c
<1> QED BY <1>b, <1>1, <1>2, <1>3, <1>4, <1>5, <1>6, <1>7, <1>8, <1>9, <1>10, <1>11,
          <1>12, <1>13, <1>14, <1>15, <1>16, <1>17, <1>18, <1>19, <1>20
    DEF Next, Live, Begin, Work, Fault, RowOnly

\* Every reachable state has the types the tables and the code give it, and no
\* ingester reads past the end of a payload or of a record's names.
THEOREM TypeCorrect == Spec => []TypeOK
<1>1. Init => TypeInv BY InitType DEF TypeInv
<1>2. TypeInv => TypeOK BY DEF TypeInv
<1> QED BY <1>1, <1>2, TypeStep, PTL DEF Spec

-----------------------------------------------------------------------------
(* Lineage.  It is not inductive: a commit is right because what a            *)
(* transaction has staged still fits the table, and it fits because what was  *)
(* read earlier, without a lock, can only have become stale in ways the       *)
(* unique indexes notice.                                                     *)

\* The record n of p's payload that a staged write came from has been reached.
Reached(p, n) ==
  /\ n \in 1..Len(Records(p))
  /\ pc[p] \in RecordSteps => n < job[p].i
  /\ pc[p] \in NameSteps => n <= job[p].i

\* A staged version follows the record's current one, in number and in time,
\* and changes its fingerprint.
Follows(w) ==
  /\ w.row.to = NoTime
  /\ w.row.version = current[w.row.key] + 1
  /\ w.closes = current[w.row.key]
  /\ \A v \in RowsOf(w.row.key) :
       v.version = w.closes => v.from < w.row.from /\ v.print # w.row.print

StagedOK(p) ==
  /\ pc[p] \notin RecordSteps \cup NameSteps \cup {"commit"} => tx[p].writes = {}
  /\ \A w \in tx[p].writes :
       /\ Follows(w)
       /\ \E n \in Nat : Reached(p, n) /\ Records(p)[n].key = w.row.key

\* No record is written by two transactions, or twice by one.
OneWriter ==
  \A p, q \in Ingesters : \A w \in tx[p].writes, x \in tx[q].writes :
    w.row.key = x.row.key => p = q /\ w = x

\* What p has read of the record at hand, however long ago.
ReadsOK(p) ==
  /\ pc[p] = "compare" => job[p].seen \in 1..current[Rec(p).key]
  /\ pc[p] = "write" =>
       /\ job[p].closes <= current[Rec(p).key]
       /\ job[p].seen <= job[p].closes
       /\ job[p].seen = 0 => job[p].closes = 0
       /\ job[p].seen # 0 => \A v \in RowsOf(Rec(p).key) :
            v.version = job[p].closes => v.from < job[p].at /\ v.print # Rec(p).print

LineageInv ==
  /\ TypeInv
  /\ Lineage /\ NoEmptyVersion
  /\ OneWriter
  /\ \A p \in Ingesters : StagedOK(p) /\ ReadsOK(p)

\* Only p moves.
Only(p) ==
  \A q \in Ingesters \ {p} : pc'[q] = pc[q] /\ job'[q] = job[q] /\ tx'[q] = tx[q]

LEMMA InitLineage == Init => LineageInv
<1> SUFFICES ASSUME Init PROVE LineageInv OBVIOUS
<1>1. TypeInv BY InitType DEF TypeInv
<1>2. \A k \in Keys : RowsOf(k) = {} /\ current[k] = 0 BY DEF Init, RowsOf
<1>3. Lineage BY <1>2 DEF Lineage
<1>4. NoEmptyVersion BY DEF Init, NoEmptyVersion
<1>5. \A p \in Ingesters : pc[p] = "idle" /\ tx[p].writes = {} BY DEF Init, EmptyTx
<1>6. OneWriter BY <1>5 DEF OneWriter
<1>7. \A p \in Ingesters : StagedOK(p) /\ ReadsOK(p) BY <1>5 DEF StagedOK, ReadsOK
<1> QED BY <1>1, <1>3, <1>4, <1>6, <1>7 DEF LineageInv

LEMMA QuietStep ==
  ASSUME LineageInv, TypeInv', NEW p \in Ingesters, Only(p), UNCHANGED <<current, versions>>,
         tx'[p].writes \subseteq tx[p].writes, StagedOK(p)', ReadsOK(p)'
  PROVE  LineageInv'
<1>1. Lineage' BY DEF LineageInv, Lineage, RowsOf
<1>2. NoEmptyVersion' BY DEF LineageInv, NoEmptyVersion
<1>3. \A q \in Ingesters : tx'[q].writes \subseteq tx[q].writes BY DEF Only
<1>4. OneWriter' BY <1>3 DEF LineageInv, OneWriter
<1>5. ASSUME NEW q \in Ingesters, q # p PROVE StagedOK(q)' /\ ReadsOK(q)'
  <2>1. StagedOK(q) /\ ReadsOK(q) BY DEF LineageInv
  <2>2. pc'[q] = pc[q] /\ job'[q] = job[q] /\ tx'[q] = tx[q] BY <1>5 DEF Only
  <2>3. StagedOK(q)' BY <2>1, <2>2 DEF StagedOK, Follows, Reached, Records, RowsOf
  <2>4. ReadsOK(q)' BY <2>1, <2>2 DEF ReadsOK, Rec, Records, RowsOf
  <2> QED BY <2>3, <2>4
<1> QED BY <1>1, <1>2, <1>4, <1>5 DEF LineageInv

\* p drops what it had staged.
LEMMA DropStep ==
  ASSUME LineageInv, TypeInv', NEW p \in Ingesters, UNCHANGED <<current, versions>>,
         Only(p), tx'[p].writes = {}, pc'[p] \notin {"compare", "write"}
  PROVE  LineageInv'
<1>1. StagedOK(p)' BY DEF StagedOK
<1>2. ReadsOK(p)' BY DEF ReadsOK
<1> QED BY <1>1, <1>2, QuietStep

\* p keeps what it has staged and goes on.
LEMMA KeepStep ==
  ASSUME LineageInv, TypeInv', NEW p \in Ingesters, UNCHANGED <<current, versions>>,
         Only(p), tx'[p].writes = tx[p].writes, job'[p].doc = job[p].doc,
         pc'[p] \in RecordSteps \cup NameSteps \cup {"commit"} \/ tx[p].writes = {},
         \A n \in Nat : Reached(p, n) => Reached(p, n)',
         ReadsOK(p)'
  PROVE  LineageInv'
<1>1. StagedOK(p) BY DEF LineageInv
<1>2. \A w \in tx[p].writes : Follows(w)'
  BY <1>1 DEF StagedOK, Follows, RowsOf
<1>3. \A w \in tx[p].writes : \E n \in Nat : Reached(p, n)' /\ Records(p)'[n].key = w.row.key
  BY <1>1 DEF StagedOK, Records
<1>4. StagedOK(p)' BY <1>2, <1>3 DEF StagedOK
<1> QED BY <1>4, QuietStep

\* The next record, or the end.
LEMMA FinishReached ==
  ASSUME TypeInv, TypeInv', NEW p \in Ingesters, pc[p] \in RecordSteps \cup NameSteps,
         FinishRecord(p)
  PROVE  /\ job'[p].doc = job[p].doc
         /\ pc'[p] \in {"seekRecord", "commit"}
         /\ \A n \in Nat : Reached(p, n) => Reached(p, n)'
         /\ ReadsOK(p)'
<1> USE DEF TypeInv
<1>1. /\ job'[p] = [job[p] EXCEPT !.i = @ + 1] /\ job[p] \in Job
      /\ pc'[p] = AfterRecords(p, job[p].i)
      /\ job[p].i \in 1..Len(Records(p))
  BY RecType DEF FinishRecord, Goto, TypeOK
<1>2. job'[p].doc = job[p].doc /\ job'[p].i = job[p].i + 1 BY <1>1 DEF Job
<1>3. pc'[p] \in {"seekRecord", "commit"} BY <1>1 DEF AfterRecords
<1>4. ReadsOK(p)' BY <1>3 DEF ReadsOK
<1>5. ASSUME NEW n \in Nat, Reached(p, n) PROVE Reached(p, n)'
  <2>1. n \in 1..Len(Records(p)) /\ n <= job[p].i
    BY <1>1, <1>5 DEF Reached
  <2>2. Records(p)' = Records(p) BY <1>2 DEF Records
  <2> QED BY <2>1, <2>2, <1>1, <1>2, <1>3 DEF Reached, NameSteps
<1> QED BY <1>2, <1>3, <1>4, <1>5

\* The next name of the record, or its end.
LEMMA NextNameReached ==
  ASSUME TypeInv, TypeInv', NEW p \in Ingesters, pc[p] \in {"write"} \cup NameSteps,
         NEW j \in Nat, NextName(p, j)
  PROVE  /\ job'[p].doc = job[p].doc
         /\ pc'[p] \in {"seekOrg", "seekRecord", "commit"}
         /\ \A n \in Nat : Reached(p, n) => Reached(p, n)'
         /\ \A n \in Nat : n = job[p].i => Reached(p, n)'
         /\ ReadsOK(p)'
<1> USE DEF TypeInv
<1>0. job[p] \in Job /\ job[p].i \in 1..Len(Records(p)) /\ job[p].i \in Nat
  BY RecType DEF RecordSteps
<1>1. CASE FinishRecord(p)
  <2>1. /\ job'[p] = [job[p] EXCEPT !.i = @ + 1]
        /\ pc'[p] = AfterRecords(p, job[p].i)
    BY <1>1 DEF FinishRecord, Goto, TypeOK
  <2>2. job'[p].i = job[p].i + 1 /\ Records(p)' = Records(p)
    BY <2>1, <1>0 DEF Job, Records
  <2>3. ASSUME NEW n \in Nat, n = job[p].i PROVE Reached(p, n)'
    BY <1>0, <2>1, <2>2, <2>3 DEF Reached, AfterRecords, NameSteps
  <2> QED BY <2>3, <1>1, FinishReached DEF RecordSteps
<1>2. CASE Goto(p, "seekOrg") /\ job' = [job EXCEPT ![p].j = j + 1]
  <2>1. job'[p] = [job[p] EXCEPT !.j = j + 1] /\ pc'[p] = "seekOrg"
    BY <1>2 DEF Goto, TypeOK
  <2>2. job'[p].i = job[p].i /\ job'[p].doc = job[p].doc /\ Records(p)' = Records(p)
    BY <2>1, <1>0 DEF Job, Records
  <2>3. \A n \in Nat : Reached(p, n) => Reached(p, n)'
    BY <1>0, <2>1, <2>2 DEF Reached, RecordSteps, NameSteps
  <2>4. ASSUME NEW n \in Nat, n = job[p].i PROVE Reached(p, n)'
    BY <1>0, <2>1, <2>2, <2>4 DEF Reached, RecordSteps
  <2>5. ReadsOK(p)' BY <2>1 DEF ReadsOK
  <2> QED BY <2>1, <2>2, <2>3, <2>4, <2>5
<1> QED BY <1>1, <1>2 DEF NextName

\* What has been staged goes with p's position: two staged writes of one key
\* would come from one record of the payload.
LEMMA StagedBefore ==
  ASSUME LineageInv, NEW p \in Ingesters, pc[p] \in RecordSteps
  PROVE  Rec(p).key \notin StagedKeys(p)
<1> SUFFICES ASSUME NEW w \in tx[p].writes, w.row.key = Rec(p).key PROVE FALSE
  BY DEF StagedKeys
<1>1. PICK n \in Nat : Reached(p, n) /\ Records(p)[n].key = w.row.key
  BY DEF LineageInv, StagedOK
<1>2. /\ Records(p) \in Seq(Record) /\ job[p].doc \in Docs
      /\ job[p].i \in 1..Len(Records(p))
  BY RecType DEF LineageInv, TypeInv, RecordSteps
<1>3. n \in DOMAIN Records(p) /\ job[p].i \in DOMAIN Records(p) /\ n < job[p].i
  BY <1>1, <1>2 DEF Reached, RecordSteps
<1>4. Records(p)[n].key = Records(p)[job[p].i].key BY <1>1 DEF Rec
<1> QED BY <1>2, <1>3, <1>4, DistinctKeysAssumption DEF Records

LEMMA WriteStep ==
  ASSUME LineageInv, TypeInv', NEW p \in Ingesters, WriteVersion(p)
  PROVE  LineageInv'
<1> USE DEF TypeInv
<1>a. PICK w0 : w0 = [row |-> NewRow(p), closes |-> job[p].closes] OBVIOUS
<1>b. PICK k : k = Rec(p).key OBVIOUS
<1>1. /\ pc[p] = "write" /\ Granted(p) /\ ~WriteCollides(p)
      /\ tx' = [tx EXCEPT ![p].writes = @ \cup {w0}]
      /\ NextName(p, 0) /\ UNCHANGED <<store, objects, clock>>
  BY <1>a DEF WriteVersion
<1>2. Only(p) /\ UNCHANGED <<current, versions>>
  BY <1>1 DEF Only, NextName, FinishRecord, Goto, LineageInv, TypeOK, store
<1>3. tx'[p].writes = tx[p].writes \cup {w0} BY <1>1 DEF LineageInv, TypeOK, Transaction
<1>4. /\ k \in Keys /\ job[p].seen \in Nat /\ job[p].closes \in Nat
      /\ current[k] \in Nat
  BY <1>1, <1>b, RecType DEF LineageInv, RecordSteps, TypeOK
<1>5. /\ w0.row.key = k /\ w0.row.version = job[p].seen + 1 /\ w0.row.to = NoTime
      /\ w0.row.from = job[p].at /\ w0.row.print = Rec(p).print /\ w0.closes = job[p].closes
  BY <1>a, <1>b DEF NewRow
<1>6. /\ job[p].closes <= current[k] /\ job[p].seen <= job[p].closes
      /\ job[p].seen = 0 => job[p].closes = 0
      /\ job[p].seen # 0 => \A v \in RowsOf(k) :
           v.version = job[p].closes => v.from < job[p].at /\ v.print # Rec(p).print
  BY <1>1, <1>b DEF LineageInv, ReadsOK
<1>7. {v.version : v \in RowsOf(k)} = 1..current[k] BY <1>4 DEF LineageInv, Lineage
\* What was read is still current: otherwise the unique index is in the way.
<1>8. job[p].seen = current[k] /\ job[p].closes = current[k]
  <2>1. CASE job[p].seen = 0 BY <2>1, <1>1, <1>b, <1>6 DEF WriteCollides
  <2>2. CASE job[p].seen # 0
    <3>1. \A v \in RowsOf(k) : v.version # job[p].seen + 1
      BY <2>2, <1>1, <1>b DEF WriteCollides
    <3>2. job[p].seen + 1 \notin 1..current[k] BY <3>1, <1>7
    <3> QED BY <3>2, <1>4, <1>6
  <2> QED BY <2>1, <2>2
<1>9. Follows(w0)
  <2>1. CASE job[p].seen = 0
    <3>1. \A v \in RowsOf(k) : v.version \in 1..current[k] BY <1>7
    <3>2. \A v \in RowsOf(k) : v.version # w0.closes BY <3>1, <2>1, <1>8
    <3> QED BY <3>2, <1>5, <1>8, <1>4 DEF Follows
  <2>2. CASE job[p].seen # 0
    BY <2>2, <1>5, <1>6, <1>8, <1>b DEF Follows
  <2> QED BY <2>1, <2>2
<1>10. Follows(w0)' BY <1>9, <1>2 DEF Follows, RowsOf
<1>11. k \notin StagedKeys(p) BY <1>1, <1>b, StagedBefore DEF RecordSteps
<1>12. ASSUME NEW q \in Ingesters, q # p PROVE k \notin StagedKeys(q)
  <2>1. ~WaitsFor(p, q) BY <1>1 DEF Granted
  <2>2. job[p].seen = 0 => current[k] = 0 BY <1>8
  <2> QED BY <2>1, <2>2, <1>12, <1>1, <1>b DEF WaitsFor
<1>13. OneWriter'
  <2>1. \A q \in Ingesters : q # p => tx'[q].writes = tx[q].writes BY <1>2 DEF Only
  <2>2. \A q \in Ingesters : \A x \in tx[q].writes : x.row.key # k
    BY <1>11, <1>12 DEF StagedKeys
  <2>3. OneWriter BY DEF LineageInv
  <2> QED BY <2>1, <2>2, <2>3, <1>3, <1>5 DEF OneWriter
<1>14. /\ job'[p].doc = job[p].doc
       /\ pc'[p] \in {"seekOrg", "seekRecord", "commit"}
       /\ \A n \in Nat : Reached(p, n) => Reached(p, n)'
       /\ \A n \in Nat : n = job[p].i => Reached(p, n)'
       /\ ReadsOK(p)'
  BY <1>1, NextNameReached DEF LineageInv
<1>15. StagedOK(p)'
  <2>1. Records(p)' = Records(p) BY <1>14 DEF Records
  <2>2. job[p].i \in Nat /\ Records(p)[job[p].i].key = w0.row.key
    BY <1>1, <1>5, <1>b, RecType DEF Rec, LineageInv, RecordSteps
  <2>3. \A w \in tx[p].writes : /\ Follows(w)'
                                /\ \E n \in Nat : Reached(p, n)' /\ Records(p)'[n].key = w.row.key
    BY <1>2, <1>14, <2>1 DEF LineageInv, StagedOK, Follows, RowsOf
  <2>4. \E n \in Nat : Reached(p, n)' /\ Records(p)'[n].key = w0.row.key
    BY <2>1, <2>2, <1>14
  <2>5. \A w \in tx'[p].writes : /\ Follows(w)'
                                 /\ \E n \in Nat : Reached(p, n)' /\ Records(p)'[n].key = w.row.key
    BY <1>3, <1>10, <2>3, <2>4
  <2>6. pc'[p] \in RecordSteps \cup NameSteps \cup {"commit"}
    BY <1>14 DEF RecordSteps, NameSteps
  <2> QED BY <2>5, <2>6 DEF StagedOK
<1>16. Lineage' /\ NoEmptyVersion'
  BY <1>2 DEF LineageInv, Lineage, NoEmptyVersion, RowsOf
<1>17. ASSUME NEW q \in Ingesters, q # p PROVE StagedOK(q)' /\ ReadsOK(q)'
  <2>1. StagedOK(q) /\ ReadsOK(q) BY DEF LineageInv
  <2>2. pc'[q] = pc[q] /\ job'[q] = job[q] /\ tx'[q] = tx[q] BY <1>17, <1>2 DEF Only
  <2>3. StagedOK(q)' BY <2>1, <2>2, <1>2 DEF StagedOK, Follows, Reached, Records, RowsOf
  <2>4. ReadsOK(q)' BY <2>1, <2>2, <1>2 DEF ReadsOK, Rec, Records, RowsOf
  <2> QED BY <2>3, <2>4
<1> QED BY <1>13, <1>14, <1>15, <1>16, <1>17 DEF LineageInv

\* A commit closes the current version of the records it writes, and nothing else.
LEMMA CloseEffect ==
  ASSUME LineageInv, NEW p \in Ingesters, NEW v \in versions
  PROVE  /\ v.key \notin StagedKeys(p) => Close(v, tx[p].writes) = v
         /\ \A w \in tx[p].writes : w.row.key = v.key =>
              Close(v, tx[p].writes) =
                IF v.version = current[v.key] THEN [v EXCEPT !.to = w.row.from] ELSE v
<1> DEFINE closing == {w \in tx[p].writes : w.row.key = v.key /\ w.closes = v.version}
<1>1. ASSUME v.key \notin StagedKeys(p) PROVE Close(v, tx[p].writes) = v
  <2>1. closing = {} BY <1>1 DEF StagedKeys
  <2> QED BY <2>1 DEF Close
<1>2. ASSUME NEW w \in tx[p].writes, w.row.key = v.key
      PROVE  Close(v, tx[p].writes) =
               IF v.version = current[v.key] THEN [v EXCEPT !.to = w.row.from] ELSE v
  <2>1. w.closes = current[v.key] BY <1>2 DEF LineageInv, StagedOK, Follows
  <2>2. \A x \in tx[p].writes : x.row.key = v.key => x = w
    BY <1>2 DEF LineageInv, OneWriter
  <2>3. CASE v.version = current[v.key]
    <3>1. closing = {w} BY <1>2, <2>1, <2>2, <2>3
    <3>2. (CHOOSE x \in closing : TRUE) = w BY <3>1
    <3> QED BY <3>1, <3>2, <2>3 DEF Close
  <2>4. CASE v.version # current[v.key]
    <3>1. closing = {} BY <1>2, <2>1, <2>2, <2>4
    <3> QED BY <3>1, <2>4 DEF Close
  <2> QED BY <2>3, <2>4
<1> QED BY <1>1, <1>2

LEMMA CloseKeeps ==
  ASSUME LineageInv, NEW p \in Ingesters, NEW v \in versions
  PROVE  LET c == Close(v, tx[p].writes) IN
         /\ c.key = v.key /\ c.version = v.version /\ c.print = v.print /\ c.from = v.from
         /\ c.doc = v.doc /\ c.run = v.run
         /\ c.to = v.to \/ v.version = current[v.key]
<1>1. v \in Row BY DEF LineageInv, TypeInv, TypeOK
<1>2. CASE v.key \notin StagedKeys(p) BY <1>2, CloseEffect
<1>3. CASE v.key \in StagedKeys(p)
  <2>1. PICK w \in tx[p].writes : w.row.key = v.key BY <1>3 DEF StagedKeys
  <2>2. Close(v, tx[p].writes) =
          IF v.version = current[v.key] THEN [v EXCEPT !.to = w.row.from] ELSE v
    BY <2>1, CloseEffect
  <2> QED BY <1>1, <2>2 DEF Row
<1> QED BY <1>2, <1>3

\* What a commit of p does to the rows of a record.
LEMMA PublishRows ==
  ASSUME LineageInv, NEW p \in Ingesters, Publish(p), NEW k \in Keys
  PROVE  /\ k \notin StagedKeys(p) => RowsOf(k)' = RowsOf(k) /\ current'[k] = current[k]
         /\ \A w \in tx[p].writes : w.row.key = k =>
              /\ RowsOf(k)' = {Close(v, tx[p].writes) : v \in RowsOf(k)} \cup {w.row}
              /\ current'[k] = current[k] + 1
<1> DEFINE W == tx[p].writes
<1>0. versions' = {Close(v, W) : v \in versions} \cup {w.row : w \in W}
  BY DEF Publish
<1>1. \A v \in versions : Close(v, W).key = v.key BY CloseKeeps
<1>2. ASSUME k \notin StagedKeys(p)
      PROVE  RowsOf(k)' = RowsOf(k) /\ current'[k] = current[k]
  <2>1. \A w \in W : w.row.key # k BY <1>2 DEF StagedKeys
  <2>2. \A v \in RowsOf(k) : Close(v, W) = v BY <1>2, CloseEffect DEF RowsOf
  <2>3. RowsOf(k)' = {v \in versions' : v.key = k} BY DEF RowsOf
  <2>4. RowsOf(k)' = RowsOf(k) BY <2>1, <2>2, <2>3, <1>0, <1>1 DEF RowsOf
  <2>5. current'[k] = current[k] BY <1>2 DEF Publish
  <2> QED BY <2>4, <2>5
<1>3. ASSUME NEW w \in W, w.row.key = k
      PROVE  /\ RowsOf(k)' = {Close(v, W) : v \in RowsOf(k)} \cup {w.row}
             /\ current'[k] = current[k] + 1
  <2>1. \A x \in W : x.row.key = k => x = w BY <1>3 DEF LineageInv, OneWriter
  <2>2. RowsOf(k)' = {v \in versions' : v.key = k} BY DEF RowsOf
  <2>3. RowsOf(k)' = {Close(v, W) : v \in RowsOf(k)} \cup {w.row}
    BY <2>1, <2>2, <1>0, <1>1, <1>3 DEF RowsOf
  <2>4. (CHOOSE x \in W : x.row.key = k) = w BY <2>1, <1>3
  <2>5. w.row.version = current[k] + 1 BY <1>3 DEF LineageInv, StagedOK, Follows
  <2>6. k \in StagedKeys(p) BY <1>3 DEF StagedKeys
  <2>7. current'[k] = current[k] + 1 BY <2>4, <2>5, <2>6 DEF Publish
  <2> QED BY <2>3, <2>7
<1> QED BY <1>2, <1>3

\* The lineage of one record, and that its neighbours differ.
LineageOf(k) ==
  /\ {v.version : v \in RowsOf(k)} = 1..current[k]
  /\ \A v, w \in RowsOf(k) : v.version = w.version => v = w
  /\ \A v \in RowsOf(k) : v.to = NoTime <=> v.version = current[k]
  /\ \A v, w \in RowsOf(k) :
       w.version = v.version + 1 => v.to = w.from /\ v.from < w.from
  /\ \A v, w \in RowsOf(k) : w.version = v.version + 1 => v.print # w.print

LEMMA LineageByRecord ==
  ASSUME TypeOK
  PROVE  Lineage /\ NoEmptyVersion <=> \A k \in Keys : LineageOf(k)
<1>1. \A v \in versions : v.key \in Keys BY DEF TypeOK, Row
<1> QED BY <1>1 DEF Lineage, NoEmptyVersion, LineageOf, RowsOf

LEMMA PublishLineage ==
  ASSUME LineageInv, TypeInv', NEW p \in Ingesters, Publish(p), NEW k \in Keys
  PROVE  LineageOf(k)'
<1>0. LineageOf(k) BY LineageByRecord DEF LineageInv, TypeInv
<1>1. CASE k \notin StagedKeys(p)
  <2>1. RowsOf(k)' = RowsOf(k) /\ current'[k] = current[k] BY <1>1, PublishRows
  <2> QED BY <1>0, <2>1 DEF LineageOf
<1>2. CASE k \in StagedKeys(p)
  <2>1. PICK w0 \in tx[p].writes : w0.row.key = k BY <1>2 DEF StagedKeys
  <2>2. PICK n : n = current[k] OBVIOUS
  <2>3. PICK s : s = w0.row OBVIOUS
  <2>4. PICK W : W = tx[p].writes OBVIOUS
  <2>5. PICK R : R = RowsOf(k) OBVIOUS
  <2>6. /\ RowsOf(k)' = {Close(v, W) : v \in R} \cup {s}
        /\ current'[k] = n + 1
    BY <2>1, <2>2, <2>3, <2>4, <2>5, PublishRows
  <2>7. /\ n \in Nat /\ s \in Row /\ R \subseteq versions
    BY <2>1, <2>2, <2>3, <2>5 DEF LineageInv, TypeInv, TypeOK, Transaction, Write, RowsOf
  <2>8. \A v \in R : /\ v \in Row
                     /\ Close(v, W) = IF v.version = n THEN [v EXCEPT !.to = s.from] ELSE v
    <3> TAKE v \in R
    <3>1. v \in versions /\ v.key = k BY <2>5, <2>7 DEF RowsOf
    <3>2. v \in Row BY <3>1 DEF LineageInv, TypeInv, TypeOK
    <3>3. Close(v, tx[p].writes) =
            IF v.version = current[v.key] THEN [v EXCEPT !.to = w0.row.from] ELSE v
      BY <2>1, <3>1, CloseEffect
    <3> QED BY <3>1, <3>2, <3>3, <2>2, <2>3, <2>4
  <2>9. /\ s.version = n + 1 /\ s.to = NoTime
        /\ \A v \in R : v.version = n => v.from < s.from /\ v.print # s.print
    BY <2>1, <2>2, <2>3, <2>5 DEF LineageInv, StagedOK, Follows
  <2>10. /\ {v.version : v \in R} = 1..n
         /\ \A v, w \in R : v.version = w.version => v = w
         /\ \A v \in R : v.to = NoTime <=> v.version = n
         /\ \A v, w \in R : w.version = v.version + 1 => v.to = w.from /\ v.from < w.from
         /\ \A v, w \in R : w.version = v.version + 1 => v.print # w.print
    BY <1>0, <2>2, <2>5 DEF LineageOf
  <2>11. NoTime \notin Nat /\ s.from \in Nat BY <2>7, IngestionAssumption DEF Row, Times
  <2> DEFINE C(v) == IF v.version = n THEN [v EXCEPT !.to = s.from] ELSE v
  <2>12. RowsOf(k)' = {C(v) : v \in R} \cup {s} BY <2>6, <2>8
  \* The closed rows keep their number, and only the last of them gets an end.
  <2>13. \A v \in R : /\ C(v).version = v.version /\ C(v).from = v.from
                      /\ C(v).print = v.print /\ v.version \in 1..n
                      /\ C(v).to = IF v.version = n THEN s.from ELSE v.to
    BY <2>8, <2>10 DEF Row
  <2> HIDE DEF C
  <2>14. {v.version : v \in RowsOf(k)'} = 1..(n + 1)
    <3>1. {v.version : v \in RowsOf(k)'} = {v.version : v \in R} \cup {n + 1}
      BY <2>12, <2>13, <2>9
    <3> QED BY <3>1, <2>10, <2>7
  <2>15. \A v, w \in RowsOf(k)' : v.version = w.version => v = w
    BY <2>7, <2>9, <2>10, <2>12, <2>13
  <2>16. \A v \in RowsOf(k)' : v.to = NoTime <=> v.version = n + 1
    BY <2>7, <2>9, <2>10, <2>11, <2>12, <2>13
  <2>17. \A v, w \in RowsOf(k)' :
           w.version = v.version + 1 => v.to = w.from /\ v.from < w.from
    BY <2>7, <2>9, <2>10, <2>12, <2>13
  <2>18. \A v, w \in RowsOf(k)' : w.version = v.version + 1 => v.print # w.print
    BY <2>7, <2>9, <2>10, <2>12, <2>13
  <2> QED BY <2>6, <2>14, <2>15, <2>16, <2>17, <2>18 DEF LineageOf
<1> QED BY <1>1, <1>2

LEMMA PublishStep ==
  ASSUME LineageInv, TypeInv', NEW p \in Ingesters, Publish(p), Only(p),
         tx'[p].writes = {}, pc'[p] \in {"idle", "failing"}
  PROVE  LineageInv'
<1>1. Lineage' /\ NoEmptyVersion'
  <2>1. (TypeOK => (Lineage /\ NoEmptyVersion <=> \A k \in Keys : LineageOf(k)))'
    BY LineageByRecord, PTL
  <2> QED BY <2>1, PublishLineage DEF TypeInv
<1>2. OneWriter'
  <2>1. \A q \in Ingesters : tx'[q].writes \subseteq tx[q].writes BY DEF Only
  <2> QED BY <2>1 DEF LineageInv, OneWriter
<1>3. StagedOK(p)' /\ ReadsOK(p)' BY DEF StagedOK, ReadsOK
<1>4. ASSUME NEW q \in Ingesters, q # p PROVE StagedOK(q)' /\ ReadsOK(q)'
  <2>1. pc'[q] = pc[q] /\ job'[q] = job[q] /\ tx'[q] = tx[q] BY <1>4 DEF Only
  <2>2. ASSUME NEW w \in tx[q].writes PROVE Follows(w)'
    <3>1. Follows(w) BY DEF LineageInv, StagedOK
    <3>2. w.row.key \in Keys
      BY DEF LineageInv, TypeInv, TypeOK, Transaction, Write, Row
    <3>3. w.row.key \notin StagedKeys(p)
      BY <1>4 DEF StagedKeys, LineageInv, OneWriter
    <3>4. RowsOf(w.row.key)' = RowsOf(w.row.key) /\ current'[w.row.key] = current[w.row.key]
      BY <3>2, <3>3, PublishRows
    <3> QED BY <3>1, <3>4 DEF Follows
  <2>3. StagedOK(q)'
    BY <2>1, <2>2 DEF LineageInv, StagedOK, Reached, Records
  <2>4. ReadsOK(q)'
    <3> SUFFICES ASSUME pc[q] \in {"compare", "write"} PROVE ReadsOK(q)'
      BY <2>1 DEF ReadsOK
    <3>1. PICK k : k = Rec(q).key OBVIOUS
    <3>2. /\ k \in Keys /\ job[q].seen \in Nat /\ job[q].closes \in Nat /\ current[k] \in Nat
      BY <3>1, RecType DEF LineageInv, TypeInv, TypeOK, RecordSteps
    <3>3. Rec(q)' = Rec(q) BY <2>1 DEF Rec, Records
    <3>4. ReadsOK(q) BY DEF LineageInv
    <3>5. current'[k] \in {current[k], current[k] + 1}
      BY <3>2, PublishRows DEF StagedKeys
    \* Every row is an old one, perhaps closed, or starts the next version.
    <3>6. \A v \in RowsOf(k)' : \/ v.version = current[k] + 1
                                \/ \E u \in RowsOf(k) : /\ u.version = v.version
                                                        /\ u.from = v.from /\ u.print = v.print
      <4>1. CASE k \notin StagedKeys(p) BY <4>1, <3>2, PublishRows
      <4>2. CASE k \in StagedKeys(p)
        <5>1. PICK w \in tx[p].writes : w.row.key = k BY <4>2 DEF StagedKeys
        <5>2. RowsOf(k)' = {Close(v, tx[p].writes) : v \in RowsOf(k)} \cup {w.row}
          BY <5>1, <3>2, PublishRows
        <5>3. w.row.version = current[k] + 1 BY <5>1 DEF LineageInv, StagedOK, Follows
        <5>4. \A v \in RowsOf(k) : LET c == Close(v, tx[p].writes) IN
                c.version = v.version /\ c.from = v.from /\ c.print = v.print
          BY CloseKeeps DEF RowsOf
        <5> QED BY <5>2, <5>3, <5>4
      <4> QED BY <4>1, <4>2
    <3> QED BY <2>1, <3>1, <3>2, <3>3, <3>4, <3>5, <3>6 DEF ReadsOK
  <2> QED BY <2>3, <2>4
<1> QED BY <1>1, <1>2, <1>3, <1>4 DEF LineageInv

\* Lineage says nothing of the catalog, the runs and the raw bytes.
LEMMA LineageSame ==
  ASSUME LineageInv, TypeInv', UNCHANGED <<current, versions, pc, job, tx>>
  PROVE  LineageInv'
<1>1. UNCHANGED <<current, versions, pc, job, tx>> OBVIOUS
<1>2. Lineage' /\ NoEmptyVersion' BY <1>1 DEF LineageInv, Lineage, NoEmptyVersion, RowsOf
<1>3. OneWriter' BY <1>1 DEF LineageInv, OneWriter
<1>4. ASSUME NEW p \in Ingesters PROVE StagedOK(p)' /\ ReadsOK(p)'
  <2>1. StagedOK(p) BY DEF LineageInv
  <2>2. \A w : Follows(w) => Follows(w)' BY <1>1 DEF Follows, RowsOf
  <2>3. \A n : Reached(p, n)' <=> Reached(p, n) BY <1>1 DEF Reached, Records
  <2>4. Records(p)' = Records(p) BY <1>1 DEF Records
  <2>5. StagedOK(p)' BY <1>1, <2>1, <2>2, <2>3, <2>4 DEF StagedOK
  <2>6. ReadsOK(p)' BY <1>1 DEF LineageInv, ReadsOK, Rec, Records, RowsOf
  <2> QED BY <2>5, <2>6
<1> QED BY <1>2, <1>3, <1>4 DEF LineageInv

LEMMA LineageStep == LineageInv /\ [Next]_vars => LineageInv'
<1> SUFFICES ASSUME LineageInv, [Next]_vars PROVE LineageInv' OBVIOUS
<1>0. TypeInv /\ TypeInv' BY TypeStep DEF LineageInv
<1> USE <1>0
<1>a. ASSUME UNCHANGED <<current, versions, pc, job, tx>> PROVE LineageInv'
  BY <1>a, LineageSame
<1>b. ASSUME NEW p \in Ingesters, Fail(p) PROVE LineageInv'
  <2>1. /\ UNCHANGED <<current, versions>> /\ Only(p)
        /\ tx'[p] = EmptyTx /\ pc'[p] = "failing"
    BY <1>b DEF Fail, Goto, Only, store, TypeInv, TypeOK
  <2> QED BY <2>1, DropStep DEF EmptyTx
<1>c. ASSUME NEW p \in Ingesters, Leave(p)
      PROVE  Only(p) /\ tx'[p].writes = {} /\ pc'[p] = "idle"
  BY <1>c DEF Leave, Goto, Only, EmptyTx, TypeInv, TypeOK
\* Before the third transaction nothing is staged.
<1>d. ASSUME NEW p \in Ingesters, pc[p] \in {"idle", "put", "seekArtifact", "saveArtifact", "parse"},
             pc'[p] \in Steps \ {"compare", "write"},
             UNCHANGED <<current, versions, tx>>, Only(p)
      PROVE  LineageInv'
  <2>1. tx[p].writes = {} BY <1>d DEF LineageInv, StagedOK, RecordSteps, NameSteps
  <2> QED BY <1>d, <2>1, DropStep
<1>1. CASE Tick BY <1>1, <1>a DEF Tick, store
<1>2. CASE UNCHANGED vars BY <1>2, <1>a DEF vars, store
<1>3. ASSUME NEW p \in Ingesters, RowOnly(p) PROVE LineageInv'
  BY <1>3, <1>a DEF RowOnly, StartUnacknowledged, RecordFetchFailure
<1>4. ASSUME NEW p \in Ingesters, StartRun(p) PROVE LineageInv'
  BY <1>4, <1>d DEF StartRun, Goto, Only, Steps, TypeInv, TypeOK
<1>5. ASSUME NEW p \in Ingesters, PutRaw(p) PROVE LineageInv'
  BY <1>5, <1>d DEF PutRaw, Goto, Only, Steps, store, TypeInv, TypeOK
<1>6. ASSUME NEW p \in Ingesters, SeekArtifact(p) PROVE LineageInv'
  BY <1>6, <1>d DEF SeekArtifact, Goto, Only, Steps, store, TypeInv, TypeOK
<1>7. ASSUME NEW p \in Ingesters, SaveArtifact(p) PROVE LineageInv'
  BY <1>7, <1>d DEF SaveArtifact, Goto, Only, Steps, TypeInv, TypeOK
<1>8. ASSUME NEW p \in Ingesters, Parse(p) PROVE LineageInv'
  BY <1>8, <1>d DEF Parse, AfterRecords, Goto, Only, Steps, store, TypeInv, TypeOK
<1>9. ASSUME NEW p \in Ingesters, SeekRecord(p) PROVE LineageInv'
  <2> DEFINE cv == current[Rec(p).key]
             x == [job[p] EXCEPT !.seen = cv, !.closes = 0]
  <2>1. /\ UNCHANGED <<current, versions, tx>> /\ Only(p)
        /\ pc[p] = "seekRecord" /\ pc'[p] = IF cv = 0 THEN "write" ELSE "compare"
        /\ job'[p] = x
    BY <1>9 DEF SeekRecord, Goto, Only, store, TypeInv, TypeOK
  <2>2. cv \in Nat BY <1>9, RecType DEF SeekRecord, RecordSteps, TypeInv, TypeOK
  <2>3. job[p] \in Job BY DEF TypeInv, TypeOK
  <2>4. /\ job'[p].doc = job[p].doc /\ job'[p].i = job[p].i /\ job'[p].seen = cv
        /\ job'[p].closes = 0 /\ Rec(p)' = Rec(p) /\ Records(p)' = Records(p)
    BY <2>1, <2>3 DEF Job, Rec, Records
  <2>5. \A n \in Nat : Reached(p, n) => Reached(p, n)'
    BY <2>1, <2>4 DEF Reached, RecordSteps, NameSteps
  <2>6. ReadsOK(p)' BY <2>1, <2>2, <2>4 DEF ReadsOK
  <2>7. pc'[p] \in RecordSteps BY <2>1 DEF RecordSteps
  <2> QED BY <2>1, <2>4, <2>5, <2>6, <2>7, KeepStep
<1>10. ASSUME NEW p \in Ingesters, KeepVersion(p) PROVE LineageInv'
  <2>1. UNCHANGED <<current, versions, tx>> /\ Only(p) /\ pc[p] \in RecordSteps
    BY <1>10 DEF KeepVersion, FinishRecord, Goto, Only, store, TypeInv, TypeOK, RecordSteps
  <2>2. /\ job'[p].doc = job[p].doc /\ pc'[p] \in {"seekRecord", "commit"}
        /\ \A n \in Nat : Reached(p, n) => Reached(p, n)'
        /\ ReadsOK(p)'
    BY <2>1, <1>10, FinishReached DEF KeepVersion
  <2> QED BY <2>1, <2>2, KeepStep DEF RecordSteps
<1>11. ASSUME NEW p \in Ingesters, SupersedeVersion(p) PROVE LineageInv'
  <2>1. PICK k : k = Rec(p).key OBVIOUS
  <2>2. PICK u \in OpenRows(k) :
          /\ u.print # Rec(p).print /\ u.from < job[p].at
          /\ job' = [job EXCEPT ![p].closes = u.version]
    BY <1>11, <2>1 DEF SupersedeVersion
  <2>3. /\ UNCHANGED <<current, versions, tx>> /\ Only(p)
        /\ pc[p] = "compare" /\ pc'[p] = "write"
        /\ job'[p] = [job[p] EXCEPT !.closes = u.version]
    BY <1>11, <2>2 DEF SupersedeVersion, Goto, Only, store, TypeInv, TypeOK
  <2>4. job[p] \in Job /\ k \in Keys
    BY <2>1, <2>3, RecType DEF RecordSteps, TypeInv, TypeOK
  <2>5. /\ job'[p].doc = job[p].doc /\ job'[p].i = job[p].i /\ job'[p].seen = job[p].seen
        /\ job'[p].at = job[p].at /\ job'[p].closes = u.version
        /\ Rec(p)' = Rec(p) /\ Records(p)' = Records(p)
    BY <2>3, <2>4 DEF Job, Rec, Records
  \* The open version is the current one, and the only one of its number.
  <2>6. /\ u.version = current[k]
        /\ \A v \in RowsOf(k) : v.version = u.version => v = u
    BY <2>2, <2>4 DEF OpenRows, RowsOf, LineageInv, Lineage
  <2>7. job[p].seen \in 1..current[k] /\ current[k] \in Nat
    BY <2>1, <2>3, <2>4 DEF LineageInv, ReadsOK, TypeInv, TypeOK
  <2>8. RowsOf(k)' = RowsOf(k) BY <2>3 DEF RowsOf
  <2>9. ReadsOK(p)' BY <2>1, <2>2, <2>3, <2>5, <2>6, <2>7, <2>8 DEF ReadsOK
  <2>10. \A n \in Nat : Reached(p, n) => Reached(p, n)'
    BY <2>3, <2>5 DEF Reached, RecordSteps, NameSteps
  <2> QED BY <2>3, <2>5, <2>9, <2>10, KeepStep DEF RecordSteps
<1>12. ASSUME NEW p \in Ingesters, WriteVersion(p) PROVE LineageInv'
  BY <1>12, WriteStep
<1>13. ASSUME NEW p \in Ingesters, SeekOrg(p) \/ AddOrg(p) PROVE LineageInv'
  <2>1. /\ UNCHANGED <<current, versions, job>> /\ Only(p)
        /\ tx'[p].writes = tx[p].writes
        /\ pc[p] \in NameSteps /\ pc'[p] \in NameSteps
    BY <1>13 DEF SeekOrg, AddOrg, Goto, Only, store, TypeInv, TypeOK, Transaction, NameSteps
  <2>2. \A n \in Nat : Reached(p, n) => Reached(p, n)'
    BY <2>1 DEF Reached, Records, RecordSteps, NameSteps
  <2>3. ReadsOK(p)' BY <2>1 DEF ReadsOK, NameSteps
  <2> QED BY <2>1, <2>2, <2>3, KeepStep
<1>e. ASSUME NEW p \in Ingesters, pc[p] \in NameSteps, AddLink(p),
             UNCHANGED <<store, objects, clock>>
      PROVE  LineageInv'
  <2>1. /\ UNCHANGED <<current, versions>> /\ Only(p) /\ tx'[p].writes = tx[p].writes
    BY <1>e DEF AddLink, NextName, FinishRecord, Goto, Only, store, TypeInv, TypeOK, Transaction
  <2>2. job[p].j \in Nat BY DEF TypeInv, TypeOK, Job
  <2>3. /\ job'[p].doc = job[p].doc
        /\ pc'[p] \in {"seekOrg", "seekRecord", "commit"}
        /\ \A n \in Nat : Reached(p, n) => Reached(p, n)'
        /\ ReadsOK(p)'
    BY <1>e, <2>2, NextNameReached DEF AddLink
  <2> QED BY <2>1, <2>3, KeepStep DEF RecordSteps, NameSteps
<1>14. ASSUME NEW p \in Ingesters, SeekAlias(p) PROVE LineageInv'
  <2>1. pc[p] = "seekAlias" /\ UNCHANGED <<store, objects, clock>>
    BY <1>14 DEF SeekAlias
  <2>2. CASE AddLink(p) BY <2>1, <2>2, <1>e DEF NameSteps
  <2>3. CASE Goto(p, "addAlias") /\ UNCHANGED <<job, tx>>
    <3>1. /\ UNCHANGED <<current, versions, job>> /\ Only(p) /\ tx'[p].writes = tx[p].writes
          /\ pc'[p] = "addAlias"
      BY <2>1, <2>3 DEF Goto, Only, store, TypeInv, TypeOK
    <3>2. \A n \in Nat : Reached(p, n) => Reached(p, n)'
      BY <2>1, <3>1 DEF Reached, Records, RecordSteps, NameSteps
    <3>3. ReadsOK(p)' BY <3>1 DEF ReadsOK
    <3> QED BY <3>1, <3>2, <3>3, KeepStep DEF NameSteps
  <2> QED BY <2>2, <2>3, <1>14 DEF SeekAlias
<1>15. ASSUME NEW p \in Ingesters, AddAlias(p) PROVE LineageInv'
  BY <1>15, <1>e DEF AddAlias, NameSteps
<1>16. ASSUME NEW p \in Ingesters, CommitRun(p) PROVE LineageInv'
  BY <1>16, <1>c, PublishStep DEF CommitRun
<1>17. ASSUME NEW p \in Ingesters, CommitUnacknowledged(p) PROVE LineageInv'
  <2>1. Only(p) /\ tx'[p].writes = {} /\ pc'[p] = "failing"
    BY <1>17 DEF CommitUnacknowledged, Goto, Only, EmptyTx, TypeInv, TypeOK
  <2> QED BY <2>1, <1>17, PublishStep DEF CommitUnacknowledged
<1>18. ASSUME NEW p \in Ingesters, MarkFailed(p) \/ MarkFails(p) \/ Crash(p)
       PROVE  LineageInv'
  <2>1. UNCHANGED <<current, versions>> /\ Leave(p)
    BY <1>18 DEF MarkFailed, MarkFails, Crash, store
  <2> QED BY <2>1, <1>c, DropStep
<1>19. ASSUME NEW p \in Ingesters,
              \/ ArtifactCollides(p) \/ ParseFails(p) \/ RefuseVersion(p)
              \/ RejectWrite(p) \/ RefuseName(p) \/ OrgCollides(p) \/ AliasCollides(p)
              \/ AbortDeadlock(p) \/ PutRawFails(p) \/ StatementFails(p)
       PROVE LineageInv'
  <2>1. Fail(p)
    BY <1>19 DEF ArtifactCollides, ParseFails, RefuseVersion, RejectWrite, RefuseName,
       OrgCollides, AliasCollides, AbortDeadlock, PutRawFails, StatementFails
  <2> QED BY <2>1, <1>b
<1> QED BY <1>1, <1>2, <1>3, <1>4, <1>5, <1>6, <1>7, <1>8, <1>9, <1>10, <1>11, <1>12,
          <1>13, <1>14, <1>15, <1>16, <1>17, <1>18, <1>19
    DEF Next, Live, Begin, Work, Fault, RowOnly

\* Whatever the interleaving of concurrent runs, the versions of a record form one
\* gapless chain of adjoining intervals with exactly its last one open, and its
\* current_version is that one (_apply_record under READ COMMITTED).
THEOREM LineageHolds == Spec => []Lineage
<1>1. Init => LineageInv BY InitLineage
<1>2. LineageInv => Lineage BY DEF LineageInv
<1> QED BY <1>1, <1>2, LineageStep, PTL DEF Spec

\* Concurrent runs never add a version that repeats its predecessor.
THEOREM NoEmptyVersionHolds == Spec => []NoEmptyVersion
<1>1. Init => LineageInv BY InitLineage
<1>2. LineageInv => NoEmptyVersion BY DEF LineageInv
<1> QED BY <1>1, <1>2, LineageStep, PTL DEF Spec

\* A step is a commit or leaves the versions alone.
LEMMA OnlyCommitsWrite ==
  ASSUME [Next]_vars, ~UNCHANGED <<current, versions>>
  PROVE  \E p \in Ingesters : pc[p] = "commit" /\ Publish(p)
<1>1. ~Tick BY DEF Tick, store
<1>2. \A p \in Ingesters : ~Begin(p) /\ ~Crash(p)
  BY DEF Begin, StartRun, StartUnacknowledged, RecordFetchFailure, Crash, store
<1>3. \A p \in Ingesters : Work(p) => CommitRun(p)
  BY DEF Work, PutRaw, SeekArtifact, SaveArtifact, ArtifactCollides, Parse, ParseFails,
     SeekRecord, KeepVersion, SupersedeVersion, RefuseVersion, WriteVersion, RejectWrite,
     SeekOrg, RefuseName, AddOrg, OrgCollides, SeekAlias, AddAlias, AliasCollides,
     MarkFailed, AbortDeadlock, Fail, store
<1>4. \A p \in Ingesters : Fault(p) => CommitUnacknowledged(p)
  BY DEF Fault, PutRawFails, StatementFails, MarkFails, Fail, store
<1>5. ~UNCHANGED vars BY DEF vars, store
<1> QED BY <1>1, <1>2, <1>3, <1>4, <1>5 DEF Next, Live, CommitRun, CommitUnacknowledged

\* A version stays as it is, or is closed, once.
Kept(v) == \/ v \in versions'
           \/ v.to = NoTime /\ \E t \in Times : [v EXCEPT !.to = t] \in versions'

LEMMA StepKeeps ==
  ASSUME LineageInv, [Next]_vars, NEW v \in versions
  PROVE  Kept(v)
<1>1. CASE UNCHANGED <<current, versions>> BY <1>1 DEF Kept
<1>2. CASE ~UNCHANGED <<current, versions>>
  <2>1. PICK p \in Ingesters : Publish(p) BY <1>2, OnlyCommitsWrite
  <2>2. Close(v, tx[p].writes) \in versions' BY <2>1 DEF Publish
  <2>3. CASE v.key \notin StagedKeys(p) BY <2>2, <2>3, CloseEffect DEF Kept
  <2>4. CASE v.key \in StagedKeys(p)
    <3>1. PICK w \in tx[p].writes : w.row.key = v.key BY <2>4 DEF StagedKeys
    <3>2. Close(v, tx[p].writes) =
            IF v.version = current[v.key] THEN [v EXCEPT !.to = w.row.from] ELSE v
      BY <3>1, CloseEffect
    <3>3. v.key \in Keys /\ w.row.from \in Times
      BY <3>1 DEF LineageInv, TypeInv, TypeOK, Row, Write, Transaction
    <3>4. v.version = current[v.key] => v.to = NoTime
      BY <3>3 DEF LineageInv, Lineage, RowsOf
    <3> QED BY <2>2, <3>2, <3>3, <3>4 DEF Kept
  <2> QED BY <2>3, <2>4
<1> QED BY <1>1, <1>2

\* No commit rewrites a version that was committed before: the only change ever
\* made to a row closes it, once.
THEOREM VersionsStay == Spec => VersionsAreImmutable
<1>1. LineageInv /\ [Next]_vars => \A v \in versions : Kept(v) BY StepKeeps
<1>2. Init => LineageInv BY InitLineage
<1>3. LineageInv /\ [Next]_vars =>
        [\A v \in versions : \/ v \in versions'
                             \/ /\ v.to = NoTime
                                /\ \E t \in Times : [v EXCEPT !.to = t] \in versions']_vars
  BY <1>1 DEF Kept
<1> QED BY <1>2, <1>3, LineageStep, PTL DEF Spec, VersionsAreImmutable

-----------------------------------------------------------------------------
(* The steps.  Every failure and every death of p drops its transaction and   *)
(* changes nothing else, so the proofs below take them together.              *)

Drop(p) ==
  /\ UNCHANGED <<store, objects>>
  /\ tx'[p] = EmptyTx
  /\ \/ pc'[p] = "idle"
     \/ pc[p] # "idle" /\ pc'[p] = "failing" /\ job'[p] = job[p]

\* What p does before its records are applied, and after.
Prepare(p) ==
  \/ StartRun(p) \/ PutRaw(p) \/ SeekArtifact(p) \/ SaveArtifact(p) \/ Parse(p)

Apply(p) ==
  \/ SeekRecord(p) \/ KeepVersion(p) \/ SupersedeVersion(p) \/ WriteVersion(p)
  \/ SeekOrg(p) \/ AddOrg(p) \/ SeekAlias(p) \/ AddAlias(p)

End(p) == CommitRun(p) \/ CommitUnacknowledged(p) \/ MarkFailed(p)

Idles == UNCHANGED <<store, objects, pc, job, tx>>

LEMMA StepKinds ==
  ASSUME TypeInv, [Next]_vars
  PROVE  \/ Idles
         \/ \E p \in Ingesters : RowOnly(p)
         \/ \E p \in Ingesters : Only(p) /\ (Drop(p) \/ Prepare(p) \/ Apply(p) \/ End(p))
<1> USE DEF TypeInv, TypeOK
<1>1. Tick \/ UNCHANGED vars => Idles BY DEF Tick, vars, store, catalog, Idles
<1>2. ASSUME NEW p \in Ingesters, Leave(p) PROVE Only(p) /\ tx'[p] = EmptyTx /\ pc'[p] = "idle"
  BY <1>2 DEF Leave, Goto, Only
<1>3. ASSUME NEW p \in Ingesters, Fail(p), pc[p] # "idle" PROVE Only(p) /\ Drop(p)
  BY <1>3 DEF Fail, Goto, Only, Drop
<1>4. ASSUME NEW p \in Ingesters,
             \/ ArtifactCollides(p) \/ ParseFails(p) \/ RefuseVersion(p)
             \/ RejectWrite(p) \/ RefuseName(p) \/ OrgCollides(p) \/ AliasCollides(p)
             \/ AbortDeadlock(p) \/ PutRawFails(p) \/ StatementFails(p)
      PROVE  Only(p) /\ Drop(p)
  <2>1. pc[p] # "idle" /\ Fail(p)
    <3>1. CASE AbortDeadlock(p)
      <4>1. \E r \in Ingesters : WaitsFor(p, r) BY <3>1 DEF AbortDeadlock, Deadlocked
      <4> QED BY <4>1, <3>1 DEF WaitsFor, AbortDeadlock
    <3> QED BY <1>4, <3>1 DEF ArtifactCollides, ParseFails, RefuseVersion, RejectWrite,
          RefuseName, OrgCollides, AliasCollides, PutRawFails, StatementFails, InTransaction
  <2> QED BY <2>1, <1>3
<1>5. ASSUME NEW p \in Ingesters, MarkFails(p) \/ Crash(p) PROVE Only(p) /\ Drop(p)
  BY <1>5, <1>2 DEF MarkFails, Crash, Drop
<1>6. ASSUME NEW p \in Ingesters, Prepare(p) PROVE Only(p)
  BY <1>6 DEF Prepare, StartRun, PutRaw, SeekArtifact, SaveArtifact, Parse, Goto, Only
<1>7. ASSUME NEW p \in Ingesters, Apply(p) PROVE Only(p)
  BY <1>7 DEF Apply, SeekRecord, KeepVersion, SupersedeVersion, WriteVersion, SeekOrg, AddOrg,
     SeekAlias, AddAlias, AddLink, NextName, FinishRecord, Goto, Only
<1>8. ASSUME NEW p \in Ingesters, End(p) PROVE Only(p)
  BY <1>8, <1>2 DEF End, CommitRun, CommitUnacknowledged, MarkFailed, Goto, Only
<1> QED BY <1>1, <1>4, <1>5, <1>6, <1>7, <1>8
    DEF Next, Live, Begin, Work, Fault, RowOnly, Prepare, Apply, End

\* The third transaction is open.
Applying == RecordSteps \cup NameSteps \cup {"commit"}

\* Applying a record leaves the tables, and what p is about, alone.
LEMMA ApplyKeeps ==
  ASSUME TypeInv, NEW p \in Ingesters, Apply(p)
  PROVE  /\ UNCHANGED <<store, objects>>
         /\ pc[p] \in RecordSteps \cup NameSteps /\ pc'[p] \in Applying
         /\ job'[p].run = job[p].run /\ job'[p].doc = job[p].doc /\ job'[p].at = job[p].at
         /\ Records(p)' = Records(p)
<1> USE DEF TypeInv, TypeOK
<1>1. UNCHANGED <<store, objects>> /\ pc[p] \in RecordSteps \cup NameSteps
  BY DEF Apply, SeekRecord, KeepVersion, SupersedeVersion, WriteVersion, SeekOrg, AddOrg,
     SeekAlias, AddAlias, RecordSteps, NameSteps
<1>2. pc'[p] \in Applying
  BY DEF Apply, SeekRecord, KeepVersion, SupersedeVersion, WriteVersion, SeekOrg, AddOrg,
     SeekAlias, AddAlias, AddLink, NextName, FinishRecord, AfterRecords, Goto, RecordSteps,
     NameSteps, Applying
<1>3. job[p] \in Job OBVIOUS
<1>4. /\ job'[p].run = job[p].run /\ job'[p].doc = job[p].doc /\ job'[p].at = job[p].at
  <2>1. CASE SeekRecord(p) BY <2>1, <1>3 DEF SeekRecord, Job
  <2>2. CASE KeepVersion(p) BY <2>2, <1>3 DEF KeepVersion, FinishRecord, Job
  <2>3. CASE SupersedeVersion(p) BY <2>3, <1>3 DEF SupersedeVersion, Job
  <2>4. CASE WriteVersion(p) BY <2>4, <1>3 DEF WriteVersion, NextName, FinishRecord, Job
  <2>5. CASE SeekOrg(p) \/ AddOrg(p) BY <2>5 DEF SeekOrg, AddOrg
  <2>6. CASE SeekAlias(p) \/ AddAlias(p)
    BY <2>6, <1>3 DEF SeekAlias, AddAlias, AddLink, NextName, FinishRecord, Job
  <2> QED BY <2>1, <2>2, <2>3, <2>4, <2>5, <2>6 DEF Apply
<1> QED BY <1>1, <1>2, <1>4 DEF Records

-----------------------------------------------------------------------------
(* Runs and raw bytes.  A version is traced through the run that p owns while *)
(* it works on it: a run has one owner at a time, it is running until p is    *)
(* done with it, and the payload p applies was stored and recorded before.    *)

RawOK(p) ==
  /\ pc[p] # "idle" => \/ runs[job[p].run].status = "running"
                       \/ pc[p] = "failing" /\ runs[job[p].run].status = "succeeded"
  /\ pc[p] \in {"seekArtifact", "saveArtifact"} => job[p].doc \in objects
  /\ pc[p] \in {"parse"} \cup Applying =>
       job[p].doc \in artifacts /\ runs[job[p].run].doc = job[p].doc
  /\ \A w \in tx[p].writes :
       w.row.doc = job[p].doc /\ w.row.run = job[p].run /\ w.row.from = job[p].at

OneOwner ==
  \A p, q \in Ingesters :
    pc[p] # "idle" /\ pc[q] # "idle" /\ job[p].run = job[q].run => p = q

Traced(v) ==
  /\ v.doc \in artifacts /\ runs[v.run].doc = v.doc
  /\ runs[v.run].status \in {"succeeded", "failed"}

RawInv ==
  /\ LineageInv
  /\ artifacts \subseteq objects
  /\ \A v \in versions : Traced(v)
  /\ OneOwner
  /\ \A p \in Ingesters : RawOK(p)

LEMMA InitRaw == Init => RawInv
<1> SUFFICES ASSUME Init PROVE RawInv OBVIOUS
<1>1. LineageInv BY InitLineage
<1>2. \A p \in Ingesters : pc[p] = "idle" /\ tx[p].writes = {} BY DEF Init, EmptyTx
<1>3. \A p \in Ingesters : RawOK(p) BY <1>2 DEF RawOK, Applying, RecordSteps, NameSteps
<1>4. OneOwner BY <1>2 DEF OneOwner
<1> QED BY <1>1, <1>3, <1>4 DEF RawInv, Init

\* p moves, the versions stay, and p touches no run but its own.
LEMMA RawMove ==
  ASSUME RawInv, LineageInv', NEW p \in Ingesters, Only(p), UNCHANGED versions,
         objects \subseteq objects', artifacts \subseteq artifacts', artifacts' \subseteq objects',
         RawOK(p)',
         \A q \in Ingesters \ {p} : pc[q] # "idle" =>
           /\ runs'[job[q].run] = runs[job[q].run]
           /\ pc'[p] # "idle" => job'[p].run # job[q].run,
         \A v \in versions : runs'[v.run].doc = runs[v.run].doc
                             /\ runs'[v.run].status \in {"succeeded", "failed"}
  PROVE  RawInv'
<1>1. \A v \in versions' : Traced(v)' BY DEF RawInv, Traced
<1>2. OneOwner' BY DEF RawInv, OneOwner, Only
<1>3. ASSUME NEW q \in Ingesters, q # p PROVE RawOK(q)'
  <2>1. RawOK(q) /\ pc'[q] = pc[q] /\ job'[q] = job[q] /\ tx'[q] = tx[q]
    BY <1>3 DEF RawInv, Only
  <2>2. pc[q] # "idle" => runs'[job[q].run] = runs[job[q].run] BY <1>3
  <2> QED BY <2>1, <2>2 DEF RawOK, Applying, RecordSteps, NameSteps
<1> QED BY <1>1, <1>2, <1>3 DEF RawInv

\* p goes on with its run, whose row stays as it is.
LEMMA RawGoesOn ==
  ASSUME RawInv, LineageInv', NEW p \in Ingesters, Only(p), UNCHANGED <<runs, artifacts, versions>>,
         pc[p] # "idle" \/ pc'[p] = "idle", pc'[p] # "idle" => job'[p].run = job[p].run,
         objects \subseteq objects', RawOK(p)'
  PROVE  RawInv'
<1>1. artifacts' \subseteq objects' BY DEF RawInv
<1>2. \A q \in Ingesters \ {p} : pc[q] # "idle" => (pc'[p] # "idle" => job'[p].run # job[q].run)
  BY DEF RawInv, OneOwner
<1>3. \A v \in versions : runs[v.run].status \in {"succeeded", "failed"} BY DEF RawInv, Traced
<1> QED BY <1>1, <1>2, <1>3, RawMove

LEMMA RawPublish ==
  ASSUME RawInv, LineageInv', NEW p \in Ingesters, pc[p] = "commit", Publish(p), Only(p),
         tx'[p].writes = {}, pc'[p] = "idle" \/ (pc'[p] = "failing" /\ job'[p] = job[p])
  PROVE  RawInv'
<1> DEFINE r == job[p].run
<1>1. r \in RunIds /\ runs \in [RunIds -> Run] /\ versions \subseteq Row
  BY DEF RawInv, LineageInv, TypeInv, TypeOK, JobsOK, JobOK
<1>2. /\ runs[r].status = "running"
      /\ job[p].doc \in artifacts /\ runs[r].doc = job[p].doc
      /\ \A w \in tx[p].writes : w.row.doc = job[p].doc /\ w.row.run = r
  BY DEF RawInv, RawOK, Applying
<1>3. /\ runs'[r].status = "succeeded" /\ runs'[r].doc = runs[r].doc
      /\ \A s \in RunIds : s # r => runs'[s] = runs[s]
      /\ UNCHANGED <<artifacts, objects>>
  BY <1>1 DEF Publish, Run
<1> HIDE DEF r
<1>4. ASSUME NEW v \in versions' PROVE Traced(v)'
  <2>1. CASE \E u \in versions : v = Close(u, tx[p].writes)
    <3>1. PICK u \in versions : v = Close(u, tx[p].writes) BY <2>1
    <3>2. v.doc = u.doc /\ v.run = u.run BY <3>1, CloseKeeps DEF RawInv
    <3>3. u.run \in RunIds /\ u.run # r BY <1>1, <1>2 DEF Row, RawInv, Traced
    <3> QED BY <3>2, <3>3, <1>3 DEF RawInv, Traced
  <2>2. CASE \E w \in tx[p].writes : v = w.row
    BY <2>2, <1>2, <1>3 DEF Traced
  <2> QED BY <2>1, <2>2 DEF Publish
<1>5. OneOwner' BY DEF RawInv, OneOwner, Only
<1>6. ASSUME NEW q \in Ingesters PROVE RawOK(q)'
  <2>1. CASE q = p
    BY <2>1, <1>3 DEF RawOK, Applying, RecordSteps, NameSteps, r
  <2>2. CASE q # p
    <3>1. RawOK(q) /\ pc'[q] = pc[q] /\ job'[q] = job[q] /\ tx'[q] = tx[q]
      BY <2>2 DEF RawInv, Only
    <3>2. pc[q] # "idle" => job[q].run \in RunIds /\ job[q].run # r
      BY <2>2 DEF RawInv, OneOwner, LineageInv, TypeInv, JobsOK, JobOK, r
    <3> QED BY <3>1, <3>2, <1>3 DEF RawOK, Applying, RecordSteps, NameSteps
  <2> QED BY <2>1, <2>2
<1>7. artifacts' \subseteq objects' BY <1>3 DEF RawInv
<1> QED BY <1>4, <1>5, <1>6, <1>7 DEF RawInv

LEMMA RawStep == RawInv /\ [Next]_vars => RawInv'
<1> SUFFICES ASSUME RawInv, [Next]_vars PROVE RawInv' OBVIOUS
<1>0. LineageInv /\ LineageInv' BY LineageStep DEF RawInv
<1>z. TypeInv /\ TypeInv' BY <1>0 DEF LineageInv
<1> USE <1>0, <1>z DEF TypeInv, TypeOK
\* Before the third transaction nothing is staged.
<1>a. ASSUME NEW p \in Ingesters, pc[p] \notin Applying PROVE tx[p].writes = {}
  BY <1>a DEF LineageInv, StagedOK, Applying
<1>b. \A v \in versions : v.run \in RunIds /\ runs[v.run].status \in {"succeeded", "failed"}
  BY DEF RawInv, Traced, Row
<1>c. \A q \in Ingesters : pc[q] # "idle" =>
        job[q].run \in RunIds /\ runs[job[q].run].status \in {"running", "succeeded"}
  BY DEF RawInv, RawOK, JobsOK, JobOK
<1>1. CASE Idles
  <2>1. UNCHANGED <<runs, objects, artifacts, versions, pc, job, tx>> BY <1>1 DEF Idles, store
  <2>2. \A p \in Ingesters : RawOK(p)' BY <2>1 DEF RawInv, RawOK
  <2> QED BY <2>1, <2>2 DEF RawInv, Traced, OneOwner
<1>2. ASSUME NEW p \in Ingesters, RowOnly(p) PROVE RawInv'
  <2>1. PICK r \in RunIds, s \in {"running", "failed"} :
          /\ runs[r].status = "unused"
          /\ runs' = [runs EXCEPT ![r].status = s]
    BY <1>2 DEF RowOnly, StartUnacknowledged, RecordFetchFailure
  <2>2. UNCHANGED <<versions, artifacts, objects, pc, job, tx>>
    BY <1>2 DEF RowOnly, StartUnacknowledged, RecordFetchFailure
  <2>3. \A v \in versions : runs'[v.run] = runs[v.run] BY <2>1, <1>b
  <2>4. \A q \in Ingesters : pc[q] # "idle" => runs'[job[q].run] = runs[job[q].run]
    BY <2>1, <1>c
  <2>5. \A q \in Ingesters : RawOK(q)'
    BY <2>2, <2>4 DEF RawInv, RawOK, Applying, RecordSteps, NameSteps
  <2> QED BY <2>2, <2>3, <2>5 DEF RawInv, Traced, OneOwner
<1>3. ASSUME NEW p \in Ingesters, Only(p), Drop(p) PROVE RawInv'
  <2>1. UNCHANGED <<runs, artifacts, versions, objects>> /\ tx'[p].writes = {}
    BY <1>3 DEF Drop, store, EmptyTx
  <2>2. RawOK(p) BY DEF RawInv
  <2>3. RawOK(p)'
    BY <1>3, <2>1, <2>2 DEF Drop, RawOK, Applying, RecordSteps, NameSteps
  <2> QED BY <1>3, <2>1, <2>3, RawGoesOn DEF Drop
<1>4. ASSUME NEW p \in Ingesters, Only(p), StartRun(p) PROVE RawInv'
  <2>1. PICK r \in RunIds, d \in Docs :
          /\ runs[r].status = "unused"
          /\ runs' = [runs EXCEPT ![r].status = "running"]
          /\ job' = [job EXCEPT ![p] = [IdleJob EXCEPT !.run = r, !.doc = d]]
    BY <1>4 DEF StartRun
  <2>2. /\ pc[p] = "idle" /\ pc'[p] = "put" /\ tx'[p] = tx[p]
        /\ UNCHANGED <<artifacts, versions, objects>>
    BY <1>4 DEF StartRun, Goto
  <2>3. job'[p].run = r BY <2>1 DEF IdleJob
  <2>4. runs'[r].status = "running" BY <2>1 DEF Run
  <2>5. tx[p].writes = {} BY <2>2, <1>a DEF Applying, RecordSteps, NameSteps
  <2>6. RawOK(p)' BY <2>2, <2>3, <2>4, <2>5 DEF RawOK, Applying, RecordSteps, NameSteps
  <2>7. \A v \in versions : runs'[v.run] = runs[v.run] BY <2>1, <1>b
  <2>8. \A q \in Ingesters : pc[q] # "idle" =>
          runs'[job[q].run] = runs[job[q].run] /\ job[q].run # r
    BY <2>1, <1>c
  <2>9. artifacts' \subseteq objects' BY <2>2 DEF RawInv
  <2> QED BY <1>4, <1>b, <2>2, <2>3, <2>6, <2>7, <2>8, <2>9, RawMove
<1>5. ASSUME NEW p \in Ingesters, Only(p), PutRaw(p) PROVE RawInv'
  <2>1. /\ pc[p] = "put" /\ pc'[p] = "seekArtifact" /\ job'[p] = job[p] /\ tx'[p] = tx[p]
        /\ objects' = objects \cup {job[p].doc} /\ UNCHANGED <<runs, artifacts, versions>>
    BY <1>5 DEF PutRaw, Goto, store
  <2>2. tx[p].writes = {} /\ RawOK(p)
    BY <2>1, <1>a DEF Applying, RecordSteps, NameSteps, RawInv
  <2>3. RawOK(p)' BY <2>1, <2>2 DEF RawOK, Applying, RecordSteps, NameSteps
  <2> QED BY <1>5, <2>1, <2>3, RawGoesOn
<1>6. ASSUME NEW p \in Ingesters, Only(p), SeekArtifact(p) PROVE RawInv'
  <2>1. /\ pc[p] = "seekArtifact" /\ pc'[p] = "saveArtifact" /\ tx'[p] = tx[p]
        /\ UNCHANGED <<runs, artifacts, versions, objects>>
        /\ job'[p].doc = job[p].doc /\ job'[p].run = job[p].run
    BY <1>6 DEF SeekArtifact, Goto, store, Job
  <2>2. tx[p].writes = {} /\ RawOK(p)
    BY <2>1, <1>a DEF Applying, RecordSteps, NameSteps, RawInv
  <2>3. RawOK(p)' BY <2>1, <2>2 DEF RawOK, Applying, RecordSteps, NameSteps
  <2> QED BY <1>6, <2>1, <2>3, RawGoesOn
<1>7. ASSUME NEW p \in Ingesters, Only(p), SaveArtifact(p) PROVE RawInv'
  <2> DEFINE r == job[p].run
  <2>1. /\ pc[p] = "saveArtifact" /\ pc'[p] = "parse" /\ tx'[p] = tx[p] /\ job'[p] = job[p]
        /\ artifacts' = artifacts \cup {job[p].doc}
        /\ runs' = [runs EXCEPT ![r].doc = job[p].doc]
        /\ UNCHANGED <<versions, objects>>
    BY <1>7 DEF SaveArtifact, Goto
  <2>2. /\ tx[p].writes = {} /\ r \in RunIds
        /\ runs[r].status = "running" /\ job[p].doc \in objects
    BY <2>1, <1>a, <1>c DEF Applying, RecordSteps, NameSteps, RawInv, RawOK
  <2>3. /\ runs'[r].status = "running" /\ runs'[r].doc = job[p].doc
        /\ \A s \in RunIds : s # r => runs'[s] = runs[s]
    BY <2>1, <2>2 DEF Run
  <2>4. RawOK(p)' BY <2>1, <2>2, <2>3 DEF RawOK, Applying, RecordSteps, NameSteps
  <2>5. \A v \in versions : runs'[v.run] = runs[v.run] BY <2>2, <2>3, <1>b
  <2>6. \A q \in Ingesters \ {p} : pc[q] # "idle" =>
          runs'[job[q].run] = runs[job[q].run] /\ job[q].run # r
    BY <2>1, <2>3, <1>c DEF RawInv, OneOwner
  <2>7. artifacts' \subseteq objects' BY <2>1, <2>2 DEF RawInv
  <2> QED BY <1>7, <1>b, <2>1, <2>4, <2>5, <2>6, <2>7, RawMove
<1>8. ASSUME NEW p \in Ingesters, Only(p), Parse(p) PROVE RawInv'
  <2>1. /\ pc[p] = "parse" /\ pc'[p] \in Applying /\ tx'[p] = tx[p]
        /\ UNCHANGED <<runs, artifacts, versions, objects>>
        /\ job'[p].doc = job[p].doc /\ job'[p].run = job[p].run
    BY <1>8 DEF Parse, AfterRecords, Goto, store, Job, Applying, RecordSteps
  <2>2. tx[p].writes = {} /\ RawOK(p)
    BY <2>1, <1>a DEF Applying, RecordSteps, NameSteps, RawInv
  <2>3. RawOK(p)' BY <2>1, <2>2 DEF RawOK, Applying, RecordSteps, NameSteps
  <2> QED BY <1>8, <2>1, <2>3, RawGoesOn DEF Applying, RecordSteps, NameSteps
<1>9. ASSUME NEW p \in Ingesters, Only(p), Apply(p) PROVE RawInv'
  <2>1. /\ UNCHANGED <<runs, artifacts, versions, objects>>
        /\ pc[p] \in RecordSteps \cup NameSteps /\ pc'[p] \in Applying
        /\ job'[p].run = job[p].run /\ job'[p].doc = job[p].doc /\ job'[p].at = job[p].at
    BY <1>9, ApplyKeeps DEF store
  <2>2. \A w \in tx'[p].writes \ tx[p].writes :
          w.row.doc = job[p].doc /\ w.row.run = job[p].run /\ w.row.from = job[p].at
    <3>1. CASE WriteVersion(p)
      <4>1. tx'[p].writes = tx[p].writes \cup {[row |-> NewRow(p), closes |-> job[p].closes]}
        BY <3>1 DEF WriteVersion, Transaction
      <4> QED BY <4>1 DEF NewRow
    <3>2. CASE ~WriteVersion(p)
      <4>1. tx'[p].writes = tx[p].writes
        BY <1>9, <3>2 DEF Apply, SeekRecord, KeepVersion, SupersedeVersion, SeekOrg, AddOrg,
           SeekAlias, AddAlias, AddLink, Transaction
      <4> QED BY <4>1
    <3> QED BY <3>1, <3>2
  <2>3. RawOK(p) BY DEF RawInv
  <2>4. RawOK(p)' BY <2>1, <2>2, <2>3 DEF RawOK, Applying, RecordSteps, NameSteps
  <2> QED BY <1>9, <2>1, <2>4, RawGoesOn DEF RecordSteps, NameSteps
<1>10. ASSUME NEW p \in Ingesters, Only(p), CommitRun(p) PROVE RawInv'
  <2>1. pc[p] = "commit" /\ Publish(p) /\ pc'[p] = "idle" /\ tx'[p].writes = {}
    BY <1>10 DEF CommitRun, Leave, Goto, EmptyTx
  <2> QED BY <1>10, <2>1, RawPublish
<1>11. ASSUME NEW p \in Ingesters, Only(p), CommitUnacknowledged(p) PROVE RawInv'
  BY <1>11, RawPublish DEF CommitUnacknowledged, Goto, EmptyTx
<1>12. ASSUME NEW p \in Ingesters, Only(p), MarkFailed(p) PROVE RawInv'
  <2>1. /\ pc[p] = "failing" /\ pc'[p] = "idle" /\ tx'[p].writes = {}
        /\ runs' = [runs EXCEPT ![job[p].run].status = "failed"]
        /\ UNCHANGED <<artifacts, versions, objects>>
    BY <1>12 DEF MarkFailed, Leave, Goto, EmptyTx
  <2>2. RawOK(p)' BY <2>1 DEF RawOK, Applying, RecordSteps, NameSteps
  <2>3. \A v \in versions : runs'[v.run].doc = runs[v.run].doc
                            /\ runs'[v.run].status \in {"succeeded", "failed"}
    BY <2>1, <1>b DEF Run
  <2>4. \A q \in Ingesters \ {p} : pc[q] # "idle" => runs'[job[q].run] = runs[job[q].run]
    BY <2>1, <1>c DEF RawInv, OneOwner
  <2>5. artifacts' \subseteq objects' BY <2>1 DEF RawInv
  <2> QED BY <1>12, <2>1, <2>2, <2>3, <2>4, <2>5, RawMove
<1> QED BY StepKinds, <1>1, <1>2, <1>3, <1>4, <1>5, <1>6, <1>7, <1>8, <1>9, <1>10, <1>11, <1>12
    DEF Prepare, End

\* Every version can be traced to bytes that exist: its payload was stored and
\* recorded before, and is the one its run names (the order of put and the two
\* transactions in ingest), however many runs ingest the same payload at once.
THEOREM RawFirst == Spec => []RawBeforeCanonical
<1>1. Init => RawInv BY InitRaw
<1>2. RawInv => RawBeforeCanonical BY DEF RawInv, Traced, RawBeforeCanonical
<1> QED BY <1>1, <1>2, RawStep, PTL DEF Spec

-----------------------------------------------------------------------------
(* Whole payloads.  By the time a run commits, each record of its payload is  *)
(* staged or was found to be the open version, which a concurrent run may     *)
(* close but never remove.                                                    *)

Shown(rec) == \E v \in versions : v.key = rec.key /\ v.print = rec.print
Staged(p, rec) == \E w \in tx[p].writes : w.row.key = rec.key /\ w.row.print = rec.print

CoverOK(p) ==
  pc[p] \in Applying =>
    \A n \in 1..Len(Records(p)) :
      Reached(p, n) => Shown(Records(p)[n]) \/ Staged(p, Records(p)[n])

Visible(r) == runs[r].status = "succeeded" \/ \E v \in versions : v.run = r

Whole(r) ==
  Visible(r) => \A i \in DOMAIN RecordsOf[runs[r].doc] : Shown(RecordsOf[runs[r].doc][i])

CoverInv ==
  /\ RawInv
  /\ \A p \in Ingesters : CoverOK(p)
  /\ \A r \in RunIds : Whole(r)

LEMMA InitCover == Init => CoverInv
<1> SUFFICES ASSUME Init PROVE CoverInv OBVIOUS
<1>1. RawInv BY InitRaw
<1>2. \A p \in Ingesters : CoverOK(p) BY DEF Init, CoverOK, Applying, RecordSteps, NameSteps
<1>3. \A r \in RunIds : Whole(r) BY DEF Init, Whole, Visible
<1> QED BY <1>1, <1>2, <1>3 DEF CoverInv

\* What has been shown stays: a commit closes versions and removes none.
LEMMA ShownStays ==
  ASSUME LineageInv, [Next]_vars, NEW rec, Shown(rec)
  PROVE  Shown(rec)'
<1>1. CASE UNCHANGED versions BY <1>1 DEF Shown
<1>2. CASE ~UNCHANGED versions
  <2>1. PICK p \in Ingesters : Publish(p) BY <1>2, OnlyCommitsWrite
  <2>2. PICK v \in versions : v.key = rec.key /\ v.print = rec.print BY DEF Shown
  <2>3. Close(v, tx[p].writes) \in versions' BY <2>1 DEF Publish
  <2> QED BY <2>2, <2>3, CloseKeeps DEF Shown
<1> QED BY <1>1, <1>2

\* A step adds at most the record at hand to those that have been reached.
LEMMA ReachedBack ==
  ASSUME TypeInv, NEW p \in Ingesters, Apply(p), NEW n \in 1..Len(Records(p)), Reached(p, n)'
  PROVE  Reached(p, n) \/ (n = job[p].i /\ (KeepVersion(p) \/ WriteVersion(p)))
<1> USE DEF TypeInv
<1>1. /\ pc[p] \in RecordSteps \cup NameSteps /\ pc'[p] \in Applying
      /\ Records(p)' = Records(p)
  BY ApplyKeeps
<1>2. /\ job[p] \in Job /\ job[p].i \in 1..Len(Records(p)) /\ job[p].i \in Nat
      /\ Len(Records(p)) \in Nat /\ n \in Nat
  BY <1>1, RecType
<1>3. CASE FinishRecord(p)
  <2>1. job'[p].i = job[p].i + 1 /\ pc'[p] = AfterRecords(p, job[p].i)
    BY <1>2, <1>3 DEF FinishRecord, Goto, TypeOK, Job
  <2>2. n <= job[p].i
    BY <1>1, <1>2, <2>1 DEF Reached, AfterRecords, RecordSteps
  <2>3. KeepVersion(p) \/ WriteVersion(p) \/ pc[p] \in NameSteps
    BY <1>3 DEF Apply, SeekRecord, SupersedeVersion, SeekOrg, AddOrg, SeekAlias, AddAlias,
       FinishRecord, Goto, AfterRecords, TypeOK, NameSteps
  <2> QED BY <1>1, <1>2, <2>2, <2>3 DEF Reached, RecordSteps, NameSteps
<1>4. CASE ~FinishRecord(p)
  <2>1. job'[p].i = job[p].i
    BY <1>2, <1>4 DEF Apply, SeekRecord, KeepVersion, SupersedeVersion, WriteVersion, SeekOrg,
       AddOrg, SeekAlias, AddAlias, AddLink, NextName, TypeOK, Job
  <2>2. \/ pc[p] \in RecordSteps /\ pc'[p] \in RecordSteps
        \/ pc[p] \in NameSteps
        \/ WriteVersion(p) /\ pc'[p] = "seekOrg"
    BY <1>4 DEF Apply, SeekRecord, KeepVersion, SupersedeVersion, WriteVersion, SeekOrg,
       AddOrg, SeekAlias, AddAlias, NextName, Goto, TypeOK, RecordSteps, NameSteps
  <2>3. CASE pc[p] \in NameSteps
    <3>1. pc'[p] \in NameSteps
      BY <1>4, <2>3 DEF Apply, SeekRecord, KeepVersion, SupersedeVersion, WriteVersion,
         SeekOrg, AddOrg, SeekAlias, AddAlias, AddLink, NextName, Goto, TypeOK, NameSteps
    <3> QED BY <2>1, <2>3, <3>1, <1>1, <1>2 DEF Reached, RecordSteps, NameSteps
  <2> QED BY <2>1, <2>2, <2>3, <1>1, <1>2 DEF Reached, RecordSteps, NameSteps
<1> QED BY <1>3, <1>4

\* The versions stay and so does what is visible of the runs.
LEMMA CoverMove ==
  ASSUME CoverInv, RawInv', NEW p \in Ingesters, Only(p), UNCHANGED versions, CoverOK(p)',
         \A r \in RunIds : Visible(r)' => Visible(r) /\ runs'[r].doc = runs[r].doc
  PROVE  CoverInv'
<1>1. ASSUME NEW q \in Ingesters, q # p PROVE CoverOK(q)'
  <2>1. CoverOK(q) /\ pc'[q] = pc[q] /\ job'[q] = job[q] /\ tx'[q] = tx[q]
    BY <1>1 DEF CoverInv, Only
  <2> QED BY <2>1 DEF CoverOK, Reached, Records, Shown, Staged
<1>2. \A r \in RunIds : Whole(r)' BY DEF CoverInv, Whole, Shown
<1> QED BY <1>1, <1>2 DEF CoverInv

LEMMA CoverPublish ==
  ASSUME CoverInv, RawInv', [Next]_vars, NEW p \in Ingesters, pc[p] = "commit", Publish(p),
         Only(p), pc'[p] \in {"idle", "failing"}
  PROVE  CoverInv'
<1>r. PICK r : r = job[p].run OBVIOUS
<1>0. LineageInv /\ TypeOK /\ JobsOK BY DEF CoverInv, RawInv, LineageInv, TypeInv
<1>1. r \in RunIds /\ runs \in [RunIds -> Run] /\ runs[r].doc = job[p].doc
  BY <1>r, <1>0 DEF TypeOK, JobsOK, JobOK, CoverInv, RawInv, RawOK, Applying
<1>2. /\ runs'[r].doc = job[p].doc
      /\ \A s \in RunIds : s # r => runs'[s] = runs[s]
  BY <1>r, <1>1 DEF Publish, Run
<1>3. ASSUME NEW q \in Ingesters PROVE CoverOK(q)'
  <2>1. CASE q = p BY <2>1 DEF CoverOK, Applying, RecordSteps, NameSteps
  <2>2. CASE q # p
    <3>1. CoverOK(q) /\ pc'[q] = pc[q] /\ job'[q] = job[q] /\ tx'[q] = tx[q]
      BY <2>2 DEF CoverInv, Only
    <3>2. SUFFICES ASSUME pc[q] \in Applying, NEW n \in 1..Len(Records(q)), Reached(q, n)
                   PROVE  Shown(Records(q)[n])' \/ Staged(q, Records(q)[n])'
      BY <3>1 DEF CoverOK, Reached, Records
    <3>3. PICK rec : rec = Records(q)[n] OBVIOUS
    <3>4. rec = Records(q)'[n] BY <3>1, <3>3 DEF Records
    <3>5. Shown(rec) \/ Staged(q, rec) BY <3>1, <3>2, <3>3 DEF CoverOK
    <3>6. Shown(rec) => Shown(rec)' BY <1>0, ShownStays
    <3>7. Staged(q, rec) => Staged(q, rec)' BY <3>1 DEF Staged
    <3> QED BY <3>3, <3>4, <3>5, <3>6, <3>7 DEF Shown, Staged
  <2> QED BY <2>1, <2>2
\* The run that commits: every record of its payload was reached.
<1>4. Whole(r)'
  <2>1. SUFFICES ASSUME NEW i \in DOMAIN RecordsOf[job[p].doc], NEW rec,
                        rec = RecordsOf[job[p].doc][i]
                 PROVE  Shown(rec)'
    BY <1>2 DEF Whole, Shown
  <2>2. RecordsOf[job[p].doc] \in Seq(Record)
    BY <1>0, IngestionAssumption DEF JobsOK, JobOK
  <2>3. i \in 1..Len(Records(p)) /\ rec = Records(p)[i] BY <2>1, <2>2 DEF Records
  <2>4. Reached(p, i) BY <2>3 DEF Reached, RecordSteps, NameSteps
  <2>5. Shown(rec) \/ Staged(p, rec) BY <2>3, <2>4 DEF CoverInv, CoverOK, Applying
  <2>6. CASE Shown(rec) BY <1>0, <2>6, ShownStays
  <2>7. CASE Staged(p, rec)
    <3>1. PICK w \in tx[p].writes : w.row.key = rec.key /\ w.row.print = rec.print
      BY <2>7 DEF Staged
    <3>2. w.row \in versions' BY DEF Publish
    <3> QED BY <3>1, <3>2 DEF Shown
  <2> QED BY <2>5, <2>6, <2>7
<1>5. ASSUME NEW s \in RunIds, s # r PROVE Whole(s)'
  <2>1. runs'[s] = runs[s] BY <1>2, <1>5
  <2>2. ASSUME NEW v \in versions', v.run = s PROVE \E u \in versions : u.run = s
    <3>1. \A w \in tx[p].writes : w.row.run = r BY <1>r DEF CoverInv, RawInv, RawOK
    <3>2. PICK u \in versions : v = Close(u, tx[p].writes)
      BY <3>1, <1>5, <2>2 DEF Publish
    <3> QED BY <1>0, <3>2, <2>2, CloseKeeps
  <2>3. Visible(s)' => Visible(s) BY <2>1, <2>2 DEF Visible
  <2>4. \A rec : Shown(rec) => Shown(rec)' BY <1>0, ShownStays
  <2>5. Whole(s) BY DEF CoverInv
  <2>6. SUFFICES ASSUME Visible(s), NEW i \in DOMAIN RecordsOf[runs[s].doc], NEW rec,
                        rec = RecordsOf[runs[s].doc][i]
                 PROVE  Shown(rec)'
    BY <2>1, <2>3 DEF Whole, Shown
  <2>7. Shown(rec) BY <2>5, <2>6 DEF Whole
  <2> QED BY <2>4, <2>7
<1> QED BY <1>3, <1>4, <1>5 DEF CoverInv

LEMMA CoverSame ==
  ASSUME CoverInv, UNCHANGED <<versions, pc, job, tx>>
  PROVE  \A p \in Ingesters : CoverOK(p)'
<1> SUFFICES ASSUME NEW p \in Ingesters PROVE CoverOK(p)' OBVIOUS
<1>1. CoverOK(p) BY DEF CoverInv
<1>2. /\ Records(p)' = Records(p)
      /\ \A n : Reached(p, n)' <=> Reached(p, n)
      /\ \A rec : (Shown(rec)' <=> Shown(rec)) /\ (Staged(p, rec)' <=> Staged(p, rec))
  BY DEF Records, Reached, Shown, Staged
<1> QED BY <1>1, <1>2 DEF CoverOK, Reached, Records, Shown, Staged

LEMMA CoverStep == CoverInv /\ [Next]_vars => CoverInv'
<1> SUFFICES ASSUME CoverInv, [Next]_vars PROVE CoverInv' OBVIOUS
<1>0. RawInv /\ RawInv' BY RawStep DEF CoverInv
<1>z. LineageInv /\ TypeInv /\ TypeInv' BY <1>0 DEF RawInv, LineageInv
<1> USE <1>0, <1>z DEF TypeInv, TypeOK
\* The run of an ingester that is not failing shows nothing yet.
<1>a. ASSUME NEW p \in Ingesters, pc[p] \notin {"idle", "failing"}
      PROVE  job[p].run \in RunIds /\ ~Visible(job[p].run)
  BY <1>a DEF RawInv, RawOK, Traced, Visible, JobsOK, JobOK
<1>1. CASE Idles
  <2>1. UNCHANGED <<runs, versions, pc, job, tx>> BY <1>1 DEF Idles, store
  <2>2. \A p \in Ingesters : CoverOK(p)' BY <2>1, CoverSame
  <2>3. \A r \in RunIds : Whole(r)' BY <2>1 DEF CoverInv, Whole, Visible, Shown
  <2> QED BY <2>2, <2>3 DEF CoverInv
<1>2. ASSUME NEW p \in Ingesters, RowOnly(p) PROVE CoverInv'
  <2>1. PICK r \in RunIds, status \in {"running", "failed"} :
          runs' = [runs EXCEPT ![r].status = status]
    BY <1>2 DEF RowOnly, StartUnacknowledged, RecordFetchFailure
  <2>2. UNCHANGED <<versions, pc, job, tx>>
    BY <1>2 DEF RowOnly, StartUnacknowledged, RecordFetchFailure
  <2>3. \A s \in RunIds : /\ runs'[s].doc = runs[s].doc
                          /\ runs'[s].status = "succeeded" => runs[s].status = "succeeded"
    BY <2>1 DEF Run
  <2>4. \A q \in Ingesters : CoverOK(q)' BY <2>2, CoverSame
  <2>5. \A s \in RunIds : Whole(s)' BY <2>2, <2>3 DEF CoverInv, Whole, Visible, Shown
  <2> QED BY <2>4, <2>5 DEF CoverInv
<1>3. ASSUME NEW p \in Ingesters, Only(p), Drop(p) PROVE CoverInv'
  <2>1. UNCHANGED <<runs, versions>> BY <1>3 DEF Drop, store
  <2>2. CoverOK(p)' BY <1>3 DEF Drop, CoverOK, Applying, RecordSteps, NameSteps
  <2>3. \A r \in RunIds : Visible(r)' => Visible(r) BY <2>1 DEF Visible
  <2> QED BY <1>3, <2>1, <2>2, <2>3, CoverMove
<1>4. ASSUME NEW p \in Ingesters, Only(p), StartRun(p) PROVE CoverInv'
  <2>1. PICK r \in RunIds : runs' = [runs EXCEPT ![r].status = "running"]
    BY <1>4 DEF StartRun
  <2>2. UNCHANGED versions /\ pc'[p] = "put" BY <1>4 DEF StartRun, Goto
  <2>3. \A s \in RunIds : /\ runs'[s].doc = runs[s].doc
                          /\ runs'[s].status = "succeeded" => runs[s].status = "succeeded"
    BY <2>1 DEF Run
  <2>4. CoverOK(p)' BY <2>2 DEF CoverOK, Applying, RecordSteps, NameSteps
  <2>5. \A s \in RunIds : Visible(s)' => Visible(s) BY <2>2, <2>3 DEF Visible
  <2> QED BY <1>4, <2>2, <2>3, <2>4, <2>5, CoverMove
<1>5. ASSUME NEW p \in Ingesters, Only(p), PutRaw(p) \/ SeekArtifact(p) PROVE CoverInv'
  <2>1. UNCHANGED <<runs, versions>> /\ pc'[p] \in {"seekArtifact", "saveArtifact"}
    BY <1>5 DEF PutRaw, SeekArtifact, Goto, store
  <2>2. CoverOK(p)' BY <2>1 DEF CoverOK, Applying, RecordSteps, NameSteps
  <2>3. \A r \in RunIds : Visible(r)' => Visible(r) BY <2>1 DEF Visible
  <2> QED BY <1>5, <2>1, <2>2, <2>3, CoverMove
<1>6. ASSUME NEW p \in Ingesters, Only(p), SaveArtifact(p) PROVE CoverInv'
  <2>1. /\ pc[p] = "saveArtifact" /\ pc'[p] = "parse" /\ UNCHANGED versions
        /\ runs' = [runs EXCEPT ![job[p].run].doc = job[p].doc]
    BY <1>6 DEF SaveArtifact, Goto
  <2>2. CoverOK(p)' BY <2>1 DEF CoverOK, Applying, RecordSteps, NameSteps
  <2>3. \A s \in RunIds : runs'[s].status = runs[s].status
                          /\ (s # job[p].run => runs'[s].doc = runs[s].doc)
    BY <2>1 DEF Run
  <2>4. \A s \in RunIds : Visible(s)' => Visible(s) BY <2>1, <2>3 DEF Visible
  <2> QED BY <1>6, <1>a, <2>1, <2>2, <2>3, <2>4, CoverMove
<1>7. ASSUME NEW p \in Ingesters, Only(p), Parse(p) PROVE CoverInv'
  <2>1. /\ UNCHANGED <<runs, versions>> /\ pc[p] = "parse" /\ pc'[p] = AfterRecords(p, 0)
        /\ job'[p].doc = job[p].doc /\ job'[p].i = 1
    BY <1>7 DEF Parse, Goto, store, Job
  <2>2. Records(p)' = Records(p) /\ Len(Records(p)) \in Nat
    <3>1. Records(p)' = Records(p) BY <2>1 DEF Records
    <3>2. job[p].doc \in Docs BY <2>1 DEF JobsOK, JobOK
    <3>3. Records(p) \in Seq(Record) BY <3>2, IngestionAssumption DEF Records
    <3> QED BY <3>1, <3>3
  <2>3. \A n \in 1..Len(Records(p)) : ~Reached(p, n)'
    BY <2>1, <2>2 DEF AfterRecords, Reached, RecordSteps
  <2>4. CoverOK(p)' BY <2>2, <2>3 DEF CoverOK
  <2>5. \A r \in RunIds : Visible(r)' => Visible(r) BY <2>1 DEF Visible
  <2> QED BY <1>7, <2>1, <2>4, <2>5, CoverMove
<1>8. ASSUME NEW p \in Ingesters, Only(p), Apply(p) PROVE CoverInv'
  <2>1. /\ UNCHANGED <<runs, versions>> /\ Records(p)' = Records(p)
        /\ pc[p] \in RecordSteps \cup NameSteps
    BY <1>8, ApplyKeeps DEF store
  <2>2. tx[p].writes \subseteq tx'[p].writes
    BY <1>8 DEF Apply, SeekRecord, KeepVersion, SupersedeVersion, WriteVersion, SeekOrg,
       AddOrg, SeekAlias, AddAlias, AddLink, Transaction
  <2>3. ASSUME NEW n \in 1..Len(Records(p)), Reached(p, n)'
        PROVE  Shown(Records(p)[n])' \/ Staged(p, Records(p)[n])'
    <3>1. CASE Reached(p, n)
      <4> DEFINE rec == Records(p)[n]
      <4>1. Shown(rec) \/ Staged(p, rec)
        BY <2>1, <3>1 DEF CoverInv, CoverOK, Applying
      <4>2. Shown(rec) => Shown(rec)' BY <2>1 DEF Shown
      <4>3. Staged(p, rec) => Staged(p, rec)' BY <2>1, <2>2 DEF Staged
      <4> QED BY <4>1, <4>2, <4>3
    <3>2. CASE n = job[p].i /\ KeepVersion(p)
      <4>1. Shown(Rec(p)) BY <3>2 DEF KeepVersion, OpenRows, RowsOf, Shown
      <4> QED BY <2>1, <3>2, <4>1 DEF Rec, Shown
    <3>3. CASE n = job[p].i /\ WriteVersion(p)
      <4>1. [row |-> NewRow(p), closes |-> job[p].closes] \in tx'[p].writes
        BY <3>3 DEF WriteVersion, Transaction
      <4>2. NewRow(p).key = Rec(p).key /\ NewRow(p).print = Rec(p).print BY DEF NewRow
      <4>3. Records(p)'[n] = Rec(p) BY <2>1, <3>3 DEF Rec
      <4> QED BY <4>1, <4>2, <4>3 DEF Staged
    <3> QED BY <1>8, <2>3, <3>1, <3>2, <3>3, ReachedBack
  <2>4. CoverOK(p)' BY <2>1, <2>3 DEF CoverOK
  <2>5. \A r \in RunIds : Visible(r)' => Visible(r) BY <2>1 DEF Visible
  <2> QED BY <1>8, <2>1, <2>4, <2>5, CoverMove
<1>9. ASSUME NEW p \in Ingesters, Only(p), CommitRun(p) \/ CommitUnacknowledged(p)
      PROVE  CoverInv'
  <2>1. pc[p] = "commit" /\ Publish(p) /\ pc'[p] \in {"idle", "failing"}
    BY <1>9 DEF CommitRun, CommitUnacknowledged, Leave, Goto
  <2> QED BY <1>9, <2>1, CoverPublish
<1>10. ASSUME NEW p \in Ingesters, Only(p), MarkFailed(p) PROVE CoverInv'
  <2>1. /\ UNCHANGED versions /\ pc'[p] = "idle"
        /\ runs' = [runs EXCEPT ![job[p].run].status = "failed"]
    BY <1>10 DEF MarkFailed, Leave, Goto
  <2>2. \A s \in RunIds : /\ runs'[s].doc = runs[s].doc
                          /\ runs'[s].status = "succeeded" => runs[s].status = "succeeded"
    BY <2>1 DEF Run
  <2>3. CoverOK(p)' BY <2>1 DEF CoverOK, Applying, RecordSteps, NameSteps
  <2>4. \A s \in RunIds : Visible(s)' => Visible(s) BY <2>1, <2>2 DEF Visible
  <2> QED BY <1>10, <2>1, <2>2, <2>3, <2>4, CoverMove
<1> QED BY StepKinds, <1>1, <1>2, <1>3, <1>4, <1>5, <1>6, <1>7, <1>8, <1>9, <1>10
    DEF Prepare, End

\* A payload is applied whole or not at all: what a run shows, it shows of every
\* record, whatever runs beside it, wherever it dies, and also when its commit is
\* reported as a failure (the third transaction of ingest).
THEOREM RunsWhole == Spec => []RunsAreAtomic
<1>1. Init => CoverInv BY InitCover
<1>2. CoverInv => RunsAreAtomic
  BY DEF CoverInv, RawInv, Traced, Whole, Visible, Shown, RunsAreAtomic
<1> QED BY <1>1, <1>2, CoverStep, PTL DEF Spec

-----------------------------------------------------------------------------
(* Links.  The links of a staged version grow with the name at hand, and what *)
(* they refer to is committed or staged by the same transaction.              *)

LinkTo(row, rec, j) ==
  [key |-> row.key, version |-> row.version, ordinal |-> j, alias |-> rec.names[j]]

\* Of a version, ls has the links of the first m names of its record.
Linked(ls, row, rec, m) ==
  /\ \A j \in 1..m : LinkTo(row, rec, j) \in ls
  /\ \A l \in ls : l.key = row.key /\ l.version = row.version =>
       l.ordinal \in 1..m /\ l.alias = rec.names[l.ordinal]

NamesDone(p, n) ==
  IF pc[p] \in NameSteps /\ n = job[p].i THEN job[p].j - 1 ELSE Len(Records(p)[n].names)

RegistryOK(p) ==
  /\ \A a \in tx[p].aliases : OrgOf[a] \in SeenOrgs(p)
  /\ pc[p] \in {"seekAlias", "addAlias"} => OrgOf[Name(p)] \in SeenOrgs(p)

LinksOK(p) ==
  /\ \A l \in tx[p].links :
       /\ l.alias \in SeenAliases(p)
       /\ \E w \in tx[p].writes : w.row.key = l.key /\ w.row.version = l.version
  /\ pc[p] \in NameSteps =>
       \E w \in tx[p].writes : w.row.key = Rec(p).key /\ w.row.version = job[p].seen + 1
  /\ \A w \in tx[p].writes : \A n \in 1..Len(Records(p)) :
       Reached(p, n) /\ Records(p)[n].key = w.row.key =>
         /\ w.row.print = Records(p)[n].print
         /\ Linked(tx[p].links, w.row, Records(p)[n], NamesDone(p, n))

\* What the catalog refers to is there.
CatalogOK ==
  /\ \A l \in links : /\ l.alias \in aliases
                      /\ \E v \in versions : v.key = l.key /\ v.version = l.version
  /\ \A a \in aliases : OrgOf[a] \in orgs

LinkInv ==
  /\ RawInv
  /\ CatalogOK
  /\ \A p \in Ingesters : RegistryOK(p) /\ LinksOK(p)

LinksAt(v) == {l \in links : l.key = v.key /\ l.version = v.version}

Complete(v) ==
  \E i \in DOMAIN RecordsOf[v.doc] :
    LET rec == RecordsOf[v.doc][i] IN
    /\ rec.key = v.key /\ rec.print = v.print
    /\ LinksAt(v) = {[key |-> v.key, version |-> v.version, ordinal |-> j,
                      alias |-> rec.names[j]] : j \in DOMAIN rec.names}

\* The same version, which may have been closed.
Continues(u, v) ==
  /\ v.key = u.key /\ v.version = u.version /\ v.print = u.print
  /\ v.doc = u.doc /\ v.run = u.run

\* A step keeps the catalog, the versions and their links, and adds versions that are
\* complete.
LinksGo ==
  /\ orgs \subseteq orgs' /\ aliases \subseteq aliases'
  /\ \A u \in versions : \E v \in versions' : Continues(u, v)
  /\ \A v \in versions' :
       Complete(v)' \/ \E u \in versions : Continues(u, v) /\ LinksAt(v)' = LinksAt(u)

\* A store nobody is working on.
LEMMA QuietStore ==
  ASSUME StoreType, Lineage, NoEmptyVersion, artifacts \subseteq objects,
         \A v \in versions : Traced(v), CatalogOK,
         pc = [p \in Ingesters |-> "idle"], job = [p \in Ingesters |-> IdleJob],
         tx = [p \in Ingesters |-> EmptyTx]
  PROVE  LinkInv
<1>1. IdleJob \in Job /\ EmptyTx \in Transaction
  BY IngestionAssumption DEF IdleJob, Job, EmptyTx, Transaction, Times
<1>2. LocalType BY <1>1 DEF LocalType, Steps
<1>3. JobsOK BY DEF JobsOK, JobOK
<1>4. TypeInv BY <1>2, <1>3, SplitType DEF TypeInv
<1>5. \A p \in Ingesters : /\ pc[p] = "idle"
                           /\ tx[p].writes = {} /\ tx[p].aliases = {} /\ tx[p].links = {}
  BY DEF EmptyTx
<1>6. OneWriter /\ OneOwner BY <1>5 DEF OneWriter, OneOwner
<1>7. \A p \in Ingesters : StagedOK(p) /\ ReadsOK(p) BY <1>5 DEF StagedOK, ReadsOK
<1>8. \A p \in Ingesters : RawOK(p) BY <1>5 DEF RawOK, Applying, RecordSteps, NameSteps
<1>9. \A p \in Ingesters : RegistryOK(p) /\ LinksOK(p)
  BY <1>5 DEF RegistryOK, LinksOK, NameSteps
<1> QED BY <1>4, <1>6, <1>7, <1>8, <1>9 DEF LineageInv, RawInv, LinkInv

LEMMA InitLinks == Init => LinkInv /\ LinksAreComplete
<1> SUFFICES ASSUME Init PROVE LinkInv /\ LinksAreComplete OBVIOUS
<1>1. RawInv BY InitRaw
<1>2. LinksAreComplete /\ CatalogOK BY DEF Init, LinksAreComplete, CatalogOK
<1>3. StoreType BY InitType, SplitType
<1> QED BY <1>1, <1>2, <1>3, QuietStore DEF Init, RawInv, LineageInv

\* What p sees of its own transaction does not change when it stands still.
LEMMA LinksStand ==
  ASSUME NEW p, LinksOK(p), RegistryOK(p), pc'[p] = pc[p], job'[p] = job[p], tx'[p] = tx[p],
         orgs \subseteq orgs', aliases \subseteq aliases'
  PROVE  LinksOK(p)' /\ RegistryOK(p)'
<1>1. /\ Records(p)' = Records(p) /\ Rec(p)' = Rec(p) /\ Name(p)' = Name(p)
      /\ SeenOrgs(p) \subseteq SeenOrgs(p)' /\ SeenAliases(p) \subseteq SeenAliases(p)'
  BY DEF Records, Rec, Name, SeenOrgs, SeenAliases
<1>2. RegistryOK(p)' BY <1>1 DEF RegistryOK
<1>3. \A n : (Reached(p, n)' <=> Reached(p, n)) /\ NamesDone(p, n)' = NamesDone(p, n)
  BY <1>1 DEF Reached, NamesDone
<1>4. \A w \in tx'[p].writes : \A n \in 1..Len(Records(p)') :
        Reached(p, n)' /\ Records(p)'[n].key = w.row.key =>
          /\ w.row.print = Records(p)'[n].print
          /\ Linked(tx'[p].links, w.row, Records(p)'[n], NamesDone(p, n)')
  BY <1>1, <1>3 DEF LinksOK
<1>5. /\ \A l \in tx'[p].links :
           /\ l.alias \in SeenAliases(p)'
           /\ \E w \in tx'[p].writes : w.row.key = l.key /\ w.row.version = l.version
      /\ pc'[p] \in NameSteps =>
           \E w \in tx'[p].writes : w.row.key = Rec(p)'.key /\ w.row.version = job'[p].seen + 1
  BY <1>1 DEF LinksOK
<1> QED BY <1>2, <1>4, <1>5 DEF LinksOK

LEMMA LinkMove ==
  ASSUME LinkInv, RawInv', NEW p \in Ingesters, Only(p),
         UNCHANGED <<versions, orgs, aliases, links>>, LinksOK(p)', RegistryOK(p)'
  PROVE  LinkInv'
<1>1. ASSUME NEW q \in Ingesters, q # p PROVE LinksOK(q)' /\ RegistryOK(q)'
  <2>1. LinksOK(q) /\ RegistryOK(q) /\ pc'[q] = pc[q] /\ job'[q] = job[q] /\ tx'[q] = tx[q]
    BY <1>1 DEF LinkInv, Only
  <2> QED BY <2>1, LinksStand
<1>2. CatalogOK' BY DEF LinkInv, CatalogOK
<1> QED BY <1>1, <1>2 DEF LinkInv

\* Nothing is staged and no name is at hand.
LEMMA LinkIdle ==
  ASSUME LinkInv, RawInv', NEW p \in Ingesters, Only(p),
         UNCHANGED <<versions, orgs, aliases, links>>,
         pc'[p] \notin NameSteps, tx'[p].writes = {}, tx'[p] \in {tx[p], EmptyTx}
  PROVE  LinkInv'
<1>1. LinksOK(p) /\ RegistryOK(p) BY DEF LinkInv
<1>2. LinksOK(p)' BY <1>1 DEF LinksOK, EmptyTx
<1>3. RegistryOK(p)' BY <1>1 DEF RegistryOK, SeenOrgs, EmptyTx, NameSteps
<1> QED BY <1>2, <1>3, LinkMove

\* Two records of p's payload that share a key are one.
LEMMA OneRecord ==
  ASSUME TypeInv, NEW p \in Ingesters, pc[p] \in RecordSteps \cup NameSteps,
         NEW m \in 1..Len(Records(p)), NEW n \in 1..Len(Records(p)),
         Records(p)[m].key = Records(p)[n].key
  PROVE  m = n
<1>1. Records(p) \in Seq(Record) /\ job[p].doc \in Docs BY RecType DEF TypeInv
<1>2. m \in DOMAIN Records(p) /\ n \in DOMAIN Records(p) BY <1>1
<1> QED BY <1>1, <1>2, DistinctKeysAssumption DEF Records

\* p goes on within its payload and stages no link: what it had staged of earlier
\* records stays complete.
LEMMA LinkSteps ==
  ASSUME LinkInv, NEW p \in Ingesters, tx'[p] = tx[p], UNCHANGED <<orgs, aliases>>,
         SeekRecord(p) \/ KeepVersion(p) \/ SupersedeVersion(p)
  PROVE  LinksOK(p)' /\ RegistryOK(p)'
<1>0. LineageInv /\ TypeInv /\ Apply(p) BY DEF LinkInv, RawInv, LineageInv, Apply
<1>1. LinksOK(p) /\ RegistryOK(p) BY DEF LinkInv
<1>2. /\ pc[p] \in RecordSteps /\ pc'[p] \notin NameSteps /\ Records(p)' = Records(p)
  BY <1>0, ApplyKeeps DEF SeekRecord, KeepVersion, SupersedeVersion, FinishRecord, AfterRecords,
     Goto, TypeInv, TypeOK, RecordSteps, NameSteps
<1>3. RegistryOK(p)' BY <1>1, <1>2 DEF RegistryOK, SeenOrgs, NameSteps
<1>4. Rec(p).key \notin StagedKeys(p) BY <1>0, <1>2, StagedBefore
<1>5. ASSUME NEW w \in tx[p].writes, NEW n \in 1..Len(Records(p)), Reached(p, n)',
             Records(p)[n].key = w.row.key
      PROVE  /\ w.row.print = Records(p)[n].print
             /\ Linked(tx[p].links, w.row, Records(p)[n], Len(Records(p)[n].names))
  <2>1. Reached(p, n)
    BY <1>0, <1>4, <1>5, ReachedBack DEF StagedKeys, Rec
  <2>2. NamesDone(p, n) = Len(Records(p)[n].names)
    BY <1>2 DEF NamesDone, RecordSteps, NameSteps
  <2> QED BY <1>1, <1>5, <2>1, <2>2 DEF LinksOK
<1>6. \A n : NamesDone(p, n)' = Len(Records(p)[n].names) BY <1>2 DEF NamesDone
<1>7. LinksOK(p)'
  BY <1>1, <1>2, <1>5, <1>6 DEF LinksOK, SeenAliases
<1> QED BY <1>3, <1>7

LEMMA LinkWrite ==
  ASSUME LinkInv, NEW p \in Ingesters, WriteVersion(p)
  PROVE  LinksOK(p)' /\ RegistryOK(p)'
<1>0. LineageInv /\ TypeInv /\ Apply(p) BY DEF LinkInv, RawInv, LineageInv, Apply
<1>1. LinksOK(p) /\ RegistryOK(p) BY DEF LinkInv
<1>a. PICK w0 : w0 = [row |-> NewRow(p), closes |-> job[p].closes] OBVIOUS
<1>2. /\ pc[p] = "write" /\ pc[p] \in RecordSteps /\ Records(p)' = Records(p)
      /\ UNCHANGED <<orgs, aliases>>
      /\ tx'[p].writes = tx[p].writes \cup {w0} /\ tx'[p].links = tx[p].links
      /\ tx'[p].aliases = tx[p].aliases /\ tx'[p].orgs = tx[p].orgs
  BY <1>0, <1>a, ApplyKeeps
     DEF WriteVersion, store, catalog, TypeInv, TypeOK, Transaction, RecordSteps
<1>3. w0.row.key = Rec(p).key /\ w0.row.version = job[p].seen + 1 /\ w0.row.print = Rec(p).print
  BY <1>a DEF NewRow
<1>4. Rec(p).key \notin StagedKeys(p) BY <1>0, <1>2, StagedBefore
<1>5. /\ job[p].i \in 1..Len(Records(p)) /\ Rec(p).names \in Seq(Aliases) /\ job[p] \in Job
      /\ job[p].i \in Nat
  BY <1>0, <1>2, RecType DEF TypeInv
\* Where p is next: at the first name, or done with a record that has none.
<1>6. \/ /\ pc'[p] = "seekOrg" /\ job'[p].i = job[p].i /\ job'[p].seen = job[p].seen
         /\ job'[p].j = 1
      \/ pc'[p] \notin NameSteps /\ Len(Rec(p).names) = 0
  BY <1>0, <1>5 DEF WriteVersion, NextName, FinishRecord, AfterRecords, Goto, NameSteps,
     TypeInv, TypeOK, Job
<1>7. RegistryOK(p)'
  BY <1>1, <1>2, <1>6 DEF RegistryOK, SeenOrgs, NameSteps
<1>8. pc'[p] \in NameSteps =>
        \E w \in tx'[p].writes : w.row.key = Rec(p)'.key /\ w.row.version = job'[p].seen + 1
  BY <1>2, <1>3, <1>6 DEF Rec
<1>9. ASSUME NEW w \in tx'[p].writes, NEW n \in 1..Len(Records(p)), Reached(p, n)',
             Records(p)[n].key = w.row.key
      PROVE  /\ w.row.print = Records(p)[n].print
             /\ Linked(tx[p].links, w.row, Records(p)[n], NamesDone(p, n)')
  <2>1. CASE w \in tx[p].writes
    <3>1. n # job[p].i BY <1>4, <1>9, <2>1 DEF StagedKeys, Rec
    <3>2. Reached(p, n) BY <1>0, <1>9, <3>1, ReachedBack
    <3>3. NamesDone(p, n) = Len(Records(p)[n].names) /\ NamesDone(p, n)' = NamesDone(p, n)
      BY <1>2, <1>6, <3>1 DEF NamesDone, RecordSteps, NameSteps
    <3> QED BY <1>1, <1>9, <2>1, <3>2, <3>3 DEF LinksOK
  <2>2. CASE w = w0
    <3>1. n = job[p].i BY <1>0, <1>2, <1>3, <1>5, <1>9, <2>2, OneRecord DEF Rec
    <3>2. Records(p)[n] = Rec(p) BY <3>1 DEF Rec
    <3>3. NamesDone(p, n)' = 0
      BY <1>2, <1>6, <3>1, <3>2 DEF NamesDone, NameSteps
    <3>4. \A l \in tx[p].links : l.key # Rec(p).key BY <1>1, <1>4 DEF LinksOK, StagedKeys
    <3> QED BY <1>3, <2>2, <3>2, <3>3, <3>4 DEF Linked
  <2> QED BY <1>2, <1>9, <2>1, <2>2
<1>10. \A l \in tx'[p].links :
         /\ l.alias \in SeenAliases(p)'
         /\ \E w \in tx'[p].writes : w.row.key = l.key /\ w.row.version = l.version
  BY <1>1, <1>2 DEF LinksOK, SeenAliases
<1>11. LinksOK(p)' BY <1>2, <1>8, <1>9, <1>10 DEF LinksOK
<1> QED BY <1>7, <1>11

\* The organization of the name at hand is found or staged.
LEMMA LinkOrg ==
  ASSUME LinkInv, NEW p \in Ingesters, UNCHANGED <<orgs, aliases>>,
         pc[p] \in NameSteps, pc'[p] \in NameSteps, job'[p] = job[p],
         tx'[p].writes = tx[p].writes, tx'[p].aliases = tx[p].aliases,
         tx'[p].links = tx[p].links, tx[p].orgs \subseteq tx'[p].orgs,
         pc'[p] \in {"seekAlias", "addAlias"} => OrgOf[Name(p)] \in SeenOrgs(p)'
  PROVE  LinksOK(p)' /\ RegistryOK(p)'
<1>1. LinksOK(p) /\ RegistryOK(p) BY DEF LinkInv
<1>2. /\ Records(p)' = Records(p) /\ Rec(p)' = Rec(p) /\ Name(p)' = Name(p)
      /\ SeenOrgs(p) \subseteq SeenOrgs(p)' /\ SeenAliases(p)' = SeenAliases(p)
  BY DEF Records, Rec, Name, SeenOrgs, SeenAliases
<1>3. RegistryOK(p)' BY <1>1, <1>2 DEF RegistryOK
<1>4. \A n : (Reached(p, n)' <=> Reached(p, n)) /\ NamesDone(p, n)' = NamesDone(p, n)
  BY <1>2 DEF Reached, NamesDone, RecordSteps, NameSteps
<1>5. \A w \in tx'[p].writes : \A n \in 1..Len(Records(p)') :
        Reached(p, n)' /\ Records(p)'[n].key = w.row.key =>
          /\ w.row.print = Records(p)'[n].print
          /\ Linked(tx'[p].links, w.row, Records(p)'[n], NamesDone(p, n)')
  BY <1>1, <1>2, <1>4 DEF LinksOK
<1>6. /\ \A l \in tx'[p].links :
           /\ l.alias \in SeenAliases(p)'
           /\ \E w \in tx'[p].writes : w.row.key = l.key /\ w.row.version = l.version
      /\ \E w \in tx'[p].writes : w.row.key = Rec(p)'.key /\ w.row.version = job'[p].seen + 1
  BY <1>1, <1>2 DEF LinksOK
<1> QED BY <1>3, <1>5, <1>6 DEF LinksOK

\* The link of the name at hand, and its alias.
LEMMA LinkAdd ==
  ASSUME LinkInv, NEW p \in Ingesters, pc[p] \in {"seekAlias", "addAlias"}, Apply(p), AddLink(p),
         UNCHANGED <<orgs, aliases>>, Name(p) \in aliases \/ Name(p) \in tx'[p].aliases
  PROVE  LinksOK(p)' /\ RegistryOK(p)'
<1>0. LineageInv /\ TypeInv BY DEF LinkInv, RawInv, LineageInv
<1>1. LinksOK(p) /\ RegistryOK(p) BY DEF LinkInv
<1>a. PICK rec : rec = Rec(p) OBVIOUS
<1>b. PICK j : j = job[p].j OBVIOUS
<1>c. PICK l0 : l0 = [key |-> rec.key, version |-> job[p].seen + 1, ordinal |-> j,
                      alias |-> rec.names[j]]
  OBVIOUS
<1>2. /\ pc[p] \in NameSteps /\ pc[p] \notin RecordSteps /\ Records(p)' = Records(p)
      /\ Name(p) = rec.names[j]
  BY <1>0, <1>a, <1>b, ApplyKeeps DEF NameSteps, RecordSteps, Name
<1>3. /\ job[p].i \in 1..Len(Records(p)) /\ job[p].i \in Nat /\ job[p] \in Job
      /\ rec = Records(p)[job[p].i] /\ rec \in Record
      /\ j \in 1..Len(rec.names) /\ j \in Nat
  BY <1>0, <1>2, <1>a, <1>b, RecType, NameType DEF TypeInv, Rec
<1>4. /\ tx'[p].writes = tx[p].writes /\ tx'[p].orgs = tx[p].orgs
      /\ tx'[p].links = tx[p].links \cup {l0}
      /\ tx'[p].aliases \subseteq tx[p].aliases \cup {Name(p)}
      /\ tx[p].aliases \subseteq tx'[p].aliases
  BY <1>0, <1>2, <1>a, <1>b, <1>c DEF AddLink, TypeInv, TypeOK, Transaction
<1>5. OrgOf[Name(p)] \in SeenOrgs(p) BY <1>1 DEF RegistryOK
\* Where p is next: at the next name, or done with the record.
<1>6. \/ /\ pc'[p] = "seekOrg" /\ job'[p].i = job[p].i /\ job'[p].seen = job[p].seen
         /\ job'[p].j = j + 1
      \/ pc'[p] \notin NameSteps /\ Len(rec.names) = j
  BY <1>0, <1>3, <1>a, <1>b DEF AddLink, NextName, FinishRecord, AfterRecords, Goto, NameSteps,
     TypeInv, TypeOK, Job
<1>7. RegistryOK(p)'
  BY <1>1, <1>4, <1>5, <1>6 DEF RegistryOK, SeenOrgs, NameSteps
<1>8. PICK w0 \in tx[p].writes : w0.row.key = rec.key /\ w0.row.version = job[p].seen + 1
  BY <1>1, <1>2, <1>a DEF LinksOK
<1>9. pc'[p] \in NameSteps =>
        \E w \in tx'[p].writes : w.row.key = Rec(p)'.key /\ w.row.version = job'[p].seen + 1
  BY <1>2, <1>3, <1>4, <1>6, <1>8 DEF Rec, NameSteps
<1>10. \A l \in tx'[p].links :
         /\ l.alias \in SeenAliases(p)'
         /\ \E w \in tx'[p].writes : w.row.key = l.key /\ w.row.version = l.version
  <2>1. l0.alias \in SeenAliases(p)' BY <1>2, <1>c DEF SeenAliases
  <2>2. \A l \in tx[p].links : l.alias \in SeenAliases(p)' BY <1>1, <1>4 DEF LinksOK, SeenAliases
  <2> QED BY <1>1, <1>4, <1>8, <1>c, <2>1, <2>2 DEF LinksOK
<1>11. ASSUME NEW w \in tx[p].writes, NEW n \in 1..Len(Records(p)), Reached(p, n)',
              Records(p)[n].key = w.row.key
       PROVE  /\ w.row.print = Records(p)[n].print
              /\ Linked(tx'[p].links, w.row, Records(p)[n], NamesDone(p, n)')
  <2>1. Reached(p, n)
    BY <1>0, <1>2, <1>11, ReachedBack DEF KeepVersion, WriteVersion, RecordSteps
  <2>2. /\ w.row.print = Records(p)[n].print
        /\ Linked(tx[p].links, w.row, Records(p)[n], NamesDone(p, n))
    BY <1>1, <1>11, <2>1 DEF LinksOK
  <2>3. CASE n = job[p].i
    <3>1. w = w0 BY <1>0, <1>3, <1>8, <1>11, <2>3 DEF LineageInv, OneWriter
    <3>2. l0 = LinkTo(w.row, rec, j) BY <1>8, <1>c, <3>1 DEF LinkTo
    <3>3. NamesDone(p, n) = j - 1 /\ NamesDone(p, n)' = j
      BY <1>2, <1>3, <1>6, <2>3, <1>b DEF NamesDone, NameSteps
    <3>4. \A i \in 1..j : LinkTo(w.row, rec, i) \in tx'[p].links
      <4>1. \A i \in 1..(j - 1) : LinkTo(w.row, rec, i) \in tx[p].links
        BY <1>3, <2>2, <2>3, <3>3 DEF Linked
      <4>2. \A i \in 1..j : i = j \/ i \in 1..(j - 1) BY <1>3
      <4> QED BY <1>4, <3>2, <4>1, <4>2
    <3>5. \A l \in tx'[p].links : l.key = w.row.key /\ l.version = w.row.version =>
            l.ordinal \in 1..j /\ l.alias = rec.names[l.ordinal]
      <4>1. \A l \in tx[p].links : l.key = w.row.key /\ l.version = w.row.version =>
              l.ordinal \in 1..(j - 1) /\ l.alias = rec.names[l.ordinal]
        BY <1>3, <2>2, <2>3, <3>3 DEF Linked
      <4>2. 1..(j - 1) \subseteq 1..j /\ j \in 1..j BY <1>3
      <4>3. l0.ordinal = j /\ l0.alias = rec.names[j] BY <1>c
      <4> QED BY <1>4, <4>1, <4>2, <4>3
    <3> QED BY <1>3, <2>2, <2>3, <3>3, <3>4, <3>5 DEF Linked
  <2>4. CASE n # job[p].i
    <3>1. w.row.key # rec.key BY <1>0, <1>2, <1>3, <1>11, <2>4, OneRecord
    <3>2. NamesDone(p, n)' = NamesDone(p, n)
      BY <1>2, <1>6, <2>4 DEF NamesDone, NameSteps
    <3>3. l0.key = rec.key BY <1>c
    <3> QED BY <1>4, <2>2, <3>1, <3>2, <3>3 DEF Linked
  <2> QED BY <2>3, <2>4
<1>12. \A w \in tx'[p].writes : \A n \in 1..Len(Records(p)') :
         Reached(p, n)' /\ Records(p)'[n].key = w.row.key =>
           /\ w.row.print = Records(p)'[n].print
           /\ Linked(tx'[p].links, w.row, Records(p)'[n], NamesDone(p, n)')
  <2> SUFFICES ASSUME NEW w \in tx'[p].writes, NEW n \in 1..Len(Records(p)'),
                      Reached(p, n)', Records(p)'[n].key = w.row.key
               PROVE  /\ w.row.print = Records(p)'[n].print
                      /\ Linked(tx'[p].links, w.row, Records(p)'[n], NamesDone(p, n)')
    OBVIOUS
  <2>1. w \in tx[p].writes BY <1>4
  <2>2. n \in 1..Len(Records(p)) /\ Records(p)[n].key = w.row.key BY <1>2
  <2>3. /\ w.row.print = Records(p)[n].print
        /\ Linked(tx'[p].links, w.row, Records(p)[n], NamesDone(p, n)')
    BY <1>11, <2>1, <2>2
  <2> QED BY <1>2, <2>3
<1>13. LinksOK(p)' BY <1>9, <1>10, <1>12 DEF LinksOK
<1> QED BY <1>7, <1>13

\* The links of a version in the store: none of another transaction's, none of a
\* version to come.
LEMMA LinkCommit ==
  ASSUME LinkInv, RawInv', NEW p \in Ingesters, pc[p] = "commit", Publish(p), Only(p),
         tx'[p] = EmptyTx, pc'[p] \in {"idle", "failing"}
  PROVE  LinkInv' /\ LinksGo
<1>0. /\ LineageInv /\ TypeInv /\ TypeOK
      /\ versions \subseteq Row /\ current \in [Keys -> Nat]
      /\ links \subseteq Link /\ tx[p].links \subseteq Link /\ tx[p].writes \subseteq Write
  BY DEF LinkInv, RawInv, LineageInv, TypeInv, TypeOK, Transaction
<1>a. PICK W : W = tx[p].writes OBVIOUS
<1>b. PICK L : L = tx[p].links OBVIOUS
<1>1. /\ versions' = {Close(v, W) : v \in versions} \cup {w.row : w \in W}
      /\ links' = links \cup L
      /\ orgs' = SeenOrgs(p) /\ aliases' = SeenAliases(p)
  BY <1>a, <1>b DEF Publish, SeenOrgs, SeenAliases
<1>2. LinksOK(p) /\ RegistryOK(p) /\ CatalogOK BY DEF LinkInv
<1>3. \A a \in aliases' : OrgOf[a] \in orgs'
  BY <1>1, <1>2 DEF CatalogOK, RegistryOK, SeenOrgs, SeenAliases
<1>4. \A v \in versions : Close(v, W) \in versions' /\ Continues(v, Close(v, W))
  BY <1>0, <1>1, <1>a, CloseKeeps DEF Continues
<1>5. \A v \in versions : v.key \in Keys /\ v.version \in 1..current[v.key]
  BY <1>0 DEF LineageInv, Lineage, RowsOf, Row
<1>6. \A w \in W : w.row \in Row /\ w.row.version = current[w.row.key] + 1
  BY <1>0, <1>a DEF LineageInv, StagedOK, Follows, Write
\* Links that are committed are of versions that were, staged ones of staged ones.
<1>7. \A l \in links : \E v \in versions : v.key = l.key /\ v.version = l.version
  BY <1>2 DEF CatalogOK
<1>8. \A l \in L : \E w \in W : w.row.key = l.key /\ w.row.version = l.version
  BY <1>2, <1>a, <1>b DEF LinksOK
<1>9. CatalogOK'
  <2>1. \A l \in links' : l.alias \in aliases'
    BY <1>1, <1>2, <1>b DEF CatalogOK, LinksOK, SeenAliases
  <2>2. \A l \in links' : \E v \in versions' : v.key = l.key /\ v.version = l.version
    <3>1. \A w \in W : w.row \in versions' BY <1>1
    <3> QED BY <1>1, <1>4, <1>7, <1>8, <3>1 DEF Continues
  <2> QED BY <1>3, <2>1, <2>2 DEF CatalogOK
<1>10. ASSUME NEW u \in versions PROVE LinksAt(Close(u, W))' = LinksAt(u)
  <2>1. \A l \in L : ~(l.key = u.key /\ l.version = u.version)
    <3> SUFFICES ASSUME NEW l \in L, l.key = u.key, l.version = u.version PROVE FALSE
      OBVIOUS
    <3>1. PICK w \in W : w.row.key = l.key /\ w.row.version = l.version BY <1>8
    <3> QED BY <1>0, <1>5, <1>6, <3>1
  <2>2. Close(u, W).key = u.key /\ Close(u, W).version = u.version BY <1>4 DEF Continues
  <2> QED BY <1>1, <1>b, <2>1, <2>2 DEF LinksAt
<1>11. ASSUME NEW w \in W PROVE Complete(w.row)'
  <2>1. PICK n \in Nat : Reached(p, n) /\ Records(p)[n].key = w.row.key
    BY <1>0, <1>a DEF LineageInv, StagedOK
  <2>2. PICK rec : rec = Records(p)[n] OBVIOUS
  <2>3. n \in 1..Len(Records(p)) BY <2>1 DEF Reached
  <2>4. w.row.doc = job[p].doc BY <1>a DEF LinkInv, RawInv, RawOK
  <2>5. RecordsOf[job[p].doc] \in Seq(Record)
    BY <1>0, IngestionAssumption DEF TypeInv, JobsOK, JobOK
  <2>6. n \in DOMAIN RecordsOf[w.row.doc] /\ rec = RecordsOf[w.row.doc][n] /\ rec \in Record
    BY <2>2, <2>3, <2>4, <2>5 DEF Records
  <2>7. NamesDone(p, n) = Len(rec.names) BY <2>2 DEF NamesDone, NameSteps
  <2>8. w.row.print = rec.print /\ Linked(L, w.row, rec, Len(rec.names))
    BY <1>2, <1>a, <1>b, <2>1, <2>2, <2>3, <2>7 DEF LinksOK
  <2>9. \A l \in links : ~(l.key = w.row.key /\ l.version = w.row.version)
    <3> SUFFICES ASSUME NEW l \in links, l.key = w.row.key, l.version = w.row.version PROVE FALSE
      OBVIOUS
    <3>1. PICK v \in versions : v.key = l.key /\ v.version = l.version BY <1>7
    <3> QED BY <1>0, <1>5, <1>6, <3>1
  <2>10. LinksAt(w.row)' = {l \in L : l.key = w.row.key /\ l.version = w.row.version}
    BY <1>1, <2>9 DEF LinksAt
  <2>11. rec.names \in Seq(Aliases) /\ DOMAIN rec.names = 1..Len(rec.names)
    BY <2>6 DEF Record
  <2>12. \A l \in L : l.key = w.row.key /\ l.version = w.row.version =>
           \E j \in DOMAIN rec.names : l = LinkTo(w.row, rec, j)
    <3> SUFFICES ASSUME NEW l \in L, l.key = w.row.key, l.version = w.row.version
                 PROVE  \E j \in DOMAIN rec.names : l = LinkTo(w.row, rec, j)
      OBVIOUS
    <3>1. l.ordinal \in DOMAIN rec.names /\ l.alias = rec.names[l.ordinal]
      BY <2>8, <2>11 DEF Linked
    <3>2. l = [key |-> l.key, version |-> l.version, ordinal |-> l.ordinal, alias |-> l.alias]
      BY <1>0, <1>b DEF Link
    <3> QED BY <3>1, <3>2 DEF LinkTo
  <2>13. \A j \in DOMAIN rec.names : LinkTo(w.row, rec, j) \in L
    BY <2>8, <2>11 DEF Linked
  <2>14. LinksAt(w.row)' = {LinkTo(w.row, rec, j) : j \in DOMAIN rec.names}
    <3>1. \A j : LinkTo(w.row, rec, j).key = w.row.key
                 /\ LinkTo(w.row, rec, j).version = w.row.version
      BY DEF LinkTo
    <3> QED BY <2>10, <2>12, <2>13, <3>1
  <2> QED BY <2>1, <2>2, <2>6, <2>8, <2>14 DEF LinkTo, Complete
<1>13. LinksGo
  <2>1. \A u \in versions : \E v \in versions' : Continues(u, v) BY <1>4
  <2>2. \A v \in versions' :
          Complete(v)' \/ \E u \in versions : Continues(u, v) /\ LinksAt(v)' = LinksAt(u)
    BY <1>1, <1>4, <1>10, <1>11
  <2> QED BY <1>1, <2>1, <2>2 DEF LinksGo, SeenOrgs, SeenAliases
<1>14. ASSUME NEW q \in Ingesters PROVE LinksOK(q)' /\ RegistryOK(q)'
  <2>1. CASE q = p
    BY <2>1 DEF LinksOK, RegistryOK, EmptyTx, NameSteps
  <2>2. CASE q # p
    <3>1. LinksOK(q) /\ RegistryOK(q) /\ pc'[q] = pc[q] /\ job'[q] = job[q] /\ tx'[q] = tx[q]
      BY <2>2 DEF LinkInv, Only
    <3>2. orgs \subseteq orgs' /\ aliases \subseteq aliases'
      BY <1>1 DEF SeenOrgs, SeenAliases
    <3> QED BY <3>1, <3>2, LinksStand
  <2> QED BY <2>1, <2>2
<1> QED BY <1>9, <1>13, <1>14 DEF LinkInv

LEMMA LinksStay == UNCHANGED <<versions, orgs, aliases, links>> => LinksGo
BY DEF LinksGo, Continues, LinksAt

LEMMA LinkStep == LinkInv /\ [Next]_vars => LinkInv' /\ LinksGo
<1> SUFFICES ASSUME LinkInv, [Next]_vars PROVE LinkInv' /\ LinksGo OBVIOUS
<1>0. RawInv' /\ LineageInv /\ TypeInv BY RawStep DEF LinkInv, RawInv, LineageInv
<1> USE <1>0
\* Before the third transaction nothing is staged.
<1>a. ASSUME NEW p \in Ingesters, pc[p] \notin Applying PROVE tx[p].writes = {}
  BY <1>a DEF LineageInv, StagedOK, Applying
<1>b. ASSUME UNCHANGED <<versions, orgs, aliases, links, pc, job, tx>>
      PROVE  LinkInv' /\ LinksGo
  <2>1. \A p \in Ingesters : LinksOK(p)' /\ RegistryOK(p)' BY <1>b, LinksStand DEF LinkInv
  <2>2. CatalogOK' BY <1>b DEF LinkInv, CatalogOK
  <2> QED BY <1>b, <2>1, <2>2, LinksStay DEF LinkInv
<1>1. CASE Idles BY <1>1, <1>b DEF Idles, store, catalog
<1>2. ASSUME NEW p \in Ingesters, RowOnly(p) PROVE LinkInv' /\ LinksGo
  BY <1>2, <1>b DEF RowOnly, StartUnacknowledged, RecordFetchFailure, catalog
<1>3. ASSUME NEW p \in Ingesters, Only(p), Drop(p) PROVE LinkInv' /\ LinksGo
  <2>1. /\ UNCHANGED <<versions, orgs, aliases, links>> /\ pc'[p] \in {"idle", "failing"}
        /\ tx'[p] = EmptyTx /\ tx'[p].writes = {}
    BY <1>3 DEF Drop, store, catalog, EmptyTx
  <2> QED BY <1>3, <2>1, LinkIdle, LinksStay DEF NameSteps
<1>4. ASSUME NEW p \in Ingesters, Only(p), Prepare(p) PROVE LinkInv' /\ LinksGo
  <2>1. /\ UNCHANGED <<versions, orgs, aliases, links, tx>> /\ pc[p] \notin Applying
        /\ pc'[p] \notin NameSteps
    BY <1>4 DEF Prepare, StartRun, PutRaw, SeekArtifact, SaveArtifact, Parse, AfterRecords,
       Goto, store, catalog, TypeInv, TypeOK, Applying, RecordSteps, NameSteps
  <2> QED BY <1>4, <1>a, <2>1, LinkIdle, LinksStay
<1>5. ASSUME NEW p \in Ingesters, Only(p), Apply(p) PROVE LinkInv' /\ LinksGo
  <2>1. UNCHANGED <<versions, orgs, aliases, links>> BY <1>5, ApplyKeeps DEF store, catalog
  <2>2. SUFFICES LinksOK(p)' /\ RegistryOK(p)' BY <1>5, <2>1, LinkMove, LinksStay
  <2>3. CASE SeekRecord(p) \/ KeepVersion(p) \/ SupersedeVersion(p)
    BY <2>1, <2>3, LinkSteps DEF SeekRecord, KeepVersion, SupersedeVersion
  <2>4. CASE WriteVersion(p) BY <2>4, LinkWrite
  <2>5. CASE SeekOrg(p)
    <3>1. /\ pc[p] = "seekOrg" /\ job'[p] = job[p] /\ tx'[p] = tx[p]
          /\ pc'[p] = IF OrgOf[Name(p)] \in SeenOrgs(p) THEN "seekAlias" ELSE "addOrg"
      BY <2>5 DEF SeekOrg, Goto, TypeInv, TypeOK
    <3>2. SeenOrgs(p)' = SeenOrgs(p) BY <2>1, <3>1 DEF SeenOrgs
    <3> QED BY <2>1, <3>1, <3>2, LinkOrg DEF NameSteps
  <2>6. CASE AddOrg(p)
    <3>1. /\ pc[p] = "addOrg" /\ pc'[p] = "seekAlias" /\ job'[p] = job[p]
          /\ tx'[p].writes = tx[p].writes /\ tx'[p].aliases = tx[p].aliases
          /\ tx'[p].links = tx[p].links /\ tx'[p].orgs = tx[p].orgs \cup {OrgOf[Name(p)]}
      BY <2>6 DEF AddOrg, Goto, TypeInv, TypeOK, Transaction
    <3>2. OrgOf[Name(p)] \in SeenOrgs(p)' BY <3>1 DEF SeenOrgs
    <3> QED BY <2>1, <3>1, <3>2, LinkOrg DEF NameSteps
  <2>7. CASE SeekAlias(p) /\ AddLink(p)
    <3>1. Name(p) \in aliases \/ Name(p) \in tx'[p].aliases
      BY <2>7 DEF AddLink, TypeInv, TypeOK, Transaction
    <3> QED BY <1>5, <2>1, <2>7, <3>1, LinkAdd DEF SeekAlias
  <2>8. CASE SeekAlias(p) /\ Goto(p, "addAlias") /\ UNCHANGED <<job, tx>>
    <3>1. /\ pc[p] = "seekAlias" /\ pc'[p] = "addAlias" /\ job'[p] = job[p] /\ tx'[p] = tx[p]
      BY <2>8 DEF SeekAlias, Goto, TypeInv, TypeOK
    <3>2. OrgOf[Name(p)] \in SeenOrgs(p)'
      BY <2>1, <3>1 DEF LinkInv, RegistryOK, SeenOrgs
    <3> QED BY <2>1, <3>1, <3>2, LinkOrg DEF NameSteps
  <2>9. CASE AddAlias(p)
    <3>1. Name(p) \in aliases \/ Name(p) \in tx'[p].aliases
      BY <2>9 DEF AddAlias, AddLink, TypeInv, TypeOK, Transaction
    <3> QED BY <1>5, <2>1, <2>9, <3>1, LinkAdd DEF AddAlias
  <2>10. SeekAlias(p) => AddLink(p) \/ (Goto(p, "addAlias") /\ UNCHANGED <<job, tx>>)
    BY DEF SeekAlias
  <2> QED BY <1>5, <2>3, <2>4, <2>5, <2>6, <2>7, <2>8, <2>9, <2>10 DEF Apply
<1>6. ASSUME NEW p \in Ingesters, Only(p), CommitRun(p) \/ CommitUnacknowledged(p)
      PROVE  LinkInv' /\ LinksGo
  <2>1. /\ pc[p] = "commit" /\ Publish(p) /\ pc'[p] \in {"idle", "failing"}
        /\ tx'[p] = EmptyTx
    BY <1>6 DEF CommitRun, CommitUnacknowledged, Leave, Goto, TypeInv, TypeOK
  <2> QED BY <1>6, <2>1, LinkCommit
<1>7. ASSUME NEW p \in Ingesters, Only(p), MarkFailed(p) PROVE LinkInv' /\ LinksGo
  <2>1. /\ UNCHANGED <<versions, orgs, aliases, links>> /\ pc'[p] = "idle"
        /\ tx'[p] = EmptyTx /\ tx'[p].writes = {}
    BY <1>7 DEF MarkFailed, Leave, Goto, catalog, EmptyTx, TypeInv, TypeOK
  <2> QED BY <1>7, <2>1, LinkIdle, LinksStay DEF NameSteps
<1> QED BY StepKinds, <1>1, <1>2, <1>3, <1>4, <1>5, <1>6, <1>7 DEF End

LEMMA CompleteStep == LinkInv' /\ LinksGo /\ LinksAreComplete => LinksAreComplete'
<1> SUFFICES ASSUME LinkInv', LinksGo, LinksAreComplete PROVE LinksAreComplete' OBVIOUS
<1>1. \A v \in versions : Complete(v) BY DEF LinksAreComplete, Complete, LinksAt
<1>2. ASSUME NEW v \in versions' PROVE Complete(v)'
  <2>1. CASE Complete(v)' BY <2>1
  <2>2. CASE ~Complete(v)'
    <3>1. PICK u \in versions : Continues(u, v) /\ LinksAt(v)' = LinksAt(u)
      BY <2>2 DEF LinksGo
    <3>2. Complete(u) BY <1>1
    <3> QED BY <3>1, <3>2 DEF Complete, Continues
  <2> QED BY <2>1, <2>2
<1>3. CatalogOK' BY DEF LinkInv
<1> QED BY <1>2, <1>3 DEF LinksAreComplete, Complete, LinksAt, CatalogOK

\* Somebody else's transaction may add to the catalog what it refers to.
LEMMA CatalogGrows ==
  ASSUME LinkInv, UNCHANGED <<runs, objects, artifacts, current, versions, clock, pc, job, tx>>,
         orgs \subseteq orgs', aliases \subseteq aliases',
         orgs' \subseteq Orgs, aliases' \subseteq Aliases, links' \subseteq Link, CatalogOK'
  PROVE  LinkInv'
<1>0. RawInv /\ LineageInv /\ TypeInv /\ TypeOK /\ JobsOK
  BY DEF LinkInv, RawInv, LineageInv, TypeInv
<1>1. TypeOK' BY <1>0 DEF TypeOK
<1>2. JobsOK' BY <1>0 DEF JobsOK, JobOK
<1>3. LineageInv' BY <1>0, <1>1, <1>2, LineageSame DEF TypeInv
<1>4. \A p \in Ingesters : RawOK(p)' BY <1>0 DEF RawInv, RawOK
<1>5. RawInv' BY <1>0, <1>3, <1>4 DEF RawInv, Traced, OneOwner
<1>6. \A p \in Ingesters : LinksOK(p)' /\ RegistryOK(p)' BY LinksStand DEF LinkInv
<1> QED BY <1>5, <1>6 DEF LinkInv

\* Every version has the links of all the names of its record and no other, to
\* registered aliases of registered organizations, though transactions insert the
\* same organizations side by side and look them up without a lock
\* (_sync_organizations).
THEOREM LinksComplete == Spec => []LinksAreComplete
<1>1. Init => LinkInv /\ LinksAreComplete BY InitLinks
<1>2. LinkInv /\ LinksAreComplete /\ [Next]_vars => LinkInv' /\ LinksAreComplete'
  BY LinkStep, CompleteStep
<1> QED BY <1>1, <1>2, PTL DEF Spec

-----------------------------------------------------------------------------
(* Refinement.  A commit applies the staged records of its run to their       *)
(* histories at one instant; every other step leaves the histories alone.     *)

\* A version as VersionHistory has it.
Entry(v) == [version |-> v.version, print |-> v.print, from |-> v.from, to |-> v.to]

\* The list of a record's versions, place by place.
Listed(k) ==
  /\ VersionsOf(k) \in [1..current[k] -> History!Version]
  /\ \A n \in 1..current[k] : \E v \in RowsOf(k) : v.version = n
  /\ \A v \in RowsOf(k) : v.version \in 1..current[k] /\ VersionsOf(k)[v.version] = Entry(v)

LEMMA VersionsAt == LineageInv => \A x \in Keys : Listed(x)
<1> SUFFICES ASSUME LineageInv, NEW k \in Keys PROVE Listed(k) OBVIOUS
<1>1. current[k] \in Nat /\ RowsOf(k) \subseteq Row
  BY DEF LineageInv, TypeInv, TypeOK, RowsOf
<1>2. /\ {v.version : v \in RowsOf(k)} = 1..current[k]
      /\ \A v, w \in RowsOf(k) : v.version = w.version => v = w
  BY DEF LineageInv, Lineage
<1>3. \A n \in 1..current[k] : \E v \in RowsOf(k) : v.version = n BY <1>2
<1>4. \A v \in RowsOf(k) : v.version \in 1..current[k] BY <1>2
<1>5. ASSUME NEW v \in RowsOf(k) PROVE (CHOOSE u \in RowsOf(k) : u.version = v.version) = v
  BY <1>2
<1>6. \A v \in RowsOf(k) : VersionsOf(k)[v.version] = Entry(v)
  BY <1>4, <1>5 DEF VersionsOf, Entry
<1>7. \A v \in RowsOf(k) : Entry(v) \in History!Version
  BY <1>1 DEF Entry, Row, Times, History!Version, History!Times
<1>8. \A n \in 1..current[k] : VersionsOf(k)[n] \in History!Version BY <1>3, <1>6, <1>7
<1>9. VersionsOf(k) \in [1..current[k] -> History!Version] BY <1>8 DEF VersionsOf
<1> QED BY <1>3, <1>4, <1>6, <1>9 DEF Listed

LEMMA VersionsAtNext == (LineageInv => \A x \in Keys : Listed(x))'
BY VersionsAt, PTL

LEMMA AppendAt ==
  ASSUME NEW S, NEW n \in Nat, NEW g \in [1..n -> S], NEW e \in S
  PROVE  Append(g, e) = [i \in 1..(n + 1) |-> IF i = n + 1 THEN e ELSE g[i]]
<1>1. g \in Seq(S) /\ Len(g) = n OBVIOUS
<1>2. Append(g, e) \in Seq(S) /\ Len(Append(g, e)) = n + 1 BY <1>1
<1>3. \A i \in 1..(n + 1) : Append(g, e)[i] = IF i = n + 1 THEN e ELSE g[i] BY <1>1
<1>4. PICK s : s = Append(g, e) OBVIOUS
<1>5. s \in Seq(S) /\ Len(s) = n + 1 BY <1>2, <1>4
<1>6. s \in [1..(n + 1) -> S] BY <1>5
<1>7. \A i \in 1..(n + 1) : s[i] = IF i = n + 1 THEN e ELSE g[i] BY <1>3, <1>4
<1> QED BY <1>4, <1>6, <1>7

\* A staged write is accepted, and its commit appends it.
LEMMA PublishHistory ==
  ASSUME RawInv, LineageInv', NEW p \in Ingesters, Publish(p), NEW w \in tx[p].writes
  PROVE  LET k == w.row.key IN
         /\ k \in Keys /\ w.row.print \in Prints
         /\ History!Accepts(VersionsOf(k), w.row.print, job[p].at)
         /\ VersionsOf(k)' = History!After(VersionsOf(k), w.row.print, job[p].at)
<1>a. PICK k : k = w.row.key OBVIOUS
<1>b. PICK h : h = VersionsOf(k) OBVIOUS
<1>c. PICK at : at = job[p].at OBVIOUS
<1>d. PICK n : n = current[k] OBVIOUS
<1>0. LineageInv /\ w \in Write /\ k \in Keys /\ w.row.print \in Prints /\ n \in Nat
  BY <1>a, <1>d DEF RawInv, LineageInv, TypeInv, TypeOK, Transaction, Write, Row
<1>1. /\ w.row.version = n + 1 /\ w.row.to = NoTime /\ w.row.from = at
      /\ \A v \in RowsOf(k) : v.version = n => v.from < at /\ v.print # w.row.print
  BY <1>0, <1>a, <1>c, <1>d DEF RawInv, RawOK, LineageInv, StagedOK, Follows
<1>2. /\ RowsOf(k)' = {Close(v, tx[p].writes) : v \in RowsOf(k)} \cup {w.row}
      /\ current'[k] = n + 1
  BY <1>0, <1>a, <1>d, PublishRows
<1>3. /\ h \in [1..n -> History!Version]
      /\ \A i \in 1..n : \E v \in RowsOf(k) : v.version = i
      /\ \A v \in RowsOf(k) : v.version \in 1..n /\ h[v.version] = Entry(v)
  BY <1>0, <1>b, <1>d, VersionsAt DEF Listed
<1>4. /\ VersionsOf(k)' \in [1..(n + 1) -> History!Version]
      /\ \A v \in RowsOf(k)' : VersionsOf(k)'[v.version] = Entry(v)
  <2>1. Listed(k)' BY <1>0, VersionsAtNext
  <2> QED BY <1>2, <2>1 DEF Listed
<1>5. h \in Seq(History!Version) /\ Len(h) = n /\ (h = <<>> <=> n = 0)
  <2>1. h \in Seq(History!Version) /\ Len(h) = n
    <3> HIDE DEF History!Version
    <3> QED BY <1>0, <1>3
  <2> QED BY <2>1
<1>6. ASSUME n # 0 PROVE h[n].from < at /\ h[n].print # w.row.print /\ h[n].version = n
  <2>1. n \in 1..n BY <1>0, <1>6
  <2>2. PICK v \in RowsOf(k) : v.version = n BY <1>3, <2>1
  <2>3. h[n] = Entry(v) BY <1>3, <2>2
  <2>4. v.from < at /\ v.print # w.row.print BY <1>1, <2>2
  <2> QED BY <2>2, <2>3, <2>4 DEF Entry
<1>7. History!Accepts(h, w.row.print, at) BY <1>5, <1>6 DEF History!Accepts, History!Current
\* The new list, place by place: the last version is closed, the new one follows.
<1>8. VersionsOf(k)'[n + 1] = History!Fresh(n + 1, w.row.print, at)
  BY <1>1, <1>2, <1>4 DEF Entry, History!Fresh
<1>9. \A i \in 1..n : VersionsOf(k)'[i] = IF i = n THEN [h[i] EXCEPT !.to = at] ELSE h[i]
  <2> SUFFICES ASSUME NEW i \in 1..n
               PROVE  VersionsOf(k)'[i] = IF i = n THEN [h[i] EXCEPT !.to = at] ELSE h[i]
    OBVIOUS
  <2>1. PICK v \in RowsOf(k) : v.version = i BY <1>3
  <2>2. h[i] = Entry(v) BY <1>3, <2>1
  <2>3. v \in versions /\ v.key = k /\ v \in Row
    BY <2>1, <1>0 DEF RowsOf, LineageInv, TypeInv, TypeOK
  <2>4. PICK c : c = Close(v, tx[p].writes) OBVIOUS
  <2>5. c = IF v.version = n THEN [v EXCEPT !.to = at] ELSE v
    BY <1>0, <1>1, <1>a, <1>d, <2>3, <2>4, CloseEffect
  <2>6. c \in RowsOf(k)' /\ c.version = i BY <1>2, <2>1, <2>3, <2>4, <2>5 DEF Row
  <2>7. VersionsOf(k)'[i] = Entry(c) BY <1>4, <2>6
  <2> QED BY <2>1, <2>2, <2>3, <2>5, <2>7 DEF Entry, Row
<1>10. VersionsOf(k)' = History!After(h, w.row.print, at)
  <2>1. CASE n = 0
    <3>1. History!After(h, w.row.print, at) = <<History!Fresh(1, w.row.print, at)>>
      BY <2>1, <1>5 DEF History!After
    <3>2. VersionsOf(k)' \in [1..1 -> History!Version]
          /\ VersionsOf(k)'[1] = History!Fresh(1, w.row.print, at)
      BY <2>1, <1>4, <1>8
    <3> QED BY <3>1, <3>2
  <2>2. CASE n # 0
    <3>1. PICK g : g = [h EXCEPT ![n].to = at] OBVIOUS
    <3>2. PICK e : e = History!Fresh(n + 1, w.row.print, at) OBVIOUS
    <3>3. History!After(h, w.row.print, at) = Append(g, e)
      BY <2>2, <1>5, <1>6, <3>1, <3>2 DEF History!After, History!Current
    <3>4. h[n] \in History!Version /\ at \in History!Times
      BY <1>0, <1>1, <1>3, <2>2 DEF Write, Row, Times, History!Times
    <3>5. g \in [1..n -> History!Version] /\ e \in History!Version
      BY <1>0, <1>3, <2>2, <3>1, <3>2, <3>4 DEF History!Version, History!Fresh
    <3>6. Append(g, e) = [i \in 1..(n + 1) |-> IF i = n + 1 THEN e ELSE g[i]]
      BY <1>0, <3>5, AppendAt
    <3>7. \A i \in 1..n : g[i] = IF i = n THEN [h[i] EXCEPT !.to = at] ELSE h[i]
      BY <1>0, <1>3, <2>2, <3>1
    <3>8. \A i \in 1..(n + 1) : VersionsOf(k)'[i] = IF i = n + 1 THEN e ELSE g[i]
      <4> SUFFICES ASSUME NEW i \in 1..(n + 1)
                   PROVE  VersionsOf(k)'[i] = IF i = n + 1 THEN e ELSE g[i]
        OBVIOUS
      <4>1. CASE i = n + 1 BY <1>8, <3>2, <4>1
      <4>2. CASE i # n + 1
        <5>1. i \in 1..n BY <1>0, <4>2
        <5>2. VersionsOf(k)'[i] = IF i = n THEN [h[i] EXCEPT !.to = at] ELSE h[i]
          BY <1>9, <5>1
        <5> QED BY <3>7, <4>2, <5>1, <5>2
      <4> QED BY <4>1, <4>2
    <3> QED BY <1>4, <3>3, <3>6, <3>8
  <2> QED BY <2>1, <2>2
<1> QED BY <1>0, <1>7, <1>10, <1>a, <1>b, <1>c

LEMMA InitHistory == Init => History!Init
<1> SUFFICES ASSUME Init, NEW k \in Keys PROVE VersionsOf(k) = <<>>
  BY DEF History!Init
<1>1. current[k] = 0 BY DEF Init
<1> QED BY <1>1 DEF VersionsOf

\* A step that leaves the versions of a record alone leaves its list alone.
LEMMA SameHistory ==
  ASSUME NEW k, RowsOf(k)' = RowsOf(k), current'[k] = current[k]
  PROVE  VersionsOf(k)' = VersionsOf(k)
BY DEF VersionsOf

\* A commit is one transaction of the specification: it applies the staged
\* fingerprints, at the time of its run, to the records they are of.
LEMMA CommitApplies ==
  ASSUME RawInv, LineageInv', NEW p \in Ingesters, Publish(p), tx[p].writes # {}
  PROVE  History!Next
<1> DEFINE touched == StagedKeys(p)
           PrintOf(k) == (CHOOSE w \in tx[p].writes : w.row.key = k).row.print
           batch == [k \in touched |-> PrintOf(k)]
           at == job[p].at
<1>0. LineageInv BY DEF RawInv
<1>1. \A w \in tx[p].writes : w \in Write /\ w.row.key \in Keys
  BY <1>0 DEF LineageInv, TypeInv, TypeOK, Transaction, Write, Row
<1>2. touched \in SUBSET Keys BY <1>1 DEF StagedKeys
<1>3. at \in Times
  <2>1. PICK w \in tx[p].writes : TRUE OBVIOUS
  <2> QED BY <1>1, <2>1 DEF RawInv, RawOK, Write, Row
<1>4. ASSUME NEW k \in touched
      PROVE  /\ PrintOf(k) \in Prints
             /\ History!Accepts(VersionsOf(k), PrintOf(k), at)
             /\ VersionsOf(k)' = History!After(VersionsOf(k), PrintOf(k), at)
  <2>1. PICK w : w = CHOOSE x \in tx[p].writes : x.row.key = k OBVIOUS
  <2>2. w \in tx[p].writes /\ w.row.key = k BY <2>1 DEF StagedKeys
  <2>3. PrintOf(k) = w.row.print BY <2>1
  <2> QED BY <2>2, <2>3, PublishHistory
<1>5. ASSUME NEW k \in Keys, k \notin touched PROVE VersionsOf(k)' = VersionsOf(k)
  BY <1>0, <1>5, PublishRows, SameHistory
<1>6. batch \in [touched -> Prints] BY <1>4
<1>7. History!Apply(batch, at)
  <2>1. DOMAIN batch = touched OBVIOUS
  <2>2. \A k \in touched : batch[k] = PrintOf(k) OBVIOUS
  <2> HIDE DEF batch, touched, PrintOf, at
  <2>3. \A k \in touched : [x \in Keys |-> VersionsOf(x)][k] = VersionsOf(k) BY <1>2
  <2> QED BY <1>2, <1>4, <1>5, <2>1, <2>2, <2>3 DEF History!Apply
<1>8. History!Times = Times BY DEF Times, History!Times
<1> QED BY <1>2, <1>3, <1>6, <1>7, <1>8 DEF History!Next

LEMMA StepHistory ==
  RawInv /\ LineageInv' /\ [Next]_vars => [History!Next]_[k \in Keys |-> VersionsOf(k)]
<1> SUFFICES ASSUME RawInv, LineageInv', [Next]_vars
             PROVE  [History!Next]_[k \in Keys |-> VersionsOf(k)]
  OBVIOUS
<1>1. ASSUME \A k \in Keys : RowsOf(k)' = RowsOf(k) /\ current'[k] = current[k]
      PROVE  UNCHANGED [k \in Keys |-> VersionsOf(k)]
  BY <1>1, SameHistory
<1>2. CASE UNCHANGED <<current, versions>> BY <1>1, <1>2 DEF RowsOf
<1>3. CASE ~UNCHANGED <<current, versions>>
  <2>1. PICK p \in Ingesters : Publish(p) BY <1>3, OnlyCommitsWrite
  <2>2. CASE tx[p].writes = {}
    <3>1. StagedKeys(p) = {} /\ LineageInv BY <2>2 DEF StagedKeys, RawInv
    <3> QED BY <1>1, <2>1, <3>1, PublishRows
  <2>3. CASE tx[p].writes # {} BY <2>1, <2>3, CommitApplies
  <2> QED BY <2>2, <2>3
<1> QED BY <1>2, <1>3

\* Ingesters side by side, crashes, retries and commits nobody acknowledged still
\* leave, record by record, what the executable specification of
\* domain/history.py allows.
THEOREM HistoryImplemented == Spec => ImplementsHistory
<1>1. Init => History!Init BY InitHistory
<1>2. RawInv /\ LineageInv' /\ [Next]_vars => [History!Next]_[k \in Keys |-> VersionsOf(k)]
  BY StepHistory
<1>3. Init => RawInv BY InitRaw
<1>4. RawInv => LineageInv BY DEF RawInv
<1> QED BY <1>1, <1>2, <1>3, <1>4, RawStep, PTL DEF Spec, ImplementsHistory, History!Spec
=============================================================================
