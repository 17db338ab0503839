--------------------------- MODULE BackfillProofs ---------------------------
(***************************************************************************)
(* Theorems about Backfill: what holds of the store and its links when     *)
(* init makes up the links of old versions while others ingest.            *)
(*                                                                         *)
(* Until it has backfilled, init is no ingester.  Without it, the others   *)
(* are those of Ingestion, except that somebody else's commit adds to the  *)
(* catalog; so the invariants of IngestionProofs hold of them.             *)
(***************************************************************************)
EXTENDS Backfill, IngestionProofs

\* The ingesters without init, as long as it has not backfilled.
OthersPc == [p \in Ingesters |-> IF p = Filler /\ ~backfilled THEN "idle" ELSE pc[p]]
OthersJob == [p \in Ingesters |-> IF p = Filler /\ ~backfilled THEN IdleJob ELSE job[p]]
OthersTx == [p \in Ingesters |-> IF p = Filler /\ ~backfilled THEN EmptyTx ELSE tx[p]]

Others == INSTANCE IngestionProofs WITH pc <- OthersPc, job <- OthersJob, tx <- OthersTx

LocalTyped ==
  pc \in [Ingesters -> Steps] /\ job \in [Ingesters -> Job] /\ tx \in [Ingesters -> Transaction]

-----------------------------------------------------------------------------
(* A step of an ingester is one of Ingestion. *)

Present(p) == p \in Ingesters /\ (p = Filler => backfilled)

\* p sees the same, and waits for fewer.
LEMMA OthersSee ==
  ASSUME NEW p, Present(p)
  PROVE  /\ OthersPc[p] = pc[p] /\ OthersJob[p] = job[p] /\ OthersTx[p] = tx[p]
         /\ Others!Records(p) = Records(p) /\ Others!Rec(p) = Rec(p) /\ Others!Name(p) = Name(p)
         /\ Others!SeenOrgs(p) = SeenOrgs(p) /\ Others!SeenAliases(p) = SeenAliases(p)
         /\ Others!StagedKeys(p) = StagedKeys(p)
<1>1. /\ OthersPc[p] = pc[p] /\ OthersJob[p] = job[p] /\ OthersTx[p] = tx[p]
  BY DEF Present, OthersPc, OthersJob, OthersTx
<1>2. Others!Records(p) = Records(p) BY <1>1 DEF Others!Records, Records
<1>3. Others!Rec(p) = Rec(p) BY <1>1, <1>2 DEF Others!Rec, Rec
<1>4. Others!Name(p) = Name(p) BY <1>1, <1>3 DEF Others!Name, Name
<1>5. Others!SeenOrgs(p) = SeenOrgs(p) /\ Others!SeenAliases(p) = SeenAliases(p)
  BY <1>1 DEF Others!SeenOrgs, Others!SeenAliases, SeenOrgs, SeenAliases
<1>6. Others!StagedKeys(p) = StagedKeys(p) BY <1>1 DEF Others!StagedKeys, StagedKeys
<1> QED BY <1>1, <1>2, <1>3, <1>4, <1>5, <1>6

LEMMA OthersGranted ==
  ASSUME NEW p, Present(p), Granted(p)
  PROVE  Others!Granted(p)
<1> SUFFICES ASSUME NEW q \in Ingesters, Others!WaitsFor(p, q) PROVE WaitsFor(p, q)
  BY DEF Granted, Others!Granted
<1>1. OthersTx[q] = tx[q] \/ OthersTx[q] = EmptyTx BY DEF OthersTx
<1>2. Others!StagedKeys(q) \subseteq StagedKeys(q)
  BY <1>1 DEF Others!StagedKeys, StagedKeys, EmptyTx
<1>3. OthersTx[q].orgs \subseteq tx[q].orgs /\ OthersTx[q].aliases \subseteq tx[q].aliases
  BY <1>1 DEF EmptyTx
<1> QED BY <1>2, <1>3, OthersSee DEF Others!WaitsFor, WaitsFor

\* What p does to itself, and to nobody else.
LEMMA OthersMove ==
  ASSUME LocalTyped, NEW p, Present(p), UNCHANGED backfilled
  PROVE  /\ UNCHANGED pc => UNCHANGED OthersPc
         /\ UNCHANGED job => UNCHANGED OthersJob
         /\ UNCHANGED tx => UNCHANGED OthersTx
         /\ \A s : pc' = [pc EXCEPT ![p] = s] => OthersPc' = [OthersPc EXCEPT ![p] = s]
         /\ \A x : job' = [job EXCEPT ![p] = x] => OthersJob' = [OthersJob EXCEPT ![p] = x]
         /\ \A x : tx' = [tx EXCEPT ![p] = x] => OthersTx' = [OthersTx EXCEPT ![p] = x]
<1>1. UNCHANGED pc => UNCHANGED OthersPc BY DEF OthersPc
<1>2. UNCHANGED job => UNCHANGED OthersJob BY DEF OthersJob
<1>3. UNCHANGED tx => UNCHANGED OthersTx BY DEF OthersTx
<1>4. ASSUME NEW s, pc' = [pc EXCEPT ![p] = s] PROVE OthersPc' = [OthersPc EXCEPT ![p] = s]
  BY <1>4 DEF LocalTyped, Present, OthersPc
<1>5. ASSUME NEW x, job' = [job EXCEPT ![p] = x]
      PROVE  OthersJob' = [OthersJob EXCEPT ![p] = x]
  BY <1>5 DEF LocalTyped, Present, OthersJob
<1>6. ASSUME NEW x, tx' = [tx EXCEPT ![p] = x] PROVE OthersTx' = [OthersTx EXCEPT ![p] = x]
  BY <1>6 DEF LocalTyped, Present, OthersTx
<1> QED BY <1>1, <1>2, <1>3, <1>4, <1>5, <1>6

LEMMA OthersFail ==
  ASSUME LocalTyped, NEW p, Present(p), UNCHANGED backfilled
  PROVE  /\ \A s : Goto(p, s) => Others!Goto(p, s)
         /\ Fail(p) => Others!Fail(p)
         /\ Leave(p) => Others!Leave(p)
<1>0. Others!EmptyTx = EmptyTx /\ Others!IdleJob = IdleJob
  BY DEF Others!EmptyTx, Others!IdleJob, EmptyTx, IdleJob
<1>1. \A s : Goto(p, s) => Others!Goto(p, s) BY OthersMove DEF Goto, Others!Goto
<1>2. tx' = [tx EXCEPT ![p] = EmptyTx] => OthersTx' = [OthersTx EXCEPT ![p] = EmptyTx]
  BY OthersMove
<1>3. job' = [job EXCEPT ![p] = IdleJob] => OthersJob' = [OthersJob EXCEPT ![p] = IdleJob]
  BY OthersMove
<1>4. UNCHANGED job => UNCHANGED OthersJob BY OthersMove
<1>5. UNCHANGED store => UNCHANGED Others!store
  BY DEF store, Others!store, catalog, Others!catalog
<1>6. Fail(p) => Others!Fail(p) BY <1>0, <1>1, <1>2, <1>4, <1>5 DEF Fail, Others!Fail
<1>7. Leave(p) => Others!Leave(p) BY <1>0, <1>1, <1>2, <1>3 DEF Leave, Others!Leave
<1> QED BY <1>1, <1>6, <1>7

\* The helpers of the actions.
LEMMA OthersHelp ==
  ASSUME LocalTyped, NEW p, Present(p), UNCHANGED backfilled
  PROVE  /\ \A i : Others!AfterRecords(p, i) = AfterRecords(p, i)
         /\ \A k : Others!RowsOf(k) = RowsOf(k) /\ Others!OpenRows(k) = OpenRows(k)
         /\ FinishRecord(p) => Others!FinishRecord(p)
         /\ \A j : NextName(p, j) => Others!NextName(p, j)
         /\ AddLink(p) => Others!AddLink(p)
         /\ Others!NewRow(p) = NewRow(p)
         /\ Others!WriteCollides(p) <=> WriteCollides(p)
         /\ Publish(p) => Others!Publish(p)
<1>s. /\ OthersPc[p] = pc[p] /\ OthersJob[p] = job[p] /\ OthersTx[p] = tx[p]
      /\ Others!Records(p) = Records(p) /\ Others!Rec(p) = Rec(p) /\ Others!Name(p) = Name(p)
      /\ Others!StagedKeys(p) = StagedKeys(p)
  BY OthersSee
<1>m. /\ \A x : job' = [job EXCEPT ![p] = x] => OthersJob' = [OthersJob EXCEPT ![p] = x]
      /\ \A x : tx' = [tx EXCEPT ![p] = x] => OthersTx' = [OthersTx EXCEPT ![p] = x]
      /\ \A s : Goto(p, s) => Others!Goto(p, s)
  BY OthersMove, OthersFail
<1>1. \A i : Others!AfterRecords(p, i) = AfterRecords(p, i)
  BY <1>s DEF AfterRecords, Others!AfterRecords
<1>2. \A k : Others!RowsOf(k) = RowsOf(k) /\ Others!OpenRows(k) = OpenRows(k)
  BY DEF RowsOf, Others!RowsOf, OpenRows, Others!OpenRows
<1>3. FinishRecord(p) => Others!FinishRecord(p)
  BY <1>s, <1>m, <1>1 DEF FinishRecord, Others!FinishRecord
<1>4. \A j : NextName(p, j) => Others!NextName(p, j)
  BY <1>s, <1>m, <1>3 DEF NextName, Others!NextName
<1>5. AddLink(p) => Others!AddLink(p)
  <2> SUFFICES ASSUME AddLink(p) PROVE Others!AddLink(p) OBVIOUS
  <2>1. PICK L : L = tx[p].links \cup {[key |-> Rec(p).key, version |-> job[p].seen + 1,
                                        ordinal |-> job[p].j, alias |-> Name(p)]}
    OBVIOUS
  <2>2. PICK A : A = IF Name(p) \in aliases THEN tx[p].aliases ELSE tx[p].aliases \cup {Name(p)}
    OBVIOUS
  <2>3. tx' = [tx EXCEPT ![p].links = L, ![p].aliases = A] BY <2>1, <2>2 DEF AddLink
  <2>4. tx' = [tx EXCEPT ![p] = [tx[p] EXCEPT !.links = L, !.aliases = A]]
    BY <2>3 DEF LocalTyped, Present
  <2>5. OthersTx' = [OthersTx EXCEPT ![p] = [tx[p] EXCEPT !.links = L, !.aliases = A]]
    BY <1>m, <2>4
  <2>6. OthersTx' = [OthersTx EXCEPT ![p].links = L, ![p].aliases = A]
    BY <1>s, <2>5 DEF OthersTx, Present
  <2> QED BY <1>s, <1>4, <2>1, <2>2, <2>6 DEF AddLink, Others!AddLink
<1>6. Others!NewRow(p) = NewRow(p) BY <1>s DEF NewRow, Others!NewRow
<1>7. Others!WriteCollides(p) <=> WriteCollides(p)
  BY <1>s, <1>2 DEF WriteCollides, Others!WriteCollides
<1>8. Publish(p) => Others!Publish(p)
  <2>1. \A v, W : Others!Close(v, W) = Close(v, W) BY DEF Close, Others!Close
  <2>2. {Others!Close(v, tx[p].writes) : v \in versions} = {Close(v, tx[p].writes) : v \in versions}
    BY <2>1
  <2>3. PICK W : W = tx[p].writes OBVIOUS
  <2>4. PICK K : K = StagedKeys(p) OBVIOUS
  <2> SUFFICES ASSUME Publish(p) PROVE Others!Publish(p) OBVIOUS
  <2>5. /\ versions' = {Close(v, W) : v \in versions} \cup {w.row : w \in W}
        /\ current' = [k \in Keys |-> IF k \in K THEN (CHOOSE w \in W : w.row.key = k).row.version
                                      ELSE current[k]]
        /\ orgs' = orgs \cup tx[p].orgs /\ aliases' = aliases \cup tx[p].aliases
        /\ links' = links \cup tx[p].links
        /\ runs' = [runs EXCEPT ![job[p].run].status = "succeeded"]
        /\ UNCHANGED <<artifacts, objects, clock>>
    BY <2>3, <2>4 DEF Publish
  <2>6. {Close(v, W) : v \in versions} = {Others!Close(v, W) : v \in versions} BY <2>2, <2>3
  <2>7. OthersTx[p].writes = W /\ Others!StagedKeys(p) = K BY <1>s, <2>3, <2>4
  <2> QED BY <1>s, <2>5, <2>6, <2>7 DEF Others!Publish
<1> QED BY <1>1, <1>2, <1>3, <1>4, <1>5, <1>6, <1>7, <1>8

Acts(p) == Begin(p) \/ Work(p) \/ Fault(p) \/ Crash(p)

\* What an ingester does is what it would do without init.
LEMMA OthersWork ==
  ASSUME LocalTyped, NEW p, Present(p), UNCHANGED backfilled
  PROVE  Acts(p) => Others!Begin(p) \/ Others!Work(p) \/ Others!Fault(p) \/ Others!Crash(p)
<1>s. /\ OthersPc[p] = pc[p] /\ OthersJob[p] = job[p] /\ OthersTx[p] = tx[p]
      /\ Others!Records(p) = Records(p) /\ Others!Rec(p) = Rec(p) /\ Others!Name(p) = Name(p)
      /\ Others!SeenOrgs(p) = SeenOrgs(p) /\ Others!SeenAliases(p) = SeenAliases(p)
  BY OthersSee
<1>m. /\ UNCHANGED pc => UNCHANGED OthersPc
      /\ UNCHANGED job => UNCHANGED OthersJob
      /\ UNCHANGED tx => UNCHANGED OthersTx
      /\ \A x : job' = [job EXCEPT ![p] = x] => OthersJob' = [OthersJob EXCEPT ![p] = x]
      /\ \A x : tx' = [tx EXCEPT ![p] = x] => OthersTx' = [OthersTx EXCEPT ![p] = x]
  BY OthersMove
<1>f. /\ \A s : Goto(p, s) => Others!Goto(p, s)
      /\ Fail(p) => Others!Fail(p)
      /\ Leave(p) => Others!Leave(p)
  BY OthersFail
<1>e. Others!EmptyTx = EmptyTx /\ Others!IdleJob = IdleJob
  BY DEF Others!EmptyTx, Others!IdleJob, EmptyTx, IdleJob
<1>c. Others!catalog = catalog /\ Others!store = store
  BY DEF store, Others!store, catalog, Others!catalog
<1>u. UNCHANGED store => UNCHANGED Others!store
  BY DEF store, Others!store, catalog, Others!catalog
<1>v. UNCHANGED catalog => UNCHANGED Others!catalog BY DEF catalog, Others!catalog
<1>1. StartRun(p) => Others!StartRun(p)
  <2> SUFFICES ASSUME StartRun(p) PROVE Others!StartRun(p) OBVIOUS
  <2>1. PICK r \in RunIds, d \in Docs :
          /\ runs[r].status = "unused"
          /\ runs' = [runs EXCEPT ![r].status = "running"]
          /\ job' = [job EXCEPT ![p] = [IdleJob EXCEPT !.run = r, !.doc = d]]
    BY DEF StartRun
  <2>2. OthersJob' = [OthersJob EXCEPT ![p] = [Others!IdleJob EXCEPT !.run = r, !.doc = d]]
    BY <1>m, <1>e, <2>1
  <2> QED BY <1>s, <1>m, <1>f, <1>v, <2>1, <2>2 DEF StartRun, Others!StartRun
<1>2. RecordFetchFailure(p) => Others!RecordFetchFailure(p)
  BY <1>s, <1>m, <1>v DEF RecordFetchFailure, Others!RecordFetchFailure
<1>3. PutRaw(p) => Others!PutRaw(p) BY <1>s, <1>m, <1>f, <1>u DEF PutRaw, Others!PutRaw
<1>4. PutRawFails(p) => Others!PutRawFails(p) BY <1>s, <1>f DEF PutRawFails, Others!PutRawFails
<1>5. SeekArtifact(p) => Others!SeekArtifact(p)
  BY <1>s, <1>m, <1>f, <1>u DEF SeekArtifact, Others!SeekArtifact
<1>6. SaveArtifact(p) => Others!SaveArtifact(p)
  BY <1>s, <1>m, <1>f, <1>v DEF SaveArtifact, Others!SaveArtifact
<1>7. ArtifactCollides(p) => Others!ArtifactCollides(p)
  BY <1>s, <1>f DEF ArtifactCollides, Others!ArtifactCollides
<1>8. Parse(p) => Others!Parse(p)
  <2> SUFFICES ASSUME Parse(p) PROVE Others!Parse(p) OBVIOUS
  <2>1. job' = [job EXCEPT ![p] = [job[p] EXCEPT !.at = clock, !.i = 1]]
    BY DEF Parse, LocalTyped, Present
  <2>2. OthersJob' = [OthersJob EXCEPT ![p] = [job[p] EXCEPT !.at = clock, !.i = 1]]
    BY <1>m, <2>1
  <2>3. OthersJob' = [OthersJob EXCEPT ![p].at = clock, ![p].i = 1]
    BY <1>s, <2>2 DEF OthersJob, Present
  <2> QED BY <1>s, <1>m, <1>f, <1>u, <2>3, OthersHelp DEF Parse, Others!Parse
<1>9. ParseFails(p) => Others!ParseFails(p) BY <1>s, <1>f DEF ParseFails, Others!ParseFails
<1>10. SeekRecord(p) => Others!SeekRecord(p)
  <2> SUFFICES ASSUME SeekRecord(p) PROVE Others!SeekRecord(p) OBVIOUS
  <2>1. PICK cv : cv = current[Rec(p).key] OBVIOUS
  <2>2. job' = [job EXCEPT ![p] = [job[p] EXCEPT !.seen = cv, !.closes = 0]]
    BY <2>1 DEF SeekRecord, LocalTyped, Present
  <2>3. OthersJob' = [OthersJob EXCEPT ![p] = [job[p] EXCEPT !.seen = cv, !.closes = 0]]
    BY <1>m, <2>2
  <2>4. OthersJob' = [OthersJob EXCEPT ![p].seen = cv, ![p].closes = 0]
    BY <1>s, <2>3 DEF OthersJob, Present
  <2> QED BY <1>s, <1>m, <1>f, <1>u, <2>1, <2>4 DEF SeekRecord, Others!SeekRecord
<1>11. KeepVersion(p) => Others!KeepVersion(p)
  BY <1>s, <1>m, <1>u, OthersHelp DEF KeepVersion, Others!KeepVersion
<1>12. SupersedeVersion(p) => Others!SupersedeVersion(p)
  <2> SUFFICES ASSUME SupersedeVersion(p) PROVE Others!SupersedeVersion(p) OBVIOUS
  <2>1. PICK v \in OpenRows(Rec(p).key) : /\ v.print # Rec(p).print
                                          /\ v.from < job[p].at
                                          /\ job' = [job EXCEPT ![p].closes = v.version]
    BY DEF SupersedeVersion
  <2>2. OthersJob' = [OthersJob EXCEPT ![p].closes = v.version] BY <1>s, <1>m, <2>1
  <2>3. v \in Others!OpenRows(Others!Rec(p).key) BY <1>s, <2>1, OthersHelp
  <2> QED BY <1>s, <1>m, <1>f, <1>u, <2>1, <2>2, <2>3 DEF SupersedeVersion, Others!SupersedeVersion
<1>13. RefuseVersion(p) => Others!RefuseVersion(p)
  BY <1>s, <1>f, OthersHelp DEF RefuseVersion, Others!RefuseVersion
<1>14. WriteVersion(p) => Others!WriteVersion(p)
  BY <1>s, <1>m, <1>u, OthersHelp, OthersGranted DEF WriteVersion, Others!WriteVersion
<1>15. RejectWrite(p) => Others!RejectWrite(p)
  BY <1>s, <1>f, OthersHelp, OthersGranted DEF RejectWrite, Others!RejectWrite
<1>16. SeekOrg(p) => Others!SeekOrg(p)
  BY <1>s, <1>m, <1>f, <1>u DEF SeekOrg, Others!SeekOrg
<1>17. RefuseName(p) => Others!RefuseName(p) BY <1>s, <1>f DEF RefuseName, Others!RefuseName
<1>18. AddOrg(p) => Others!AddOrg(p)
  BY <1>s, <1>m, <1>f, <1>u, OthersGranted DEF AddOrg, Others!AddOrg
<1>19. OrgCollides(p) => Others!OrgCollides(p) BY <1>s, <1>f DEF OrgCollides, Others!OrgCollides
<1>20. SeekAlias(p) => Others!SeekAlias(p)
  BY <1>s, <1>m, <1>f, <1>u, OthersHelp DEF SeekAlias, Others!SeekAlias
<1>21. AddAlias(p) => Others!AddAlias(p)
  BY <1>s, <1>m, <1>u, OthersHelp, OthersGranted DEF AddAlias, Others!AddAlias
<1>22. AliasCollides(p) => Others!AliasCollides(p)
  BY <1>s, <1>f DEF AliasCollides, Others!AliasCollides
<1>23. CommitRun(p) => Others!CommitRun(p)
  BY <1>s, <1>f, OthersHelp DEF CommitRun, Others!CommitRun
<1>24. CommitUnacknowledged(p) => Others!CommitUnacknowledged(p)
  BY <1>s, <1>m, <1>f, <1>e, OthersHelp DEF CommitUnacknowledged, Others!CommitUnacknowledged
<1>25. MarkFailed(p) => Others!MarkFailed(p)
  BY <1>s, <1>f, <1>v DEF MarkFailed, Others!MarkFailed
<1>26. StatementFails(p) => Others!StatementFails(p)
  BY <1>s, <1>f DEF StatementFails, Others!StatementFails, InTransaction, Others!InTransaction,
     Steps, Others!Steps
\* A deadlock may need init; but a statement may also fail for no reason.
<1>27. AbortDeadlock(p) => Others!StatementFails(p)
  <2> SUFFICES ASSUME AbortDeadlock(p) PROVE Others!StatementFails(p) OBVIOUS
  <2>1. PICK r : WaitsFor(p, r) BY DEF AbortDeadlock, Deadlocked
  <2>2. pc[p] \in InTransaction BY <2>1 DEF WaitsFor, InTransaction, Steps
  <2>3. StatementFails(p) BY <2>2 DEF AbortDeadlock, StatementFails
  <2> QED BY <2>3, <1>26
<1>31. StartUnacknowledged(p) => Others!StartUnacknowledged(p)
  BY <1>s, <1>m, <1>v DEF StartUnacknowledged, Others!StartUnacknowledged
<1>32. MarkFails(p) => Others!MarkFails(p) BY <1>s, <1>f, <1>u DEF MarkFails, Others!MarkFails
<1>33. Crash(p) => Others!Crash(p) BY <1>s, <1>f, <1>u DEF Crash, Others!Crash
<1>28. Begin(p) => Others!Begin(p) BY <1>1, <1>2, <1>31 DEF Begin, Others!Begin
<1>29. Fault(p) => Others!Fault(p) BY <1>4, <1>24, <1>26, <1>32 DEF Fault, Others!Fault
<1>30. Work(p) => Others!Work(p) \/ Others!Fault(p)
  BY <1>3, <1>5, <1>6, <1>7, <1>8, <1>9, <1>10, <1>11, <1>12, <1>13, <1>14, <1>15, <1>16, <1>17,
     <1>18, <1>19, <1>20, <1>21, <1>22, <1>23, <1>25, <1>27
     DEF Work, Others!Work, Others!Fault
<1> QED BY <1>28, <1>29, <1>30, <1>33 DEF Acts

-----------------------------------------------------------------------------
(* The invariant.  While init is backfilling, an old version that has no      *)
(* links is still to be read, is the one at hand, or has all of them staged;  *)
(* so nothing is left when it commits.  Versions that others commit meanwhile *)
(* have their links.                                                          *)

\* The version at hand.
IsAt(v) ==
  /\ v.doc = job[Filler].doc /\ v.key = Rec(Filler).key
  /\ v.version = job[Filler].seen + 1

\* Of the version at hand, the links of the first n names are staged.
NamesStaged(v, n) == \A j \in 1..n : LinkTo(v, Rec(Filler), j) \in tx[Filler].links

InHand(v) ==
  \/ \E u \in todo : Continues(u, v)
  \/ pc[Filler] \in NameSteps /\ IsAt(v) /\ NamesStaged(v, job[Filler].j - 1)
  \/ LinksOfRecord(v) \subseteq tx[Filler].links

\* v has its links, or is old and will get them if init commits.
LinkedOrOld(v) ==
  \/ LinksOf(v) = LinksOfRecord(v)
  \/ /\ ~backfilled /\ v.run = OldRun /\ LinksOf(v) = {}
     /\ filling /\ pc[Filler] # "failing" => InHand(v)

\* Where init is when it is not backfilling, and when it is.
FillerOK ==
  /\ backfilled => ~filling
  /\ ~filling => todo = {}
  /\ ~filling /\ ~backfilled => pc[Filler] = "idle" /\ tx[Filler] = EmptyTx
  /\ filling => /\ pc[Filler] \in {"seekRecord", "commit", "failing"} \cup NameSteps
                /\ tx[Filler].writes = {}

AtName ==
  filling /\ pc[Filler] \in NameSteps =>
    /\ job[Filler].doc \in Docs
    /\ job[Filler].i \in DOMAIN Records(Filler)
    /\ job[Filler].j \in DOMAIN Rec(Filler).names
    /\ pc[Filler] # "seekOrg" => OrgOf[Name(Filler)] # NoOrg
    /\ \E v \in versions : IsAt(v)

\* What init has staged is of versions of the store, and refers to what there is.
StagedLinksOK ==
  filling => /\ RegistryOK(Filler)
             /\ \A l \in tx[Filler].links :
                  l.alias \in SeenAliases(Filler) /\ \E v \in versions : l \in LinksOfRecord(v)

FillInv ==
  /\ filling \in BOOLEAN /\ backfilled \in BOOLEAN /\ LocalTyped
  /\ Others!LinkInv
  /\ todo \subseteq Row /\ \A u \in todo : \E v \in versions : Continues(u, v)
  /\ FillerOK /\ AtName /\ StagedLinksOK
  /\ \A v \in versions : LinkedOrOld(v)

-----------------------------------------------------------------------------
(* What the invariant says of the store is what Others' says. *)

LEMMA OthersStore ==
  /\ Others!StoreType <=> StoreType
  /\ Others!Lineage <=> Lineage
  /\ Others!CatalogOK <=> CatalogOK
  /\ Others!NoEmptyVersion <=> NoEmptyVersion
  /\ \A v : Others!Traced(v) <=> Traced(v)
<1>1. Others!StoreType <=> StoreType
  BY DEF StoreType, Others!StoreType, Run, Others!Run, Row, Others!Row, Link, Others!Link,
     Times, Others!Times
<1>2. Others!Lineage <=> Lineage BY DEF Lineage, Others!Lineage, RowsOf, Others!RowsOf
<1>3. Others!CatalogOK <=> CatalogOK BY DEF CatalogOK, Others!CatalogOK
<1>4. Others!NoEmptyVersion <=> NoEmptyVersion BY DEF NoEmptyVersion, Others!NoEmptyVersion
<1>5. \A v : Others!Traced(v) <=> Traced(v) BY DEF Traced, Others!Traced
<1> QED BY <1>1, <1>2, <1>3, <1>4, <1>5

LEMMA OthersAssumption == Others!IngestionAssumption /\ Others!DistinctKeysAssumption
BY IngestionAssumption, DistinctKeysAssumption
   DEF Others!IngestionAssumption, Others!DistinctKeysAssumption, Record, Others!Record

LEMMA StoreTyped ==
  ASSUME Others!LinkInv
  PROVE  StoreType /\ Lineage /\ CatalogOK /\ RawBeforeCanonical
<1>1. Others!RawInv /\ Others!CatalogOK BY DEF Others!LinkInv
<1>2. Others!LineageInv /\ artifacts \subseteq objects /\ \A v \in versions : Others!Traced(v)
  BY <1>1 DEF Others!RawInv
<1>3. Others!TypeOK /\ Others!Lineage BY <1>2 DEF Others!LineageInv, Others!TypeInv
<1>4. Others!StoreType BY <1>3, Others!SplitType, OthersAssumption
<1>5. \A v \in versions : Traced(v) BY <1>2, OthersStore
<1> QED BY <1>1, <1>2, <1>3, <1>4, <1>5, OthersStore DEF RawBeforeCanonical, Traced

LEMMA StoreTypedNext ==
  (Others!LinkInv => StoreType /\ Lineage /\ CatalogOK /\ RawBeforeCanonical)'
BY StoreTyped, PTL

LEMMA OthersGo == Others!LinksGo => LinksGo
<1>1. \A u, v : Others!Continues(u, v) <=> Continues(u, v) BY DEF Continues, Others!Continues
<1>2. \A v : Others!LinksAt(v) = LinksAt(v) /\ Others!LinksAt(v)' = LinksAt(v)'
  BY DEF LinksAt, Others!LinksAt
<1>3. \A v : Others!Complete(v)' <=> Complete(v)' BY <1>2 DEF Complete, Others!Complete
<1> QED BY <1>1, <1>2, <1>3 DEF LinksGo, Others!LinksGo

-----------------------------------------------------------------------------
(* Links of a record. *)

\* The records of a payload have distinct keys, so a version has one record.
LEMMA LinksOfOne ==
  ASSUME NEW v, v.doc \in Docs, NEW i \in DOMAIN RecordsOf[v.doc],
         RecordsOf[v.doc][i].key = v.key
  PROVE  LinksOfRecord(v) =
           {LinkTo(v, RecordsOf[v.doc][i], j) : j \in DOMAIN RecordsOf[v.doc][i].names}
<1>1. {n \in DOMAIN RecordsOf[v.doc] : RecordsOf[v.doc][n].key = v.key} = {i}
  BY DistinctKeysAssumption
<1> QED BY <1>1 DEF LinksOfRecord, LinkTo

LEMMA LinksOfKey ==
  ASSUME NEW v, NEW l \in LinksOfRecord(v)
  PROVE  l.key = v.key /\ l.version = v.version
BY DEF LinksOfRecord

LEMMA Continued ==
  ASSUME NEW u, NEW v, Continues(u, v)
  PROVE  /\ LinksOfRecord(v) = LinksOfRecord(u)
         /\ \A rec, j : LinkTo(v, rec, j) = LinkTo(u, rec, j)
         /\ \A w : Continues(w, u) => Continues(w, v)
BY DEF Continues, LinksOfRecord, LinkTo

LEMMA CompleteLinked ==
  ASSUME NEW v, v.doc \in Docs, NEW L, NEW i \in DOMAIN RecordsOf[v.doc],
         RecordsOf[v.doc][i].key = v.key,
         L = {[key |-> v.key, version |-> v.version, ordinal |-> j,
               alias |-> RecordsOf[v.doc][i].names[j]] : j \in DOMAIN RecordsOf[v.doc][i].names}
  PROVE  L = LinksOfRecord(v)
BY LinksOfOne DEF LinkTo

-----------------------------------------------------------------------------
(* Others at work. *)

\* Init stands still, or has backfilled.
LEMMA FillerStands ==
  ASSUME FillInv, StoreType', LinksGo, UNCHANGED fill,
         ~backfilled => /\ pc'[Filler] = pc[Filler] /\ job'[Filler] = job[Filler]
                        /\ tx'[Filler] = tx[Filler]
  PROVE  /\ \A u \in todo' : \E v \in versions' : Continues(u, v)
         /\ FillerOK' /\ AtName' /\ StagedLinksOK'
         /\ \A v \in versions' : LinkedOrOld(v)'
<1>1. UNCHANGED <<filling, todo, backfilled>> BY DEF fill
<1>2. /\ FillerOK /\ AtName /\ StagedLinksOK /\ \A v \in versions : LinkedOrOld(v)
      /\ \A u \in todo : \E v \in versions : Continues(u, v)
  BY DEF FillInv
<1>3. /\ orgs \subseteq orgs' /\ aliases \subseteq aliases'
      /\ \A u \in versions : \E v \in versions' : Continues(u, v)
  BY DEF LinksGo
<1>4. FillerOK' BY <1>1, <1>2 DEF FillerOK
<1>5. \A u \in todo' : \E v \in versions' : Continues(u, v) BY <1>1, <1>2, <1>3, Continued
<1>6. filling => ~backfilled BY <1>2 DEF FillerOK
\* What init sees of itself.
<1>7. ASSUME ~backfilled
      PROVE  /\ Records(Filler)' = Records(Filler) /\ Rec(Filler)' = Rec(Filler)
             /\ Name(Filler)' = Name(Filler)
             /\ SeenOrgs(Filler) \subseteq SeenOrgs(Filler)'
             /\ SeenAliases(Filler) \subseteq SeenAliases(Filler)'
             /\ \A v : IsAt(v)' <=> IsAt(v)
  BY <1>3, <1>7 DEF Records, Rec, Name, SeenOrgs, SeenAliases, IsAt
<1>8. \A u, v : Continues(u, v) /\ IsAt(u) => IsAt(v) BY DEF Continues, IsAt
<1>9. AtName'
  <2> SUFFICES ASSUME filling, pc[Filler] \in NameSteps PROVE AtName' BY <1>1, <1>6 DEF AtName
  <2>1. PICK u \in versions : IsAt(u) BY <1>2 DEF AtName
  <2>2. \E v \in versions' : IsAt(v)' BY <1>3, <1>6, <1>7, <1>8, <2>1
  <2> QED BY <1>1, <1>2, <1>6, <1>7, <2>2 DEF AtName
<1>10. StagedLinksOK'
  <2> SUFFICES ASSUME filling PROVE StagedLinksOK' BY <1>1 DEF StagedLinksOK
  <2>1. RegistryOK(Filler)' BY <1>2, <1>6, <1>7 DEF StagedLinksOK, RegistryOK
  <2>2. ASSUME NEW l \in tx[Filler].links PROVE \E v \in versions' : l \in LinksOfRecord(v)
    BY <1>2, <1>3, <2>2, Continued DEF StagedLinksOK
  <2> QED BY <1>2, <1>6, <1>7, <2>1, <2>2 DEF StagedLinksOK
<1>11. ASSUME NEW v \in versions' PROVE LinkedOrOld(v)'
  <2>1. v.doc \in Docs BY DEF StoreType, Row
  <2>2. CASE Complete(v)'
    <3>1. LinksAt(v)' = LinksOfRecord(v) BY <2>1, <2>2, CompleteLinked DEF Complete
    <3> QED BY <3>1 DEF LinkedOrOld, LinksOf, LinksAt
  <2>3. CASE ~Complete(v)'
    <3>1. PICK u \in versions : Continues(u, v) /\ LinksAt(v)' = LinksAt(u)
      BY <2>3 DEF LinksGo
    <3>2. LinksOf(v)' = LinksOf(u) /\ LinksOfRecord(v) = LinksOfRecord(u) /\ v.run = u.run
      BY <3>1, Continued DEF LinksOf, LinksAt, Continues
    <3>3. LinkedOrOld(u) BY <1>2
    <3>4. CASE LinksOf(u) = LinksOfRecord(u) BY <3>2, <3>4 DEF LinkedOrOld
    <3>5. CASE LinksOf(u) # LinksOfRecord(u)
      <4>1. /\ ~backfilled /\ u.run = OldRun /\ LinksOf(u) = {}
            /\ filling /\ pc[Filler] # "failing" => InHand(u)
        BY <3>3, <3>5 DEF LinkedOrOld
      <4>2. \A n : NamesStaged(u, n) => NamesStaged(v, n)'
        BY <1>7, <3>1, <4>1, Continued DEF NamesStaged
      <4>3. InHand(u) => InHand(v)'
        BY <1>1, <1>7, <1>8, <3>1, <3>2, <4>1, <4>2, Continued DEF InHand
      <4> QED BY <1>1, <3>2, <4>1, <4>3 DEF LinkedOrOld
    <3> QED BY <3>4, <3>5
  <2> QED BY <2>2, <2>3
<1> QED BY <1>4, <1>5, <1>9, <1>10, <1>11

\* An ingester moves itself only.
Alone(p) ==
  /\ pc' = [pc EXCEPT ![p] = pc'[p]]
  /\ job' = [job EXCEPT ![p] = job'[p]]
  /\ tx' = [tx EXCEPT ![p] = tx'[p]]

LEMMA WorksAlone ==
  ASSUME LocalTyped, NEW p \in Ingesters, Acts(p)
  PROVE  Alone(p)
<1> USE DEF LocalTyped, Alone
<1>1. \A s : Goto(p, s) => pc' = [pc EXCEPT ![p] = pc'[p]] BY DEF Goto
<1>2. /\ UNCHANGED pc => pc' = [pc EXCEPT ![p] = pc'[p]]
      /\ UNCHANGED job => job' = [job EXCEPT ![p] = job'[p]]
      /\ UNCHANGED tx => tx' = [tx EXCEPT ![p] = tx'[p]]
  OBVIOUS
<1>3. /\ \A x : job' = [job EXCEPT ![p] = x] => job' = [job EXCEPT ![p] = job'[p]]
      /\ \A x : tx' = [tx EXCEPT ![p] = x] => tx' = [tx EXCEPT ![p] = tx'[p]]
  OBVIOUS
<1>4. Fail(p) \/ (Leave(p)) => Alone(p) BY <1>1, <1>2, <1>3 DEF Fail, Leave
<1>5. FinishRecord(p) => /\ pc' = [pc EXCEPT ![p] = pc'[p]]
                         /\ job' = [job EXCEPT ![p] = job'[p]]
  BY <1>1 DEF FinishRecord
<1>6. \A j : NextName(p, j) => /\ pc' = [pc EXCEPT ![p] = pc'[p]]
                               /\ job' = [job EXCEPT ![p] = job'[p]]
  BY <1>1, <1>5 DEF NextName
<1>7. AddLink(p) => Alone(p) BY <1>6 DEF AddLink
<1>8. StartRun(p) \/ StartUnacknowledged(p) \/ RecordFetchFailure(p) \/ PutRaw(p)
        \/ SeekArtifact(p) \/ SaveArtifact(p) \/ Parse(p) \/ SeekRecord(p) => Alone(p)
  BY <1>1, <1>2, <1>3
     DEF StartRun, StartUnacknowledged, RecordFetchFailure, PutRaw, SeekArtifact, SaveArtifact, Parse, SeekRecord
<1>9. KeepVersion(p) \/ SupersedeVersion(p) => Alone(p)
  BY <1>1, <1>2, <1>5 DEF KeepVersion, SupersedeVersion
<1>10. WriteVersion(p) => Alone(p) BY <1>6 DEF WriteVersion
<1>11. SeekOrg(p) \/ AddOrg(p) \/ SeekAlias(p) \/ AddAlias(p) => Alone(p)
  BY <1>1, <1>2, <1>7 DEF SeekOrg, AddOrg, SeekAlias, AddAlias
<1>12. CommitRun(p) \/ CommitUnacknowledged(p) \/ MarkFailed(p) \/ MarkFails(p) \/ Crash(p)
         => Alone(p)
  BY <1>1, <1>2, <1>3, <1>4 DEF CommitRun, CommitUnacknowledged, MarkFailed, MarkFails, Crash
<1>13. PutRawFails(p) \/ StatementFails(p) \/ ArtifactCollides(p) \/ ParseFails(p)
         \/ RefuseVersion(p) \/ RejectWrite(p) \/ RefuseName(p) \/ OrgCollides(p)
         \/ AliasCollides(p) \/ AbortDeadlock(p) => Alone(p)
  BY <1>4 DEF PutRawFails, StatementFails, ArtifactCollides, ParseFails, RefuseVersion,
     RejectWrite, RefuseName, OrgCollides, AliasCollides, AbortDeadlock
<1> QED BY <1>8, <1>9, <1>10, <1>11, <1>12, <1>13 DEF Acts, Begin, Work, Fault

LEMMA IngesterStep ==
  ASSUME FillInv, NEW p \in Ingesters, Present(p), UNCHANGED fill, Acts(p)
  PROVE  FillInv'
<1>1. LocalTyped /\ Others!LinkInv /\ UNCHANGED <<filling, todo, backfilled>>
      /\ filling \in BOOLEAN /\ backfilled \in BOOLEAN /\ todo \subseteq Row
  BY DEF FillInv, fill
<1>2. Others!Next
  <2>1. Others!Begin(p) \/ Others!Work(p) \/ Others!Fault(p) \/ Others!Crash(p)
    BY <1>1, OthersWork
  <2> QED BY <2>1 DEF Others!Next, Others!Live
<1>3. Others!LinkInv' /\ LinksGo BY <1>1, <1>2, Others!LinkStep, OthersAssumption, OthersGo
<1>4. StoreType' BY <1>3, StoreTypedNext
<1>5. Alone(p) BY <1>1, WorksAlone
<1>6. LocalTyped'
  <2>1. Others!LocalType'
    <3>1. Others!TypeOK' BY <1>3 DEF Others!LinkInv, Others!RawInv, Others!LineageInv, Others!TypeInv
    <3> QED BY <3>1, Others!SplitType, OthersAssumption
  <2>2. OthersPc'[p] = pc'[p] /\ OthersJob'[p] = job'[p] /\ OthersTx'[p] = tx'[p]
    BY <1>1 DEF Present, OthersPc, OthersJob, OthersTx
  <2>3. pc'[p] \in Steps /\ job'[p] \in Job /\ tx'[p] \in Transaction
    BY <2>1, <2>2 DEF Others!LocalType, Others!Steps, Steps, Others!Job, Job, Others!Times, Times,
       Others!Transaction, Transaction, Others!Write, Write, Others!Row, Row, Others!Link, Link
  <2> QED BY <1>1, <1>5, <2>3 DEF LocalTyped, Alone
<1>7. ~backfilled => /\ pc'[Filler] = pc[Filler] /\ job'[Filler] = job[Filler]
                     /\ tx'[Filler] = tx[Filler]
  BY <1>1, <1>5, BackfillAssumption DEF Alone, Present, LocalTyped
<1> QED BY <1>1, <1>3, <1>4, <1>6, <1>7, FillerStands DEF FillInv

LEMMA IdleStep == FillInv /\ (Tick \/ UNCHANGED vars) /\ UNCHANGED fill => FillInv'
<1> SUFFICES ASSUME FillInv, Tick \/ UNCHANGED vars, UNCHANGED fill PROVE FillInv' OBVIOUS
<1>1. /\ UNCHANGED <<store, objects, pc, job, tx, filling, todo, backfilled>>
      /\ UNCHANGED <<runs, artifacts, current, versions, orgs, aliases, links>>
  BY DEF Tick, vars, store, catalog, fill
<1>2. UNCHANGED <<OthersPc, OthersJob, OthersTx>> BY <1>1 DEF OthersPc, OthersJob, OthersTx
<1>3. UNCHANGED Others!store BY <1>1 DEF Others!store, Others!catalog
<1>4. [Others!Next]_(Others!vars)
  BY <1>1, <1>2, <1>3 DEF Tick, vars, Others!Tick, Others!Next, Others!Live, Others!vars
<1>5. Others!LinkInv' /\ LinksGo BY <1>4, Others!LinkStep, OthersAssumption, OthersGo DEF FillInv
<1>6. StoreType' BY <1>5, StoreTypedNext
<1> QED BY <1>1, <1>5, <1>6, FillerStands DEF FillInv, LocalTyped

-----------------------------------------------------------------------------
(* Init at work. *)

\* The others see nothing of init until it commits.
LEMMA FillerStep ==
  ASSUME FillInv, LocalTyped', ~backfilled, Alone(Filler),
         UNCHANGED <<store, objects, clock, backfilled>>,
         filling' \in BOOLEAN, todo' \subseteq Row,
         \A u \in todo' : \E v \in versions : Continues(u, v),
         FillerOK', AtName', StagedLinksOK',
         filling' /\ pc'[Filler] # "failing" =>
           \A v \in versions : (filling /\ pc[Filler] # "failing" => InHand(v)) => InHand(v)'
  PROVE  FillInv'
<1>1. UNCHANGED <<runs, artifacts, current, versions, orgs, aliases, links>>
  BY DEF store, catalog
<1>2. LocalTyped /\ Others!LinkInv /\ \A v \in versions : LinkedOrOld(v) BY DEF FillInv
<1>3. UNCHANGED <<OthersPc, OthersJob, OthersTx>>
  BY <1>2 DEF Alone, LocalTyped, OthersPc, OthersJob, OthersTx
<1>4. UNCHANGED Others!vars BY <1>1, <1>3 DEF Others!vars, Others!store, Others!catalog
<1>5. Others!LinkInv' BY <1>2, <1>4, Others!LinkStep, OthersAssumption
<1>6. ASSUME NEW v \in versions' PROVE LinkedOrOld(v)'
  <2>1. LinksOf(v)' = LinksOf(v) /\ LinkedOrOld(v) BY <1>1, <1>2 DEF LinksOf
  <2> QED BY <1>1, <2>1 DEF LinkedOrOld
<1>7. todo' \subseteq Row /\ \A u \in todo' : \E v \in versions' : Continues(u, v) BY <1>1
<1>8. backfilled' \in BOOLEAN BY DEF FillInv
<1> QED BY <1>5, <1>6, <1>7, <1>8 DEF FillInv

LEMMA IdleTyped == IdleJob \in Job /\ EmptyTx \in Transaction
BY IngestionAssumption DEF IdleJob, Job, EmptyTx, Transaction, Times

LEMMA FillerReads == FillInv /\ ReadVersions => FillInv'
<1> SUFFICES ASSUME FillInv, ReadVersions PROVE FillInv' OBVIOUS
<1>1. /\ ~backfilled /\ pc' = [pc EXCEPT ![Filler] = "seekRecord"] /\ filling' /\ todo' = versions
      /\ UNCHANGED <<store, objects, clock, job, tx, backfilled>>
  BY DEF ReadVersions, Goto
<1>2. LocalTyped /\ FillerOK /\ Others!LinkInv /\ pc[Filler] = "idle" BY DEF FillInv, ReadVersions
<1>3. LocalTyped' /\ Alone(Filler) /\ pc'[Filler] = "seekRecord"
  BY <1>1, <1>2, BackfillAssumption DEF LocalTyped, Alone, Steps
<1>4. ~filling /\ tx[Filler] = EmptyTx BY <1>1, <1>2, <1>3 DEF FillerOK, NameSteps
<1>5. FillerOK' /\ AtName' /\ StagedLinksOK'
  BY <1>1, <1>3, <1>4 DEF FillerOK, AtName, StagedLinksOK, RegistryOK, EmptyTx, NameSteps
<1>6. versions \subseteq Row BY <1>2, StoreTyped DEF StoreType
<1>7. \A v : Continues(v, v) BY DEF Continues
<1>8. \A v \in versions : InHand(v)' BY <1>1, <1>7 DEF InHand
<1>9. filling' \in BOOLEAN BY DEF ReadVersions
<1> QED BY <1>1, <1>3, <1>5, <1>6, <1>7, <1>8, <1>9, FillerStep

LEMMA FillerFails == FillInv /\ filling /\ Fail(Filler) /\ UNCHANGED fill => FillInv'
<1> SUFFICES ASSUME FillInv, filling, Fail(Filler), UNCHANGED fill PROVE FillInv' OBVIOUS
<1>1. /\ pc' = [pc EXCEPT ![Filler] = "failing"] /\ tx' = [tx EXCEPT ![Filler] = EmptyTx]
      /\ UNCHANGED <<store, objects, clock, job, filling, todo, backfilled>>
  BY DEF Fail, Goto, fill
<1>2. LocalTyped /\ FillerOK /\ ~backfilled BY DEF FillInv, FillerOK
<1>3. /\ LocalTyped' /\ Alone(Filler)
      /\ pc'[Filler] = "failing" /\ tx'[Filler] = EmptyTx
  BY <1>1, <1>2, IdleTyped, BackfillAssumption DEF LocalTyped, Alone, Steps
<1>4. FillerOK' /\ AtName' /\ StagedLinksOK'
  BY <1>1, <1>2, <1>3 DEF FillerOK, AtName, StagedLinksOK, RegistryOK, EmptyTx, NameSteps
<1> QED BY <1>1, <1>2, <1>3, <1>4, FillerStep DEF FillInv

LEMMA FillerGivesUp == FillInv /\ FailBackfill => FillInv'
<1> SUFFICES ASSUME FillInv, FailBackfill PROVE FillInv' OBVIOUS
<1>1. /\ pc' = [pc EXCEPT ![Filler] = "idle"] /\ job' = [job EXCEPT ![Filler] = IdleJob]
      /\ tx' = [tx EXCEPT ![Filler] = EmptyTx]
      /\ filling /\ filling' = FALSE /\ todo' = {}
      /\ UNCHANGED <<store, objects, clock, backfilled>>
  BY DEF FailBackfill, Leave, Goto
<1>2. LocalTyped /\ FillerOK /\ ~backfilled BY <1>1 DEF FillInv, FillerOK
<1>3. /\ LocalTyped' /\ Alone(Filler)
      /\ pc'[Filler] = "idle" /\ tx'[Filler] = EmptyTx
  BY <1>1, <1>2, IdleTyped, BackfillAssumption DEF LocalTyped, Alone, Steps
<1>4. FillerOK' /\ AtName' /\ StagedLinksOK'
  BY <1>1, <1>2, <1>3 DEF FillerOK, AtName, StagedLinksOK
<1> QED BY <1>1, <1>2, <1>3, <1>4, FillerStep DEF FillInv

LEMMA FillerSyncs == FillInv /\ (\E v \in todo : SyncVersion(v)) => FillInv'
<1> SUFFICES ASSUME FillInv, NEW v \in todo, SyncVersion(v) PROVE FillInv' OBVIOUS
<1>1. PICK i \in DOMAIN RecordsOf[v.doc] :
        /\ RecordsOf[v.doc][i].key = v.key
        /\ IF RecordsOf[v.doc][i].names = <<>> THEN UNCHANGED <<pc, job>>
           ELSE /\ job' = [job EXCEPT ![Filler] = [IdleJob EXCEPT !.doc = v.doc, !.i = i,
                                                                 !.seen = v.version - 1]]
                /\ Goto(Filler, "seekOrg")
  BY DEF SyncVersion
<1>2. /\ filling /\ pc[Filler] \in {"seekRecord", "commit"} /\ pc[Filler] \notin NameSteps
      /\ todo' = todo \ {v}
      /\ UNCHANGED <<store, objects, clock, tx, filling, backfilled>>
  BY DEF SyncVersion, Between, NameSteps
<1>3. /\ LocalTyped /\ FillerOK /\ ~backfilled /\ StagedLinksOK /\ Others!LinkInv
      /\ todo \subseteq Row /\ \A u \in todo : \E w \in versions : Continues(u, w)
      /\ filling \in BOOLEAN
  BY <1>2 DEF FillInv, FillerOK
<1>4. PICK w0 \in versions : Continues(v, w0) BY <1>3
<1>5. v.doc \in Docs /\ v.version \in Nat \ {0}
  <2>1. Lineage /\ StoreType BY <1>3, StoreTyped
  <2>2. w0.version \in 1..current[w0.key] /\ current[w0.key] \in Nat
    BY <2>1 DEF StoreType, Lineage, RowsOf, Row
  <2> QED BY <1>3, <1>4, <2>2 DEF Row, Continues
<1>6. PICK rec : rec = RecordsOf[v.doc][i] OBVIOUS
<1>7. rec.names \in Seq(Aliases) /\ i \in Nat
  <2>1. RecordsOf[v.doc] \in Seq(Record) BY <1>5, IngestionAssumption
  <2>2. rec \in Record /\ i \in Nat BY <1>6, <2>1
  <2> QED BY <2>2 DEF Record
\* The other versions are still to be read, or staged.
<1>8. ASSUME NEW w \in versions, InHand(w), ~Continues(v, w)
      PROVE  (\E u \in todo' : Continues(u, w)) \/ LinksOfRecord(w) \subseteq tx'[Filler].links
  BY <1>2, <1>8 DEF InHand
<1>9. \A w : Continues(v, w) =>
        LinksOfRecord(w) = {LinkTo(v, rec, j) : j \in DOMAIN rec.names}
  BY <1>1, <1>5, <1>6, LinksOfOne, Continued
<1>10. \A l \in tx[Filler].links :
         l.alias \in SeenAliases(Filler) /\ \E w \in versions : l \in LinksOfRecord(w)
  BY <1>2, <1>3 DEF StagedLinksOK
<1>11. SeenAliases(Filler)' = SeenAliases(Filler) /\ SeenOrgs(Filler)' = SeenOrgs(Filler)
  BY <1>2 DEF SeenAliases, SeenOrgs, store, catalog
<1>12. UNCHANGED versions /\ \A u \in todo' : u \in todo BY <1>2 DEF store
<1>13. CASE rec.names = <<>>
  <2>1. UNCHANGED <<pc, job>> BY <1>1, <1>6, <1>13
  <2>2. LocalTyped' /\ Alone(Filler) BY <1>2, <1>3, <2>1 DEF LocalTyped, Alone
  <2>3. FillerOK' /\ AtName' BY <1>2, <1>3, <2>1 DEF FillerOK, AtName
  <2>4. StagedLinksOK'
    BY <1>2, <1>3, <1>10, <1>11, <1>12, <2>1 DEF StagedLinksOK, RegistryOK, NameSteps
  <2>5. \A w \in versions : InHand(w) => InHand(w)'
    <3> SUFFICES ASSUME NEW w \in versions, InHand(w) PROVE InHand(w)' OBVIOUS
    <3>1. CASE Continues(v, w)
      <4>1. LinksOfRecord(w) = {} BY <1>9, <1>13, <3>1
      <4> QED BY <4>1 DEF InHand
    <3> QED BY <1>8, <3>1 DEF InHand
  <2> QED BY <1>2, <1>3, <1>12, <2>1, <2>2, <2>3, <2>4, <2>5, FillerStep
<1>14. CASE rec.names # <<>>
  <2>1. PICK x : x = [IdleJob EXCEPT !.doc = v.doc, !.i = i, !.seen = v.version - 1] OBVIOUS
  <2>2. job' = [job EXCEPT ![Filler] = x] /\ pc' = [pc EXCEPT ![Filler] = "seekOrg"]
    BY <1>1, <1>6, <1>14, <2>1 DEF Goto
  <2>3. x \in Job /\ x.doc = v.doc /\ x.i = i /\ x.j = 1 /\ x.seen + 1 = v.version
    <3>1. v.version - 1 \in Nat /\ (v.version - 1) + 1 = v.version BY <1>5
    <3>2. x \in Job BY <1>5, <1>7, <2>1, <3>1, IdleTyped DEF Job
    <3>3. x.doc = v.doc /\ x.i = i /\ x.j = 1 /\ x.seen = v.version - 1 BY <2>1 DEF IdleJob
    <3> QED BY <3>1, <3>2, <3>3
  <2>4. /\ LocalTyped' /\ Alone(Filler) /\ pc'[Filler] = "seekOrg" /\ job'[Filler] = x
    BY <1>2, <1>3, <2>2, <2>3, BackfillAssumption DEF LocalTyped, Alone, Steps
  <2>5. Records(Filler)' = RecordsOf[v.doc] /\ Rec(Filler)' = rec
    BY <1>6, <2>3, <2>4 DEF Records, Rec
  <2>6. \A w : Continues(v, w) => IsAt(w)' BY <1>1, <1>6, <2>3, <2>4, <2>5 DEF Continues, IsAt
  <2>7. FillerOK' BY <1>2, <1>3, <2>4 DEF FillerOK, NameSteps
  <2>8. AtName'
    <3>1. 1 \in DOMAIN rec.names BY <1>7, <1>14
    <3> QED BY <1>4, <1>5, <1>12, <2>3, <2>4, <2>5, <2>6, <3>1 DEF AtName
  <2>9. StagedLinksOK'
    BY <1>2, <1>3, <1>10, <1>11, <1>12, <2>4 DEF StagedLinksOK, RegistryOK
  <2>10. ASSUME NEW w \in versions, InHand(w) PROVE InHand(w)'
    <3>1. CASE Continues(v, w)
      <4>1. NamesStaged(w, job[Filler].j - 1)' BY <2>3, <2>4 DEF NamesStaged
      <4> QED BY <2>4, <2>6, <3>1, <4>1 DEF InHand, NameSteps
    <3> QED BY <1>8, <2>10, <3>1 DEF InHand
  <2> QED BY <1>2, <1>3, <1>12, <2>4, <2>7, <2>8, <2>9, <2>10, FillerStep
<1> QED BY <1>13, <1>14

\* The record and the name init is at.
LEMMA FillerName ==
  ASSUME FillInv, filling, pc[Filler] \in NameSteps
  PROVE  /\ job[Filler] \in Job /\ tx[Filler] \in Transaction
         /\ job[Filler].doc \in Docs
         /\ Records(Filler) \in Seq(Record) /\ Rec(Filler) \in Record
         /\ job[Filler].i \in DOMAIN Records(Filler)
         /\ job[Filler].j \in 1..Len(Rec(Filler).names) /\ Len(Rec(Filler).names) \in Nat
         /\ Rec(Filler).names \in Seq(Aliases) /\ Name(Filler) \in Aliases
         /\ OrgOf[Name(Filler)] \in Orgs \cup {NoOrg}
<1>1. LocalTyped /\ AtName BY DEF FillInv
<1>2. /\ job[Filler].doc \in Docs /\ job[Filler].i \in DOMAIN Records(Filler)
      /\ job[Filler].j \in DOMAIN Rec(Filler).names
  BY <1>1 DEF AtName
<1>3. Records(Filler) \in Seq(Record) BY <1>2, IngestionAssumption DEF Records
<1>4. Rec(Filler) \in Record BY <1>2, <1>3 DEF Rec
<1>5. Rec(Filler).names \in Seq(Aliases) BY <1>4 DEF Record
<1>6. Name(Filler) \in Aliases BY <1>2, <1>5 DEF Name
<1>7. OrgOf[Name(Filler)] \in Orgs \cup {NoOrg} BY <1>6, IngestionAssumption
<1>8. job[Filler] \in Job /\ tx[Filler] \in Transaction
  BY <1>1, BackfillAssumption DEF LocalTyped
<1> QED BY <1>2, <1>3, <1>4, <1>5, <1>6, <1>7, <1>8

\* A step at a name that stages no link.
LEMMA FillerOrg ==
  ASSUME FillInv, LocalTyped', filling, pc[Filler] \in NameSteps, Alone(Filler),
         UNCHANGED <<store, objects, clock, job, fill>>,
         pc'[Filler] \in NameSteps \ {"seekOrg"}, OrgOf[Name(Filler)] # NoOrg,
         tx'[Filler].writes = tx[Filler].writes, tx'[Filler].aliases = tx[Filler].aliases,
         tx'[Filler].links = tx[Filler].links, tx[Filler].orgs \subseteq tx'[Filler].orgs,
         pc'[Filler] \in {"seekAlias", "addAlias"} => OrgOf[Name(Filler)] \in SeenOrgs(Filler)'
  PROVE  FillInv'
<1>1. /\ FillerOK /\ ~backfilled /\ AtName /\ StagedLinksOK /\ todo \subseteq Row
      /\ filling \in BOOLEAN /\ \A u \in todo : \E w \in versions : Continues(u, w)
  BY DEF FillInv, FillerOK
<1>2. UNCHANGED <<filling, todo, backfilled, versions, orgs, aliases>> BY DEF fill, store, catalog
<1>3. /\ Records(Filler)' = Records(Filler) /\ Rec(Filler)' = Rec(Filler)
      /\ Name(Filler)' = Name(Filler) /\ SeenAliases(Filler)' = SeenAliases(Filler)
      /\ SeenOrgs(Filler) \subseteq SeenOrgs(Filler)'
      /\ \A v : IsAt(v)' <=> IsAt(v)
  BY <1>2 DEF Records, Rec, Name, SeenAliases, SeenOrgs, IsAt
<1>4. FillerOK' BY <1>1, <1>2 DEF FillerOK
<1>5. AtName' BY <1>1, <1>2, <1>3 DEF AtName
<1>6. StagedLinksOK' BY <1>1, <1>2, <1>3 DEF StagedLinksOK, RegistryOK
<1>7. ASSUME NEW v \in versions, InHand(v) PROVE InHand(v)'
  <2>1. NamesStaged(v, job[Filler].j - 1) => NamesStaged(v, job[Filler].j - 1)'
    BY <1>3 DEF NamesStaged
  <2> QED BY <1>2, <1>3, <1>7, <2>1 DEF InHand
<1>8. pc[Filler] # "failing" BY DEF NameSteps
<1> QED BY <1>1, <1>2, <1>4, <1>5, <1>6, <1>7, <1>8, FillerStep

LEMMA JobAdvances ==
  ASSUME NEW b \in Job, NEW n \in Nat
  PROVE  [b EXCEPT !.i = n + 1] \in Job /\ [b EXCEPT !.j = n + 1] \in Job
BY DEF Job

LEMMA FillerLinks ==
  ASSUME FillInv, filling, pc[Filler] \in {"seekAlias", "addAlias"}, AddLink(Filler),
         UNCHANGED <<store, objects, clock, fill>>
  PROVE  FillInv'
<1>0. pc[Filler] \in NameSteps /\ pc[Filler] # "failing" BY DEF NameSteps
<1>1. /\ FillerOK /\ ~backfilled /\ AtName /\ StagedLinksOK /\ LocalTyped /\ todo \subseteq Row
      /\ filling \in BOOLEAN /\ \A u \in todo : \E w \in versions : Continues(u, w)
  BY DEF FillInv, FillerOK
<1>2. UNCHANGED <<filling, todo, backfilled, versions, orgs, aliases>> BY DEF fill, store, catalog
<1>a. PICK rec : rec = Rec(Filler) OBVIOUS
<1>b. PICK i : i = job[Filler].i OBVIOUS
<1>c. PICK j : j = job[Filler].j OBVIOUS
<1>d. PICK l0 : l0 = [key |-> rec.key, version |-> job[Filler].seen + 1, ordinal |-> j,
                      alias |-> Name(Filler)]
  OBVIOUS
<1>3. /\ job[Filler] \in Job /\ tx[Filler] \in Transaction /\ job[Filler].doc \in Docs
      /\ rec = RecordsOf[job[Filler].doc][i] /\ rec.key \in Keys
      /\ i \in DOMAIN RecordsOf[job[Filler].doc] /\ i \in Nat
      /\ j \in Nat /\ j \in 1..Len(rec.names) /\ Len(rec.names) \in Nat
      /\ DOMAIN rec.names = 1..Len(rec.names) /\ Name(Filler) = rec.names[j]
      /\ Name(Filler) \in Aliases
  <2>1. /\ job[Filler] \in Job /\ tx[Filler] \in Transaction /\ job[Filler].doc \in Docs
        /\ Rec(Filler) \in Record /\ i \in DOMAIN Records(Filler)
        /\ j \in 1..Len(Rec(Filler).names) /\ Len(Rec(Filler).names) \in Nat
        /\ Rec(Filler).names \in Seq(Aliases) /\ Name(Filler) \in Aliases
    BY <1>0, <1>b, <1>c, FillerName
  <2>2. rec = RecordsOf[job[Filler].doc][i] /\ i \in DOMAIN RecordsOf[job[Filler].doc]
    BY <2>1, <1>a, <1>b DEF Rec, Records
  <2>3. rec.key \in Keys BY <2>1, <1>a DEF Record
  <2>4. i \in Nat BY <2>1, <1>b DEF Job
  <2>5. j \in Nat /\ DOMAIN rec.names = 1..Len(rec.names) BY <2>1, <1>a
  <2>6. Name(Filler) = rec.names[j] BY <1>a, <1>c DEF Name
  <2> QED BY <2>1, <2>2, <2>3, <2>4, <2>5, <2>6, <1>a
<1>4. l0 \in Link BY <1>3, <1>d DEF Link, Job
<1>5. /\ tx' = [tx EXCEPT ![Filler] = tx'[Filler]] /\ tx'[Filler] \in Transaction
      /\ tx'[Filler].writes = tx[Filler].writes /\ tx'[Filler].orgs = tx[Filler].orgs
      /\ tx'[Filler].links = tx[Filler].links \cup {l0}
      /\ tx'[Filler].aliases = IF Name(Filler) \in aliases THEN tx[Filler].aliases
                               ELSE tx[Filler].aliases \cup {Name(Filler)}
  BY <1>1, <1>3, <1>4, <1>a, <1>c, <1>d, BackfillAssumption DEF AddLink, LocalTyped, Transaction
\* Init goes on to the next name, or is done with the version.
<1>6. /\ job' = [job EXCEPT ![Filler] = job'[Filler]] /\ job'[Filler] \in Job
      /\ pc' = [pc EXCEPT ![Filler] = pc'[Filler]]
      /\ \/ /\ pc'[Filler] = "seekOrg" /\ job'[Filler] = [job[Filler] EXCEPT !.j = j + 1]
            /\ j # Len(rec.names)
         \/ pc'[Filler] \in {"seekRecord", "commit"} /\ j = Len(rec.names)
  <2>1. CASE j = Len(rec.names)
    <3>1. FinishRecord(Filler) BY <2>1, <1>a, <1>c DEF AddLink, NextName
    <3>2. job' = [job EXCEPT ![Filler] = [job[Filler] EXCEPT !.i = i + 1]]
      BY <1>1, <1>b, <3>1, BackfillAssumption DEF FinishRecord, LocalTyped
    <3>3. [job[Filler] EXCEPT !.i = i + 1] \in Job BY <1>3, JobAdvances
    <3> QED BY <1>1, <2>1, <3>1, <3>2, <3>3, BackfillAssumption
        DEF FinishRecord, Goto, AfterRecords, LocalTyped
  <2>2. CASE j # Len(rec.names)
    <3>1. /\ job' = [job EXCEPT ![Filler] = [job[Filler] EXCEPT !.j = j + 1]]
          /\ pc' = [pc EXCEPT ![Filler] = "seekOrg"]
      BY <1>1, <1>a, <1>c, <2>2, BackfillAssumption DEF AddLink, NextName, Goto, LocalTyped
    <3>2. [job[Filler] EXCEPT !.j = j + 1] \in Job BY <1>3, JobAdvances
    <3> QED BY <1>1, <2>2, <3>1, <3>2, BackfillAssumption DEF LocalTyped
  <2> QED BY <2>1, <2>2
<1>7. LocalTyped' /\ Alone(Filler)
  BY <1>1, <1>5, <1>6, BackfillAssumption DEF LocalTyped, Alone, Steps
<1>8. /\ SeenAliases(Filler) \subseteq SeenAliases(Filler)' /\ Name(Filler) \in SeenAliases(Filler)'
      /\ SeenOrgs(Filler)' = SeenOrgs(Filler)
  BY <1>2, <1>5 DEF SeenAliases, SeenOrgs
<1>9. FillerOK' BY <1>0, <1>1, <1>2, <1>5, <1>6 DEF FillerOK, NameSteps
\* The link is of the version at hand.
<1>10. ASSUME NEW v, IsAt(v)
       PROVE  /\ l0 = LinkTo(v, rec, j)
              /\ LinksOfRecord(v) = {LinkTo(v, rec, n) : n \in 1..Len(rec.names)}
  <2>1. v.doc = job[Filler].doc /\ v.key = rec.key /\ v.version = job[Filler].seen + 1
    BY <1>10, <1>a DEF IsAt
  <2>2. l0 = LinkTo(v, rec, j) BY <1>3, <1>d, <2>1 DEF LinkTo
  <2>3. v.doc \in Docs /\ i \in DOMAIN RecordsOf[v.doc] /\ RecordsOf[v.doc][i] = rec
    BY <1>3, <2>1
  <2>4. LinksOfRecord(v) = {LinkTo(v, rec, n) : n \in DOMAIN rec.names}
    BY <2>1, <2>3, LinksOfOne
  <2> QED BY <1>3, <2>2, <2>4
<1>11. AtName'
  <2> SUFFICES ASSUME pc'[Filler] \in NameSteps PROVE AtName' BY DEF AtName
  <2>1. pc'[Filler] = "seekOrg" /\ job'[Filler] = [job[Filler] EXCEPT !.j = j + 1]
        /\ j # Len(rec.names)
    BY <1>6 DEF NameSteps
  <2>2. /\ job'[Filler].doc = job[Filler].doc /\ job'[Filler].i = i /\ job'[Filler].j = j + 1
        /\ job'[Filler].seen = job[Filler].seen
    BY <1>3, <1>b, <2>1 DEF Job
  <2>3. Records(Filler)' = Records(Filler) /\ Rec(Filler)' = Rec(Filler) /\ \A v : IsAt(v)' <=> IsAt(v)
    BY <1>b, <2>2 DEF Records, Rec, IsAt
  <2>4. j + 1 \in DOMAIN rec.names BY <1>3, <2>1
  <2> QED BY <1>0, <1>1, <1>2, <1>a, <1>b, <2>1, <2>2, <2>3, <2>4 DEF AtName
<1>12. StagedLinksOK'
  <2>1. RegistryOK(Filler)'
    BY <1>1, <1>2, <1>5, <1>6, <1>8 DEF StagedLinksOK, RegistryOK
  <2>2. PICK v \in versions : IsAt(v) BY <1>0, <1>1 DEF AtName
  <2>3. l0 \in LinksOfRecord(v) BY <1>3, <1>10, <2>2
  <2>4. l0.alias \in SeenAliases(Filler)' BY <1>8, <1>d
  <2>5. \A l \in tx[Filler].links :
          l.alias \in SeenAliases(Filler) /\ \E w \in versions : l \in LinksOfRecord(w)
    BY <1>1 DEF StagedLinksOK
  <2> QED BY <1>2, <1>5, <1>8, <2>1, <2>2, <2>3, <2>4, <2>5 DEF StagedLinksOK
<1>13. ASSUME NEW v \in versions, InHand(v) PROVE InHand(v)'
  <2>1. CASE IsAt(v) /\ NamesStaged(v, j - 1)
    <3>1. \A n \in 1..j : LinkTo(v, rec, n) \in tx'[Filler].links
      <4>1. \A n \in 1..(j - 1) : LinkTo(v, rec, n) \in tx[Filler].links
        BY <2>1, <1>a DEF NamesStaged
      <4>2. \A n \in 1..j : n = j \/ n \in 1..(j - 1) BY <1>3
      <4> QED BY <1>5, <1>10, <2>1, <4>1, <4>2
    <3>2. CASE j = Len(rec.names)
      <4>1. LinksOfRecord(v) \subseteq tx'[Filler].links BY <1>10, <2>1, <3>1, <3>2
      <4> QED BY <4>1 DEF InHand
    <3>3. CASE j # Len(rec.names)
      <4>1. /\ pc'[Filler] = "seekOrg" /\ job'[Filler].doc = job[Filler].doc
            /\ job'[Filler].i = i /\ job'[Filler].j = j + 1
            /\ job'[Filler].seen = job[Filler].seen
        BY <1>3, <1>6, <1>b, <3>3 DEF Job
      <4>2. Rec(Filler)' = rec /\ (IsAt(v)' <=> IsAt(v)) BY <1>a, <1>b, <4>1 DEF Rec, Records, IsAt
      <4>3. job'[Filler].j - 1 = j BY <1>3, <4>1
      <4>4. NamesStaged(v, job[Filler].j - 1)' BY <3>1, <4>2, <4>3 DEF NamesStaged
      <4> QED BY <2>1, <4>1, <4>2, <4>4 DEF InHand, NameSteps
    <3> QED BY <3>2, <3>3
  <2>2. CASE LinksOfRecord(v) \subseteq tx[Filler].links BY <1>5, <2>2 DEF InHand
  <2>3. CASE \E u \in todo : Continues(u, v) BY <1>2, <2>3 DEF InHand
  <2> QED BY <1>13, <1>c, <2>1, <2>2, <2>3 DEF InHand
<1> QED BY <1>0, <1>1, <1>2, <1>7, <1>9, <1>11, <1>12, <1>13, FillerStep

LEMMA FillerNames == FillInv /\ filling /\ SyncName(Filler) /\ UNCHANGED fill => FillInv'
<1> SUFFICES ASSUME FillInv, filling, SyncName(Filler), UNCHANGED fill PROVE FillInv' OBVIOUS
<1>1. LocalTyped /\ AtName /\ StagedLinksOK /\ FillerOK BY DEF FillInv
<1> USE BackfillAssumption DEF LocalTyped
<1>2. CASE SeekOrg(Filler)
  <2>1. /\ pc[Filler] = "seekOrg" /\ pc[Filler] \in NameSteps /\ OrgOf[Name(Filler)] # NoOrg
        /\ pc' = [pc EXCEPT ![Filler] = IF OrgOf[Name(Filler)] \in SeenOrgs(Filler)
                                        THEN "seekAlias" ELSE "addOrg"]
        /\ UNCHANGED <<store, objects, clock, job, tx>>
    BY <1>2 DEF SeekOrg, Goto, NameSteps
  <2>2. LocalTyped' /\ Alone(Filler) /\ pc'[Filler] \in {"addOrg", "seekAlias"}
    BY <1>1, <2>1 DEF Alone, Steps
  <2>3. pc'[Filler] = "seekAlias" => OrgOf[Name(Filler)] \in SeenOrgs(Filler)'
    BY <1>1, <2>1 DEF SeenOrgs, store, catalog
  <2> QED BY <2>1, <2>2, <2>3, FillerOrg DEF NameSteps
<1>3. CASE AddOrg(Filler)
  <2>1. /\ pc[Filler] = "addOrg" /\ pc[Filler] \in NameSteps
        /\ pc' = [pc EXCEPT ![Filler] = "seekAlias"]
        /\ tx' = [tx EXCEPT ![Filler].orgs = @ \cup {OrgOf[Name(Filler)]}]
        /\ UNCHANGED <<store, objects, clock, job>>
    BY <1>3 DEF AddOrg, Goto, NameSteps
  <2>2. OrgOf[Name(Filler)] \in Orgs /\ OrgOf[Name(Filler)] # NoOrg /\ tx[Filler] \in Transaction
    BY <1>1, <2>1, FillerName DEF AtName
  <2>3. tx' = [tx EXCEPT ![Filler] = [tx[Filler] EXCEPT !.orgs = @ \cup {OrgOf[Name(Filler)]}]]
    BY <1>1, <2>1
  <2>4. [tx[Filler] EXCEPT !.orgs = @ \cup {OrgOf[Name(Filler)]}] \in Transaction
    BY <2>2 DEF Transaction
  <2>5. LocalTyped' /\ Alone(Filler) /\ pc'[Filler] = "seekAlias"
    BY <1>1, <2>1, <2>3, <2>4 DEF Alone, Steps
  <2>6. /\ tx'[Filler].writes = tx[Filler].writes /\ tx'[Filler].aliases = tx[Filler].aliases
        /\ tx'[Filler].links = tx[Filler].links
        /\ tx'[Filler].orgs = tx[Filler].orgs \cup {OrgOf[Name(Filler)]}
    BY <1>1, <2>2, <2>3 DEF Transaction
  <2>7. OrgOf[Name(Filler)] \in SeenOrgs(Filler)' BY <2>6 DEF SeenOrgs
  <2> QED BY <2>1, <2>2, <2>5, <2>6, <2>7, FillerOrg DEF NameSteps
<1>4. CASE SeekAlias(Filler) /\ ~AddLink(Filler)
  <2>1. /\ pc[Filler] = "seekAlias" /\ pc[Filler] \in NameSteps /\ pc[Filler] # "seekOrg"
        /\ pc' = [pc EXCEPT ![Filler] = "addAlias"]
        /\ UNCHANGED <<store, objects, clock, job, tx>>
    BY <1>4 DEF SeekAlias, Goto, NameSteps
  <2>2. LocalTyped' /\ Alone(Filler) /\ pc'[Filler] = "addAlias"
    BY <1>1, <2>1 DEF Alone, Steps
  <2>3. OrgOf[Name(Filler)] # NoOrg BY <1>1, <2>1 DEF AtName
  <2>4. OrgOf[Name(Filler)] \in SeenOrgs(Filler)'
    BY <1>1, <2>1 DEF StagedLinksOK, RegistryOK, SeenOrgs, store, catalog
  <2> QED BY <2>1, <2>2, <2>3, <2>4, FillerOrg DEF NameSteps
<1>5. CASE (SeekAlias(Filler) \/ AddAlias(Filler)) /\ AddLink(Filler)
  BY <1>5, FillerLinks DEF SeekAlias, AddAlias
<1>6. CASE \/ RefuseName(Filler) \/ OrgCollides(Filler) \/ AliasCollides(Filler)
          \/ AbortDeadlock(Filler)
  BY <1>6, FillerFails DEF RefuseName, OrgCollides, AliasCollides, AbortDeadlock
<1>7. AddAlias(Filler) => AddLink(Filler) BY DEF AddAlias
<1> QED BY <1>2, <1>3, <1>4, <1>5, <1>6, <1>7 DEF SyncName

\* The commit: every version that had no links has all of them staged.
LEMMA FillerCommits == FillInv /\ CommitBackfill => FillInv'
<1> SUFFICES ASSUME FillInv, CommitBackfill PROVE FillInv' OBVIOUS
<1>1. /\ filling /\ pc[Filler] \in {"seekRecord", "commit"} /\ todo = {}
      /\ pc' = [pc EXCEPT ![Filler] = "idle"] /\ job' = [job EXCEPT ![Filler] = IdleJob]
      /\ tx' = [tx EXCEPT ![Filler] = EmptyTx]
      /\ filling' = FALSE /\ backfilled' = TRUE
      /\ UNCHANGED <<runs, artifacts, current, versions, objects, clock, todo>>
  BY DEF CommitBackfill, Between, Leave, Goto
<1>2. /\ orgs' = SeenOrgs(Filler) /\ aliases' = SeenAliases(Filler)
      /\ links' = links \cup tx[Filler].links
  BY DEF CommitBackfill, SeenOrgs, SeenAliases
<1>3. /\ LocalTyped /\ FillerOK /\ ~backfilled /\ StagedLinksOK /\ Others!LinkInv
      /\ \A v \in versions : LinkedOrOld(v)
  BY <1>1 DEF FillInv, FillerOK
<1>4. StoreType /\ Lineage /\ CatalogOK BY <1>3, StoreTyped
<1>5. tx[Filler] \in Transaction BY <1>3, BackfillAssumption DEF LocalTyped
<1>6. /\ orgs' \subseteq Orgs /\ aliases' \subseteq Aliases /\ links' \subseteq Link
      /\ orgs \subseteq orgs' /\ aliases \subseteq aliases'
  BY <1>2, <1>4, <1>5 DEF StoreType, Transaction, SeenOrgs, SeenAliases
<1>7. \A l \in tx[Filler].links :
        l.alias \in SeenAliases(Filler) /\ \E w \in versions : l \in LinksOfRecord(w)
  BY <1>1, <1>3 DEF StagedLinksOK
<1>8. CatalogOK'
  <2>1. \A a \in aliases' : OrgOf[a] \in orgs'
    BY <1>1, <1>2, <1>3, <1>4 DEF CatalogOK, StagedLinksOK, RegistryOK, SeenOrgs, SeenAliases
  <2>2. \A l \in links' : l.alias \in aliases' BY <1>2, <1>4, <1>7 DEF CatalogOK, SeenAliases
  <2>3. \A l \in links' : \E v \in versions : v.key = l.key /\ v.version = l.version
    BY <1>2, <1>4, <1>7, LinksOfKey DEF CatalogOK
  <2> QED BY <1>1, <2>1, <2>2, <2>3 DEF CatalogOK
<1>9. UNCHANGED <<OthersPc, OthersJob, OthersTx>>
  BY <1>1, <1>3 DEF LocalTyped, OthersPc, OthersJob, OthersTx
<1>10. Others!LinkInv'
  <2>1. Others!CatalogOK' BY <1>8 DEF CatalogOK, Others!CatalogOK
  <2>2. Others!Link = Link BY DEF Link, Others!Link
  <2> QED BY <1>1, <1>3, <1>6, <1>9, <2>1, <2>2, Others!CatalogGrows, OthersAssumption
<1>11. LocalTyped' BY <1>1, <1>3, IdleTyped DEF LocalTyped, Steps
<1>12. FillerOK' /\ AtName' /\ StagedLinksOK'
  BY <1>1 DEF FillerOK, AtName, StagedLinksOK
<1>13. ASSUME NEW v \in versions PROVE LinksOf(v)' = LinksOfRecord(v)
  <2>1. \A w \in versions : w.key = v.key /\ w.version = v.version => w = v
    BY <1>4 DEF Lineage, StoreType, RowsOf, Row
  <2>2. \A l \in tx[Filler].links :
          l.key = v.key /\ l.version = v.version => l \in LinksOfRecord(v)
    BY <1>7, <2>1, LinksOfKey
  <2>3. \/ LinksOf(v) = LinksOfRecord(v)
        \/ LinksOf(v) = {} /\ LinksOfRecord(v) \subseteq tx[Filler].links
    BY <1>1, <1>3 DEF LinkedOrOld, InHand, NameSteps
  <2>4. \A l \in LinksOfRecord(v) : l.key = v.key /\ l.version = v.version BY LinksOfKey
  <2>5. LinksOf(v)' = LinksOf(v) \cup
                     {l \in tx[Filler].links : l.key = v.key /\ l.version = v.version}
    BY <1>2 DEF LinksOf
  <2> QED BY <2>2, <2>3, <2>4, <2>5
<1>14. \A v \in versions' : LinkedOrOld(v)' BY <1>1, <1>13 DEF LinkedOrOld
<1> QED BY <1>1, <1>10, <1>11, <1>12, <1>14 DEF FillInv

-----------------------------------------------------------------------------
(* The theorems. *)

\* The store from before the registry: one version of each record of the old payload.
LEMMA OldStore ==
  ASSUME BackfillInit
  PROVE  /\ StoreType /\ Lineage /\ NoEmptyVersion /\ artifacts \subseteq objects
         /\ \A v \in versions : Traced(v) /\ v.run = OldRun
         /\ CatalogOK
<1>1. OldRun \in RunIds /\ OldDoc \in Docs BY BackfillAssumption
<1>2. RecordsOf[OldDoc] \in Seq(Record) BY <1>1, IngestionAssumption
<1>3. \A i \in DOMAIN RecordsOf[OldDoc] :
        RecordsOf[OldDoc][i].key \in Keys /\ RecordsOf[OldDoc][i].print \in Prints
  <2>1. \A i \in DOMAIN RecordsOf[OldDoc] : RecordsOf[OldDoc][i] \in Record BY <1>2
  <2> QED BY <2>1 DEF Record
<1>4. 0 \in Times BY IngestionAssumption DEF Times
<1>5. OldRows \subseteq Row BY <1>1, <1>3, <1>4 DEF OldRows, Row
<1>6. /\ versions = OldRows /\ links = {} /\ orgs = {} /\ aliases = {}
      /\ objects = {OldDoc} /\ artifacts = {OldDoc} /\ clock = 0
      /\ current = [k \in Keys |-> IF \E v \in OldRows : v.key = k THEN 1 ELSE 0]
      /\ runs = [r \in RunIds |-> IF r = OldRun THEN [status |-> "succeeded", doc |-> OldDoc]
                                  ELSE [status |-> "unused", doc |-> NoDoc]]
  BY DEF BackfillInit
<1>7. runs \in [RunIds -> Run] BY <1>1, <1>6 DEF Run
<1>8. StoreType BY <1>1, <1>4, <1>5, <1>6, <1>7 DEF StoreType
<1>9. \A v \in OldRows : v.version = 1 /\ v.to = NoTime /\ v.doc = OldDoc /\ v.run = OldRun
  BY DEF OldRows
<1>10. \A v, w \in OldRows : v.key = w.key => v = w
  BY <1>1, DistinctKeysAssumption DEF OldRows
<1>11. Lineage
  <2> SUFFICES ASSUME NEW k \in Keys
               PROVE  /\ {v.version : v \in RowsOf(k)} = 1..current[k]
                      /\ \A v, w \in RowsOf(k) : v.version = w.version => v = w
                      /\ \A v \in RowsOf(k) : v.to = NoTime <=> v.version = current[k]
                      /\ \A v, w \in RowsOf(k) :
                           w.version = v.version + 1 => v.to = w.from /\ v.from < w.from
    BY DEF Lineage
  <2>1. \A v \in RowsOf(k) : v \in OldRows /\ v.key = k BY <1>6 DEF RowsOf
  <2>2. CASE RowsOf(k) = {}
    <3>1. current[k] = 0 BY <1>6, <2>2 DEF RowsOf
    <3> QED BY <2>2, <3>1
  <2>3. CASE RowsOf(k) # {}
    <3>1. current[k] = 1 BY <1>6, <2>1, <2>3
    <3>2. \A v \in RowsOf(k) : v.version = 1 /\ v.to = NoTime BY <1>9, <2>1
    <3>3. {v.version : v \in RowsOf(k)} = {1} BY <2>3, <3>2
    <3>4. 1..1 = {1} OBVIOUS
    <3>5. \A v, w \in RowsOf(k) : v = w BY <1>10, <2>1
    <3> QED BY <3>1, <3>2, <3>3, <3>4, <3>5
  <2> QED BY <2>2, <2>3
<1>12. NoEmptyVersion BY <1>6, <1>9 DEF NoEmptyVersion
<1>13. \A v \in versions : Traced(v) BY <1>1, <1>6, <1>9 DEF Traced
<1>14. CatalogOK BY <1>6 DEF CatalogOK
<1> QED BY <1>6, <1>8, <1>9, <1>11, <1>12, <1>13, <1>14

LEMMA InitFill == BackfillInit => FillInv
<1> SUFFICES ASSUME BackfillInit PROVE FillInv OBVIOUS
<1>1. /\ StoreType /\ Lineage /\ NoEmptyVersion /\ artifacts \subseteq objects
      /\ \A v \in versions : Traced(v) /\ v.run = OldRun
      /\ CatalogOK
  BY OldStore
<1>2. /\ pc = [p \in Ingesters |-> "idle"] /\ job = [p \in Ingesters |-> IdleJob]
      /\ tx = [p \in Ingesters |-> EmptyTx]
      /\ filling = FALSE /\ todo = {} /\ backfilled = FALSE /\ links = {}
  BY DEF BackfillInit
<1>3. LocalTyped BY <1>2, IdleTyped DEF LocalTyped, Steps
<1>4. Others!EmptyTx = EmptyTx /\ Others!IdleJob = IdleJob
  BY DEF Others!EmptyTx, Others!IdleJob, EmptyTx, IdleJob
<1>5. /\ OthersPc = [p \in Ingesters |-> "idle"]
      /\ OthersJob = [p \in Ingesters |-> Others!IdleJob]
      /\ OthersTx = [p \in Ingesters |-> Others!EmptyTx]
  BY <1>2, <1>4 DEF OthersPc, OthersJob, OthersTx
<1>6. /\ Others!StoreType /\ Others!Lineage /\ Others!CatalogOK /\ Others!NoEmptyVersion
      /\ \A v \in versions : Others!Traced(v)
  BY <1>1, OthersStore
<1>7. Others!LinkInv BY <1>1, <1>5, <1>6, Others!QuietStore, OthersAssumption
<1>8. FillerOK /\ AtName /\ StagedLinksOK
  BY <1>2, BackfillAssumption DEF FillerOK, AtName, StagedLinksOK
<1>9. \A v \in versions : LinkedOrOld(v) BY <1>1, <1>2 DEF LinkedOrOld, LinksOf
<1> QED BY <1>2, <1>3, <1>7, <1>8, <1>9 DEF FillInv

\* Who ingests is no init that is still to backfill.
LEMMA IngestersPresent ==
  ASSUME FillInv, NEW p \in Ingesters, Ingests(p),
         (Begins(p) /\ Begin(p)) \/ Work(p) \/ Fault(p) \/ Crash(p)
  PROVE  Present(p)
<1> SUFFICES ASSUME p = Filler, ~backfilled PROVE FALSE BY DEF Present
<1>1. ~filling /\ ~Begins(p) /\ pc[p] = "idle"
  BY DEF Ingests, Begins, FillInv, FillerOK
<1>2. AbortDeadlock(p) => \E q : WaitsFor(p, q) BY DEF AbortDeadlock, Deadlocked
<1>3. ~AbortDeadlock(p) BY <1>1, <1>2 DEF WaitsFor
<1>4. ~Work(p)
  BY <1>1, <1>3 DEF Work, PutRaw, SeekArtifact, SaveArtifact, ArtifactCollides, Parse,
     ParseFails, SeekRecord, KeepVersion, SupersedeVersion, RefuseVersion, WriteVersion,
     RejectWrite, SeekOrg, RefuseName, AddOrg, OrgCollides, SeekAlias, AddAlias, AliasCollides,
     CommitRun, MarkFailed
<1>5. ~Fault(p) /\ ~Crash(p)
  BY <1>1 DEF Fault, PutRawFails, StatementFails, InTransaction, CommitUnacknowledged, MarkFails,
     Crash
<1> QED BY <1>1, <1>4, <1>5

LEMMA FillStep == FillInv /\ [BackfillNext]_fillVars => FillInv'
<1> SUFFICES ASSUME FillInv, [BackfillNext]_fillVars PROVE FillInv' OBVIOUS
<1>1. CASE UNCHANGED fillVars BY <1>1, IdleStep DEF fillVars
<1>2. CASE ReadVersions BY <1>2, FillerReads
<1>3. CASE FillerWork
  BY <1>3, FillerSyncs, FillerCommits, FillerGivesUp, FillerNames DEF FillerWork
<1>4. CASE filling /\ StatementFails(Filler) /\ UNCHANGED fill
  BY <1>4, FillerFails DEF StatementFails
<1>5. CASE Tick /\ UNCHANGED fill BY <1>5, IdleStep
<1>6. ASSUME NEW p \in Ingesters, Ingests(p),
             (Begins(p) /\ Begin(p)) \/ Work(p) \/ Fault(p) \/ Crash(p), UNCHANGED fill
      PROVE  FillInv'
  <2>1. Present(p) BY <1>6, IngestersPresent
  <2> QED BY <1>6, <2>1, IngesterStep DEF Acts
<1> QED BY <1>1, <1>2, <1>3, <1>4, <1>5, <1>6 DEF BackfillNext

\* After a backfill every version has the links of its record, those that others
\* committed while it ran included, though it read the versions before; and before, an
\* old version has none or all (backfill_organization_links, one transaction).
THEOREM HistoryLinked == BackfillSpec => []HistoryIsLinked
<1>1. FillInv => HistoryIsLinked
  <2> SUFFICES ASSUME FillInv PROVE HistoryIsLinked OBVIOUS
  <2>1. CatalogOK BY StoreTyped DEF FillInv
  <2>2. \A v \in versions :
          \/ LinksOf(v) = LinksOfRecord(v)
          \/ ~backfilled /\ v.run = OldRun /\ LinksOf(v) = {}
    BY DEF FillInv, LinkedOrOld
  <2> QED BY <2>1, <2>2 DEF HistoryIsLinked, CatalogOK
<1> QED BY <1>1, InitFill, FillStep, PTL DEF BackfillSpec

\* Init never leaves its place or its types, and what the ingesters keep of the store
\* is kept on an old database too, backfill or not: the lineage of every record, and
\* the raw bytes before what is made of them.
THEOREM BackfillKeepsStore == BackfillSpec => [](BackfillTypeOK /\ Lineage /\ RawBeforeCanonical)
<1>1. FillInv => BackfillTypeOK /\ Lineage /\ RawBeforeCanonical
  <2> SUFFICES ASSUME FillInv PROVE BackfillTypeOK /\ Lineage /\ RawBeforeCanonical OBVIOUS
  <2>1. StoreType /\ Lineage /\ RawBeforeCanonical BY StoreTyped DEF FillInv
  <2>2. TypeOK BY <2>1, SplitType DEF FillInv, LocalTyped, LocalType
  <2>3. filling => pc[Filler] \in InTransaction \cup {"failing"}
    BY DEF FillInv, FillerOK, NameSteps, InTransaction, Steps
  <2> QED BY <2>1, <2>2, <2>3 DEF FillInv, BackfillTypeOK
<1> QED BY <1>1, InitFill, FillStep, PTL DEF BackfillSpec

-----------------------------------------------------------------------------
(* The histories of an old database. *)

\* What writes versions is a step of an ingester, which is one of Ingestion.
LEMMA OthersWrite ==
  ASSUME FillInv, [BackfillNext]_fillVars
  PROVE  [Others!Next]_(Others!vars) \/ UNCHANGED <<current, versions>>
<1>1. CASE UNCHANGED fillVars BY <1>1 DEF fillVars, vars, store
<1>2. CASE ReadVersions BY <1>2 DEF ReadVersions, store
<1>3. CASE Tick /\ UNCHANGED fill BY <1>3 DEF Tick, store
<1>4. CASE FillerWork
  <2>1. CASE (\E v \in todo : SyncVersion(v)) \/ CommitBackfill
    BY <2>1 DEF SyncVersion, CommitBackfill, store
  <2>2. CASE ~((\E v \in todo : SyncVersion(v)) \/ CommitBackfill)
    BY <1>4, <2>2 DEF FillerWork, FailBackfill, Leave, store, SyncName, SeekOrg, AddOrg, SeekAlias,
       AddAlias, OrgCollides, AliasCollides, RefuseName, Fail, AbortDeadlock, AddLink
  <2> QED BY <2>1, <2>2
<1>5. CASE filling /\ StatementFails(Filler) /\ UNCHANGED fill
  BY <1>5 DEF StatementFails, Fail, store
<1>6. ASSUME NEW p \in Ingesters, Ingests(p),
             (Begins(p) /\ Begin(p)) \/ Work(p) \/ Fault(p) \/ Crash(p), UNCHANGED fill
      PROVE  Others!Next
  <2>1. Present(p) BY <1>6, IngestersPresent
  <2>2. Others!Begin(p) \/ Others!Work(p) \/ Others!Fault(p) \/ Others!Crash(p)
    BY <1>6, <2>1, OthersWork DEF FillInv, fill, Acts
  <2> QED BY <2>2 DEF Others!Next, Others!Live
<1> QED BY <1>1, <1>2, <1>3, <1>4, <1>5, <1>6 DEF BackfillNext

\* The lists of versions are the same.
LEMMA OthersHistory ==
  ASSUME [Others!History!Next]_[k \in Keys |-> Others!VersionsOf(k)]
  PROVE  [History!Next]_[k \in Keys |-> VersionsOf(k)]
<1> DEFINE H == [k \in Keys |-> VersionsOf(k)]
           G == [k \in Keys |-> Others!VersionsOf(k)]
<1>1. G = H /\ G' = H'
  BY DEF Others!VersionsOf, VersionsOf, Others!RowsOf, RowsOf
<1>2. Others!History!Times = History!Times
  BY DEF Others!History!Times, History!Times
<1>3. \A h, print, at : Others!History!Accepts(h, print, at) <=> History!Accepts(h, print, at)
  BY DEF Others!History!Accepts, History!Accepts, Others!History!Current, History!Current
<1>4. \A h, print, at : Others!History!After(h, print, at) = History!After(h, print, at)
  BY DEF Others!History!After, History!After, Others!History!Current, History!Current,
     Others!History!Fresh, History!Fresh
<1>5. \A batch, at : Others!History!Apply(batch, at) => History!Apply(batch, at)
  <2> SUFFICES ASSUME NEW batch, NEW at, Others!History!Apply(batch, at)
               PROVE  History!Apply(batch, at)
    OBVIOUS
  <2>1. /\ \A k \in DOMAIN batch : Others!History!Accepts(G[k], batch[k], at)
        /\ G' = [k \in Keys |-> IF k \in DOMAIN batch
                                THEN Others!History!After(G[k], batch[k], at) ELSE G[k]]
    BY DEF Others!History!Apply
  <2> HIDE DEF G, H
  <2>2. /\ \A k \in DOMAIN batch : History!Accepts(H[k], batch[k], at)
        /\ H' = [k \in Keys |-> IF k \in DOMAIN batch
                                THEN History!After(H[k], batch[k], at) ELSE H[k]]
    BY <1>1, <1>3, <1>4, <2>1
  <2> QED BY <2>2 DEF History!Apply, H
<1>6. Others!History!Next => History!Next
  BY <1>2, <1>5 DEF Others!History!Next, History!Next
<1> QED BY <1>1, <1>6

\* On an old database too no commit rewrites a version, backfill or not, and the
\* store goes on from the versions it has as domain/history.py allows.
THEOREM BackfillKeepsHistory ==
  BackfillSpec => VersionsAreImmutable /\ [][History!Next]_[k \in Keys |-> VersionsOf(k)]
<1>1. FillInv /\ [BackfillNext]_fillVars =>
        [\A v \in versions : \/ v \in versions'
                             \/ /\ v.to = NoTime
                                /\ \E t \in Times : [v EXCEPT !.to = t] \in versions']_vars
  <2> SUFFICES ASSUME FillInv, [BackfillNext]_fillVars, NEW v \in versions
               PROVE  \/ v \in versions'
                      \/ v.to = NoTime /\ \E t \in Times : [v EXCEPT !.to = t] \in versions'
    OBVIOUS
  <2>1. CASE UNCHANGED <<current, versions>> BY <2>1
  <2>2. CASE [Others!Next]_(Others!vars)
    <3>1. Others!LineageInv BY DEF FillInv, Others!LinkInv, Others!RawInv
    <3>2. Others!Kept(v) BY <2>2, <3>1, Others!StepKeeps, OthersAssumption
    <3> QED BY <3>2 DEF Others!Kept, Others!Times, Times
  <2> QED BY <2>1, <2>2, OthersWrite
<1>2. FillInv /\ FillInv' /\ [BackfillNext]_fillVars =>
        [History!Next]_[k \in Keys |-> VersionsOf(k)]
  <2> SUFFICES ASSUME FillInv, FillInv', [BackfillNext]_fillVars
               PROVE  [History!Next]_[k \in Keys |-> VersionsOf(k)]
    OBVIOUS
  <2>1. CASE UNCHANGED <<current, versions>>
    BY <2>1, SameHistory DEF RowsOf
  <2>2. CASE [Others!Next]_(Others!vars)
    <3>1. Others!RawInv /\ Others!LineageInv' BY DEF FillInv, Others!LinkInv, Others!RawInv
    <3>2. [Others!History!Next]_[k \in Keys |-> Others!VersionsOf(k)]
      BY <2>2, <3>1, Others!StepHistory, OthersAssumption
    <3> QED BY <3>2, OthersHistory
  <2> QED BY <2>1, <2>2, OthersWrite
<1> QED BY <1>1, <1>2, InitFill, FillStep, PTL DEF BackfillSpec, VersionsAreImmutable
=============================================================================
