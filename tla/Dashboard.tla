----------------------------- MODULE Dashboard -----------------------------
(***************************************************************************)
(* The pages that the API reads together from several tables (api.py): the *)
(* dashboard, the detail of a tender, the analytics of a profile and its   *)
(* recommendations, with build_product_analytics (product_analytics.py)    *)
(* and source_freshness (persistence/ingestion_repository.py).             *)
(*                                                                         *)
(* A request runs in one READ COMMITTED transaction that only reads: every *)
(* SELECT is a step and sees what is committed when it runs, and every     *)
(* call of now() reads a clock that goes on.  Meanwhile runs of the worker *)
(* and of other requests commit versions, attempts and profiles.           *)
(*                                                                         *)
(* A record version and a profile version stand for their contents, the    *)
(* constants Content and CompanyOf.  Runs are numbered as they start.  The *)
(* search text and the region of a request are the set of keys they leave. *)
(***************************************************************************)
EXTENDS Matching, Outcomes

CONSTANTS Keys,         \* natural keys of records
          MaxVersion,   \* bound: the versions of a record
          MaxProfile,   \* bound: the versions of the profile
          MaxRuns,      \* bound: the ingestion runs
          MaxClock,     \* bound: the last instant of the clock
          NoDeadline,   \* the deadline of a record that has none (None)
          Content,      \* what a version of a record says
          CompanyOf     \* what a version of the profile says

Versions == 1..MaxVersion
Clocks == 0..MaxClock

RecordContent == [product : BOOLEAN, kind : {"notice", "award"},
                  lifecycle : {"planned", "active", "closed"},
                  deadline : Clocks \cup {NoDeadline}, notice : Notice, lots : LotLists]

ASSUME DashboardAssumption ==
  /\ IsFiniteSet(Keys)
  /\ {MaxVersion, MaxProfile, MaxRuns, MaxClock} \subseteq Nat
  /\ Content \in [Keys \X Versions -> RecordContent]
  /\ CompanyOf \in [1..MaxProfile -> Company]

VARIABLES
  clock,
  versions,   \* of each record: the run that wrote each version, oldest first
  attempted,  \* of each record: the versions with an extraction attempt
  profile,    \* the active version of the profile, 0 before the first
  runs,       \* the status of each run
  page        \* the page that is being built, or that was answered

world == <<clock, versions, attempted, profile, runs>>
vars == <<world, page>>

Kinds == {"dashboard", "detail", "analytics", "recommendations"}

Undecided == "undecided"
Decisions == {"recommended", "review", "not_relevant", "expired", Undecided}

\* at: the next step of the plan; wanted: the keys that the request is about;
\* listed, selected: the profile in list_profiles and the one that is used;
\* records: the version read of each record of the product, 0 for the others;
\* decided: the label of each ranked record; cards: the records to be shown,
\* pending: those whose evidence is not read; context: the version found open
\* for the first of them; evidence: the version whose attempt is shown;
\* lineages: how many versions were read; awards: the version read of each award;
\* nearest: the records with a deadline ahead; counts: the history counters of
\* the analytics; history: how many versions of the profile; success: the last
\* run that succeeded.
Page == [status : {"idle", "open", "ok", "missing", "error"}, kind : Kinds,
         at : Nat, wanted : SUBSET Keys,
         listed : 0..MaxProfile, selected : 0..MaxProfile,
         records : [Keys -> 0..MaxVersion], decided : [Keys -> Decisions],
         cards : SUBSET Keys, pending : SUBSET Keys, context : 0..MaxVersion,
         evidence : [Keys -> 0..MaxVersion], lineages : [Keys -> 0..MaxVersion],
         awards : [Keys -> 0..MaxVersion], nearest : SUBSET Keys,
         counts : [current : Nat, new : Nat, changed : Nat],
         history : 0..MaxProfile, success : 0..MaxRuns]

None == [k \in Keys |-> 0]

Blank(status, kind, wanted) ==
  [status |-> status, kind |-> kind, at |-> 1, wanted |-> wanted,
   listed |-> 0, selected |-> 0, records |-> None,
   decided |-> [k \in Keys |-> Undecided], cards |-> {}, pending |-> {},
   context |-> 0, evidence |-> None, lineages |-> None, awards |-> None, nearest |-> {},
   counts |-> [current |-> 0, new |-> 0, changed |-> 0],
   history |-> 0, success |-> 0]

NoPage == Blank("idle", "dashboard", {})

DashboardTypeOK ==
  /\ clock \in Clocks
  /\ versions \in [Keys -> Seq(1..MaxRuns)]
  /\ attempted \in [Keys -> SUBSET Versions]
  /\ profile \in 0..MaxProfile
  /\ runs \in Seq({"running", "succeeded", "failed"})
  /\ page \in Page

Init ==
  /\ clock = 0
  /\ versions = [k \in Keys |-> <<>>]
  /\ attempted = [k \in Keys |-> {}]
  /\ profile = 0
  /\ runs = <<>>
  /\ page = NoPage

-----------------------------------------------------------------------------
(* What other transactions commit. *)

Tick ==
  /\ clock < MaxClock
  /\ clock' = clock + 1
  /\ UNCHANGED <<versions, attempted, profile, runs, page>>

SaveProfile ==
  /\ profile < MaxProfile
  /\ profile' = profile + 1
  /\ UNCHANGED <<clock, versions, attempted, runs, page>>

StartRun ==
  /\ Len(runs) < MaxRuns
  /\ runs' = Append(runs, "running")
  /\ UNCHANGED <<clock, versions, attempted, profile, page>>

\* The records and the status of their run are one transaction.
SucceedRun(r, changed) ==
  /\ runs[r] = "running"
  /\ \A k \in changed : Len(versions[k]) < MaxVersion
  /\ runs' = [runs EXCEPT ![r] = "succeeded"]
  /\ versions' = [k \in Keys |-> IF k \in changed THEN Append(versions[k], r) ELSE versions[k]]
  /\ UNCHANGED <<clock, attempted, profile, page>>

\* _mark_failed, also of a run whose commit went through without an acknowledgement:
\* its records are there.
FailRun(r) ==
  /\ runs[r] \in {"running", "succeeded"}
  /\ runs' = [runs EXCEPT ![r] = "failed"]
  /\ UNCHANGED <<clock, versions, attempted, profile, page>>

\* An extraction is recorded for the version that was open when it began.
Extract(k, v) ==
  /\ attempted' = [attempted EXCEPT ![k] = @ \cup {v}]
  /\ UNCHANGED <<clock, versions, profile, runs, page>>

World ==
  \/ Tick \/ SaveProfile \/ StartRun
  \/ \E r \in DOMAIN runs : FailRun(r) \/ \E changed \in SUBSET Keys : SucceedRun(r, changed)
  \/ \E k \in Keys : \E v \in 1..Len(versions[k]) : Extract(k, v)

-----------------------------------------------------------------------------
(* A request. *)

\* Mutant: the versions are read before the records they belong to.
PlanLineagesFirst(kind) ==
  IF kind = "dashboard"
  THEN <<"profiles", "selected", "lineages", "records", "rank", "evidence",
         "awards", "analytics", "history", "freshness">>
  ELSE <<"records", "profiles", "selected", "rank", "evidence", "awards", "lineages">>

\* Mutant: the side panels are read first.
PlanPanelsFirst(kind) ==
  IF kind = "dashboard"
  THEN <<"history", "freshness", "profiles", "selected", "records", "rank", "lineages",
         "evidence", "awards", "analytics">>
  ELSE <<"records", "profiles", "selected", "rank", "evidence", "awards", "lineages">>

\* The order of the reads of each handler.
Plan(kind) ==
  CASE kind = "dashboard"       -> <<"profiles", "selected", "records", "rank", "lineages",
                                     "evidence", "awards", "analytics", "history",
                                     "freshness">>
    [] kind = "detail"          -> <<"records", "profiles", "selected", "rank", "evidence",
                                     "awards", "lineages">>
    [] kind = "analytics"       -> <<"selected", "records", "rank", "lineages", "awards",
                                     "analytics">>
    [] kind = "recommendations" -> <<"selected", "records", "rank">>

\* The detail is about one record; a search may leave any of them.
Request(kind, wanted) ==
  /\ page.status = "idle"
  /\ kind = "detail" => Cardinality(wanted) = 1
  /\ kind \in {"analytics", "recommendations"} => wanted = Keys
  /\ page' = Blank("open", kind, wanted)
  /\ UNCHANGED world

At(step) == page.status = "open" /\ Plan(page.kind)[page.at] = step

\* The step is done, and the page gets what it has read; the last one answers.
Done(read) ==
  page' = [read EXCEPT !.at = @ + 1,
                       !.status = IF read.status = "open" /\ read.at = Len(Plan(read.kind))
                                  THEN "ok" ELSE read.status]

\* list_profiles
ListProfiles ==
  /\ At("profiles")
  /\ Done([page EXCEPT !.listed = profile])
  /\ UNCHANGED world

\* get_profile, or the first of the list; the analytics and the recommendations
\* of a profile that is not there are 404.
GetProfile ==
  /\ At("selected")
  /\ \E given \in BOOLEAN :
       /\ page.kind \in {"analytics", "recommendations"} => given
       /\ LET found == IF given THEN profile ELSE 0
              strict == page.kind \in {"analytics", "recommendations"} IN
          Done([page EXCEPT !.selected = IF found = 0 THEN page.listed ELSE found,
                            !.status = IF strict /\ found = 0 THEN "missing" ELSE "open"])
  /\ UNCHANGED world

Says(k) == Content[<<k, page.records[k]>>]

\* list_current_records, and those of the product among them.
CurrentRecords ==
  [k \in Keys |-> IF versions[k] # <<>> /\ Content[<<k, Len(versions[k])>>].product
                  THEN Len(versions[k]) ELSE 0]

ReadRecords ==
  /\ At("records")
  /\ LET absent == page.kind = "detail" /\ \E k \in page.wanted : CurrentRecords[k] = 0 IN
     Done([page EXCEPT !.records = CurrentRecords,
                       !.status = IF absent THEN "missing" ELSE "open"])
  /\ UNCHANGED world

ProductKeys == {k \in Keys : page.records[k] > 0}

\* current_opportunities
Opportunities ==
  {k \in ProductKeys : Says(k).kind = "notice" /\ Says(k).lifecycle \in {"planned", "active"}}

Passed(k, now) == Says(k).deadline # NoDeadline /\ Says(k).deadline <= now

\* What is ranked: the opportunities, or the one record of the detail.
Ranked == IF page.selected = 0 THEN {}
          ELSE IF page.kind = "detail" THEN page.wanted ELSE Opportunities

\* _decision_matches: the labels that each filter lets through.
DecisionFilters ==
  {{d} : d \in Decisions \ {Undecided}}
    \cup {{"recommended", "review"}, {"not_relevant", "expired"}, Decisions \ {Undecided}}

\* TenderMatcher.rank, then the filters: what is left becomes cards.
RankRecords ==
  /\ At("rank")
  /\ LET label(k) == Decision(CompanyOf[page.selected], Says(k).notice, Passed(k, clock))
     IN \E shown \in DecisionFilters :
          LET cards == CASE page.kind = "detail"    -> page.wanted
                         [] page.kind = "dashboard" ->
                              {k \in Ranked \cap page.wanted : label(k) \in shown}
                         [] OTHER                   -> {}
          IN Done([page EXCEPT
                     !.decided = [k \in Keys |-> IF k \in Ranked THEN label(k) ELSE Undecided],
                     !.cards = cards, !.pending = cards])
  /\ UNCHANGED world

\* Mutant: the versions of every record of the store.
LineagesOfAll ==
  [k \in Keys |-> IF page.kind = "detail" /\ k \notin page.wanted THEN 0 ELSE Len(versions[k])]

\* lineage(key), or list_all_lineages cut to the product records of the page.
Lineages ==
  [k \in Keys |-> IF k \in ProductKeys /\ (page.kind = "detail" => k \in page.wanted)
                  THEN Len(versions[k]) ELSE 0]

ReadLineages ==
  /\ At("lineages")
  /\ Done([page EXCEPT !.lineages = Lineages])
  /\ UNCHANGED world

Card == CHOOSE k \in page.pending : TRUE

\* list_attempts of the next card: SELECT the version that is open ...
ReadContext ==
  /\ At("evidence")
  /\ page.pending # {} /\ page.context = 0
  /\ page' = [page EXCEPT !.context = Len(versions[Card])]
  /\ UNCHANGED world

\* Mutant: the last attempt of any version of the record.
LastAttemptOfAny(k) ==
  IF attempted[k] = {} THEN 0 ELSE CHOOSE v \in attempted[k] : \A u \in attempted[k] : u <= v

\* The version whose attempt is shown.
LastAttempt(k) == IF page.context \in attempted[k] THEN page.context ELSE 0

\* ... and the attempts of that version.  The dashboard looks the card up in the
\* lineages it has read, a KeyError if it is not there.
ReadAttempts ==
  /\ At("evidence")
  /\ page.pending # {} /\ page.context > 0
  /\ page' = [page EXCEPT !.evidence[Card] = LastAttempt(Card),
                          !.pending = @ \ {Card}, !.context = 0,
                          !.status = IF page.kind = "dashboard" /\ page.lineages[Card] = 0
                                     THEN "error" ELSE "open"]
  /\ UNCHANGED world

EvidenceRead ==
  /\ At("evidence")
  /\ page.pending = {}
  /\ Done(page)
  /\ UNCHANGED world

\* list_award_outcomes reads the current records once more.
ReadAwards ==
  /\ At("awards")
  /\ LET award(k) == CurrentRecords[k] > 0 /\ Content[<<k, CurrentRecords[k]>>].kind = "award"
     IN Done([page EXCEPT !.awards = [k \in Keys |-> IF award(k) THEN CurrentRecords[k] ELSE 0]])
  /\ UNCHANGED world

\* Mutant: a deadline that is reached counts as ahead.
AheadInclusive(k) == Says(k).deadline # NoDeadline /\ Says(k).deadline >= clock

\* The deadline is after as_of, a later reading of the clock than the ranking's.
Ahead(k) == Says(k).deadline # NoDeadline /\ Says(k).deadline > clock

\* build_product_analytics raises ValueError unless the labels cover the
\* opportunities; without a profile the dashboard has no analytics.
Analyse ==
  /\ At("analytics")
  /\ IF page.selected = 0 THEN Done(page)
     ELSE Done([page EXCEPT
                  !.nearest = {k \in Opportunities : Ahead(k)},
                  !.counts = [current |-> Cardinality(ProductKeys),
                              new |-> Cardinality({k \in Keys : page.lineages[k] = 1}),
                              changed |-> Cardinality({k \in Keys : page.lineages[k] > 1})],
                  !.status = IF {k \in Keys : page.decided[k] # Undecided} = Opportunities
                             THEN "open" ELSE "error"])
  /\ UNCHANGED world

\* list_profile_history of the selected profile.
ReadHistory ==
  /\ At("history")
  /\ Done([page EXCEPT !.history = IF page.selected = 0 THEN 0 ELSE profile])
  /\ UNCHANGED world

\* Mutant: the success is only looked for in the last run.
LatestSuccessIfLast ==
  IF runs # <<>> /\ runs[Len(runs)] = "succeeded" THEN Len(runs) ELSE 0

\* The latest run, by its start, that succeeded; 0 if none has.
LatestSuccess ==
  LET good == {r \in DOMAIN runs : runs[r] = "succeeded"}
  IN IF good = {} THEN 0 ELSE CHOOSE r \in good : \A q \in good : q <= r

\* source_freshness
ReadFreshness ==
  /\ At("freshness")
  /\ Done([page EXCEPT !.success = LatestSuccess])
  /\ UNCHANGED world

\* The page was sent.
Leave ==
  /\ page.status \in {"ok", "missing", "error"}
  /\ page' = NoPage
  /\ UNCHANGED world

Read ==
  \/ ListProfiles \/ GetProfile \/ ReadRecords \/ RankRecords \/ ReadLineages
  \/ ReadContext \/ ReadAttempts \/ EvidenceRead \/ ReadAwards \/ Analyse
  \/ ReadHistory \/ ReadFreshness

Next == World \/ Read \/ Leave \/ \E kind \in Kinds, wanted \in SUBSET Keys : Request(kind, wanted)

Spec == Init /\ [][Next]_vars

-----------------------------------------------------------------------------
(* Properties. *)

Answered == page.status = "ok"
Full == Answered /\ page.kind = "dashboard"

\* What the matcher labelled, other than expired.
Labelled == {k \in Keys : page.decided[k] \in {"recommended", "review", "not_relevant"}}
Reader == CompanyOf[page.selected]

\* What is recommended was classified as the company's trade, in a known place
\* that it serves itself, without a negative keyword: the other contributions of
\* match together do not make up for a missing classification.
RecommendedIsCertain ==
  \A k \in Keys : page.decided[k] = "recommended" => Fits(Reader, Says(k).notice)

\* A company that widens its reach is never shown a notice as less relevant:
\* the order of the tests of assess_geography, the contributions and the
\* thresholds of match agree on what is better.
WiderReachNeverHurts ==
  Answered /\ page.kind = "recommendations" =>
    \A d \in Company : WiderReach(Reader, d) =>
      \A k \in Labelled : Worth(page.decided[k]) <= Worth(Decision(d, Says(k).notice, FALSE))

\* More of what speaks for a notice never makes it less relevant (the capped
\* contributions and the inclusive thresholds of match).
EvidenceNeverHurts ==
  Answered /\ page.kind = "recommendations" =>
    \A k \in Labelled, m \in Notice : MoreEvidence(Says(k).notice, m) =>
      Worth(page.decided[k]) <= Worth(Decision(Reader, m, FALSE))

\* The total of an award is of all its lots: with one lot more it is only kept
\* for a known amount in the same currency, which is added (build_award_outcome).
TotalsAreWhole ==
  \A k \in Keys : page.awards[k] # 0 =>
    LET lots == Content[<<k, page.awards[k]>>].lots IN
    \A lot \in Lot :
      Total(Append(lots, lot)) =
        IF Total(lots) # Unknown /\ lot.amount # Unknown /\ lot.currency = lots[1].currency
        THEN Total(lots) + lot.amount ELSE Unknown

\* No interleaving with commits makes a page fail: every card is found in the
\* lineages, and the labels cover the opportunities (api.py, and the ValueError
\* of build_product_analytics).
NoPageFails == page.status # "error"

\* What a page shows is in the histories it shows beside it: the version of a
\* card in its lineage, the selected profile in the profile's history, though
\* they come from different SELECTs.
HistoryBacksPage ==
  Answered =>
    /\ page.kind \in {"dashboard", "detail"} =>
         \A k \in page.cards : page.records[k] <= page.lineages[k]
    /\ Full => page.listed <= page.selected /\ page.selected <= page.history

\* New and changed records are all the current ones, though records and
\* lineages come from different SELECTs (HistoryCounts, ActivitySummary).
CountsAddUp ==
  Answered /\ page.selected # 0 => page.counts.new + page.counts.changed = page.counts.current

\* A deadline that is shown as ahead is never one of a record labelled expired,
\* though the ranking and the analytics read the clock at different times.
AheadIsNotExpired ==
  \A k \in page.nearest : page.decided[k] # "expired"

\* The evidence beside a card is of the version of the card or of a newer one,
\* never of one that was superseded before (list_attempts).
EvidenceIsNotOlder ==
  Answered =>
    \A k \in page.cards : page.evidence[k] # 0 => page.records[k] <= page.evidence[k]

\* The last success that the dashboard reports is not older than what it shows: no
\* record on it was written by a later run that counts as a success (source_freshness).
\* A run that was marked failed after a commit nobody acknowledged does not count,
\* though what it wrote is shown.
FreshnessCoversPage ==
  Full => \A k \in ProductKeys :
    LET writer == versions[k][page.records[k]]
    IN runs[writer] = "succeeded" => writer <= page.success
=============================================================================
