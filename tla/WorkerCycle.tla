---------------------------- MODULE WorkerCycle ----------------------------
(***************************************************************************)
(* The worker process (worker.py) around LiveIngestionService              *)
(* (live_ingestion.py), OfficialSourceClient.fetch_eis (sources/http.py)   *)
(* and parse_eis_rss (sources/eis_rss.py): a loop of cycles, each of which *)
(* reads one page of the EIS feed, stores what it shows and alerts.  An    *)
(* exception ends the process and Docker starts it again.  An API thread   *)
(* runs the same ingestion by hand, and a user uploads packages.           *)
(*                                                                         *)
(* The transactions of a run are those of Ingestion and the ones of the    *)
(* alerts those of AlertOutbox and WebhookDelivery: here the commit of the *)
(* records is one step and the synchronization another.                    *)
(***************************************************************************)
EXTENDS EisAdapters, FiniteSets, SequencesExt

CONSTANTS Limit,       \* source_record_limit: the entries that a run reads
          EntryOf,     \* the entry of a purchase in each of its publications
          Packages,    \* the packages that users upload
          Uploaded,    \* what a package says of a purchase
          MaxChanges,  \* bound: the publications of the source
          MaxManual,   \* bound: the runs and the uploads by hand
          MaxDeaths    \* bound: the failures, other than rejected answers,
                       \* that end the worker

ASSUME WorkerAssumption ==
  /\ Limit \in Nat \ {0}
  /\ EntryOf \in [Keys \X (1..MaxChanges) -> Entry]
  /\ \A k \in Keys, r \in 1..MaxChanges : EntryOf[k, r].key = k
  /\ Packages \subseteq [safe : BOOLEAN, members : Seq(Seq(Element))]
  /\ MaxChanges \in Nat /\ MaxManual \in Nat /\ MaxDeaths \in Nat
  /\ Uploaded \notin Nat

VARIABLES
  feed,      \* the purchases of the source, the last updated first
  rev,       \* how often each was published, 0 for those that were not
  store,     \* what the open version of each record says, 0 where there is none
  alerted,   \* what the last synchronization of alerts has seen of each
  profiles,  \* there is an active profile
  pc,        \* of the worker
  seen,      \* the page that the worker has read: revisions, 0 if not on it
  stopped,   \* SIGTERM was sent to the worker
  manual,    \* the page that a thread of the API has read, or NoPage
  recent,    \* ghost: published since the page the worker stored last
  touched,   \* ghost: last written by hand
  budget     \* what is left of the bounds

source == <<feed, rev, recent>>
worker == <<pc, seen, stopped>>
data == <<store, touched>>
vars == <<source, data, alerted, profiles, worker, manual, budget>>

Revisions == 0..MaxChanges
NoPage == [k \in Keys |-> 0]

WorkerTypeOK ==
  /\ feed \in Seq(Keys) /\ IsInjective(feed)
  /\ rev \in [Keys -> Revisions]
  /\ store \in [Keys -> Revisions \cup {Uploaded}]
  /\ alerted \in [Keys -> Revisions \cup {Uploaded}]
  /\ profiles \in BOOLEAN /\ stopped \in BOOLEAN
  /\ pc \in {"off", "head", "cycle", "fetch", "ingest", "alerts", "wait", "ended"}
  /\ seen \in [Keys -> Revisions] /\ manual \in [Keys -> Revisions]
  /\ recent \subseteq Keys /\ touched \subseteq Keys
  /\ budget \in [changes : Nat, manual : Nat, deaths : Nat]

Init ==
  /\ feed = <<>> /\ rev = NoPage /\ recent = {}
  /\ store = NoPage /\ touched = {} /\ alerted = NoPage
  /\ profiles = FALSE
  /\ pc = "off" /\ seen = NoPage /\ stopped = FALSE
  /\ manual = NoPage
  /\ budget = [changes |-> MaxChanges, manual |-> MaxManual, deaths |-> MaxDeaths]

-----------------------------------------------------------------------------
(* Pages of the feed. *)

\* Mutant: the page starts at the second entry.
WindowOffByOne(limit) == {feed[i] : i \in (2..limit + 1) \cap DOMAIN feed}

\* items[:limit] of the first page, sorted by UPDATE_DATE, the last first.
Window(limit) == {feed[i] : i \in (1..limit) \cap DOMAIN feed}

PageOf(limit) == [k \in Keys |-> IF k \in Window(limit) THEN rev[k] ELSE 0]
OnPage(page) == {k \in Keys : page[k] > 0}

\* The place of a purchase in the feed, or the one after the last.
Place(k) ==
  IF \E i \in DOMAIN feed : feed[i] = k THEN CHOOSE i \in DOMAIN feed : feed[i] = k
  ELSE Len(feed) + 1

\* k comes first; those that were before it move back by one.
MovedToFront(k) ==
  [i \in DOMAIN feed \cup {Place(k)} |->
     IF i = 1 THEN k ELSE IF i <= Place(k) THEN feed[i - 1] ELSE feed[i]]

\* What parse_eis_rss makes of the first entries of the feed.
PageOutcome(limit) ==
  FeedOutcome([i \in DOMAIN feed |-> EntryOf[feed[i], rev[feed[i]]]], limit)

\* Mutant: a record that is in the store is not written again.
AppliedOnce(page) == [k \in Keys |-> IF page[k] > 0 /\ store[k] = 0 THEN page[k] ELSE store[k]]

\* apply_records: what is not on the page is left alone.
Applied(page) == [k \in Keys |-> IF page[k] > 0 THEN page[k] ELSE store[k]]

-----------------------------------------------------------------------------
(* The source and the users. *)

\* A purchase is published or updated, within the days that the query looks back.
Publish(k) ==
  /\ budget.changes > 0
  /\ feed' = MovedToFront(k)
  /\ rev' = [rev EXCEPT ![k] = @ + 1]
  /\ recent' = recent \cup {k}
  /\ budget' = [budget EXCEPT !.changes = @ - 1]
  /\ UNCHANGED <<data, alerted, profiles, worker, manual>>

CreateProfile ==
  /\ ~profiles
  /\ profiles' = TRUE
  /\ UNCHANGED <<source, data, alerted, worker, manual, budget>>

\* POST /api/ingestion/run: the same service in a thread of the API, with a limit
\* of its own; the page is read now and stored later.  One that cannot be parsed
\* changes nothing.
ManualFetch(limit) ==
  /\ budget.manual > 0 /\ profiles /\ manual = NoPage
  /\ PageOutcome(limit) = "records"
  /\ manual' = PageOf(limit)
  /\ budget' = [budget EXCEPT !.manual = @ - 1]
  /\ UNCHANGED <<source, data, alerted, profiles, worker>>

ManualIngest ==
  /\ manual # NoPage
  /\ store' = Applied(manual)
  /\ touched' = touched \cup OnPage(manual)
  /\ manual' = NoPage
  /\ UNCHANGED <<source, alerted, profiles, worker, budget>>

\* The run fails, or the process of the API dies.
ManualFails ==
  /\ manual # NoPage
  /\ manual' = NoPage
  /\ UNCHANGED <<source, data, alerted, profiles, worker, budget>>

\* POST /api/ingestion/eis-upload: another form of the same purchases, all the
\* records of a package or none.
Upload(p) ==
  /\ budget.manual > 0
  /\ LET found == IF PackageOutcome(p.safe, p.members) = "records"
                  THEN UNION {KeysOf(p.members[m]) : m \in DOMAIN p.members} ELSE {} IN
     /\ store' = [k \in Keys |-> IF k \in found THEN Uploaded ELSE store[k]]
     /\ touched' = touched \cup found
  /\ budget' = [budget EXCEPT !.manual = @ - 1]
  /\ UNCHANGED <<source, alerted, profiles, worker, manual>>

Environment ==
  \/ \E k \in Keys : Publish(k)
  \/ \E p \in Packages : Upload(p)
  \/ CreateProfile
  \/ \E limit \in 1..Len(feed) : ManualFetch(limit)
  \/ ManualIngest \/ ManualFails

-----------------------------------------------------------------------------
(* The worker. *)

Goto(step) == pc' = step /\ UNCHANGED <<seen, stopped>>

Running == pc \notin {"off", "ended"}

\* Docker starts the process unless it was stopped (restart: unless-stopped).
Start ==
  /\ pc = "off" /\ ~stopped
  /\ Goto("head")
  /\ UNCHANGED <<source, data, alerted, profiles, manual, budget>>

\* Mutant: the stop signal is only looked at before the first cycle.
LoopHeadForever ==
  /\ pc = "head"
  /\ Goto("cycle")
  /\ UNCHANGED <<source, data, alerted, profiles, manual, budget>>

\* The head of run_scheduled_loop.
LoopHead ==
  /\ pc = "head"
  /\ Goto(IF stopped THEN "ended" ELSE "cycle")
  /\ UNCHANGED <<source, data, alerted, profiles, manual, budget>>

\* LiveIngestionService.run_cycle reads the profiles; without any it raises.
ReadProfiles ==
  /\ pc = "cycle"
  /\ Goto(IF profiles THEN "fetch" ELSE "off")
  /\ UNCHANGED <<source, data, alerted, profiles, manual, budget>>

\* The source answers with a page that can be parsed ...
Fetch ==
  /\ pc = "fetch"
  /\ PageOutcome(Limit) = "records"
  /\ seen' = PageOf(Limit) /\ pc' = "ingest" /\ UNCHANGED stopped
  /\ UNCHANGED <<source, data, alerted, profiles, manual, budget>>

\* ... or with one that raises what is no SourceContractError: the run fails, and
\* the exception leaves the cycle ...
FetchRaises ==
  /\ pc = "fetch"
  /\ PageOutcome(Limit) = "raised"
  /\ Goto("off")
  /\ UNCHANGED <<source, data, alerted, profiles, manual, budget>>

\* ... or with bytes that break the contract, in an entry or before (DTD, schema,
\* size), likewise ...
FetchRejected ==
  /\ pc = "fetch"
  /\ Goto("off")
  /\ UNCHANGED <<source, data, alerted, profiles, manual, budget>>

\* Mutant: SourceFetchError is not caught.
FetchFailsRaising ==
  /\ pc = "fetch"
  /\ Goto("off")
  /\ UNCHANGED <<source, data, alerted, profiles, manual, budget>>

\* ... or not as it should (SourceFetchError): a failed run is recorded, and the
\* cycle goes on.
FetchFails ==
  /\ pc = "fetch"
  /\ Goto("alerts")
  /\ UNCHANGED <<source, data, alerted, profiles, manual, budget>>

\* The page is stored.
Ingest ==
  /\ pc = "ingest"
  /\ store' = Applied(seen)
  /\ touched' = touched \ OnPage(seen)
  /\ recent' = {k \in recent : rev[k] # seen[k]}
  /\ Goto("alerts")
  /\ UNCHANGED <<feed, rev, alerted, profiles, manual, budget>>

\* sync_all and dispatch_pending.
SyncAlerts ==
  /\ pc = "alerts"
  /\ alerted' = store
  /\ Goto("wait")
  /\ UNCHANGED <<source, data, profiles, manual, budget>>

\* stopped.wait: the interval is over, or the signal came.
Wait ==
  /\ pc = "wait"
  /\ Goto("head")
  /\ UNCHANGED <<source, data, alerted, profiles, manual, budget>>

\* Any other failure: the database, the raw store, a collision, a crash.
Die ==
  /\ Running /\ budget.deaths > 0
  /\ budget' = [budget EXCEPT !.deaths = @ - 1]
  /\ Goto("off")
  /\ UNCHANGED <<source, data, alerted, profiles, manual>>

\* docker stop: SIGTERM, whatever the worker is at.
Stop ==
  /\ ~stopped
  /\ stopped' = TRUE
  /\ pc' = IF Running THEN pc ELSE "ended"
  /\ UNCHANGED <<source, data, alerted, profiles, seen, manual, budget>>

\* The process that should stop dies: it is not started again.
EndDead ==
  /\ stopped /\ pc = "off"
  /\ Goto("ended")
  /\ UNCHANGED <<source, data, alerted, profiles, manual, budget>>

\* An answer none of whose entries breaks the contract of the parser.
Lawful == Fetch \/ FetchRaises

Step ==
  \/ Start \/ LoopHead \/ ReadProfiles \/ Lawful \/ FetchRejected \/ FetchFails
  \/ Ingest \/ SyncAlerts \/ Wait \/ EndDead

Next == Environment \/ Step \/ Die \/ Stop

\* The worker goes on; timeouts end every call it makes.
Spec == Init /\ [][Next]_vars /\ WF_vars(Step)

-----------------------------------------------------------------------------
(* Properties. *)

\* What the source has to keep for the cut of the page to lose nothing: between two
\* pages that the worker stores, at most Limit purchases change.  Nothing in the code
\* enforces it, and the worker does not notice when it does not hold.
FewPublished == Cardinality(recent) <= Limit

\* What is not stored as it was last published is among the first of the feed, or was
\* written by hand since.
InReach ==
  \A k \in Keys : store[k] # rev[k] => k \in touched \/ k \in Window(Limit)

\* As long as few are published, no purchase falls off the page before it is stored,
\* whatever page the worker has read meanwhile and stores late, and whatever is run
\* by hand (items[:limit], and the UPDATE_DATE order of the query).
StaysInReach == []FewPublished => []InReach

\* Every purchase is stored as it was last published; an older or an uploaded
\* form, written by hand after the worker's, lasts only outside the page.
Synced ==
  \A k \in Keys : store[k] = rev[k] \/ (k \in touched /\ k \notin Window(Limit))

\* Once the source publishes no more, the store catches up with it, whatever
\* dies or is run by hand, if few were published and the source again and again
\* answers with a page that can be parsed (the loop of worker.py, the order and the
\* cut of the feed).
StoreCatchesUp == []FewPublished /\ []<><<Fetch>>_vars => <>[]Synced

\* Alerts follow the store though the source may never answer as it should
\* again: only rejected answers keep the cycle from its end (run_cycle and the
\* SourceFetchError that _run_eis catches).
AlertsCatchUp == []<><<Fetch \/ FetchFails>>_vars => <>[](alerted = store)

\* SIGTERM ends the worker, whatever it is at and whatever the source answers.
StopEnds == stopped ~> pc = "ended"

\* Every record is stored or rejected as a breach of the contract, and a missing
\* amount is unknown: the store catches up if few are published and the source again
\* and again answers without a breach.  The code does not keep this: an entry with a currency and no
\* price raises in every cycle, and nothing of its page is stored.
PricelessIsStored == []FewPublished /\ []<><<Lawful>>_vars => <>[]Synced
=============================================================================
