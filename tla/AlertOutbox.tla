---------------------------- MODULE AlertOutbox ----------------------------
(***************************************************************************)
(* In-app alerts: AlertService (alerts.py) and AlertRepository             *)
(* (persistence/alert_repository.py), called by POST /api/alerts/sync and  *)
(* by each cycle of the worker, while profiles and records change.         *)
(*                                                                         *)
(* A synchronization is one READ COMMITTED transaction: every SELECT is a  *)
(* step and sees what is committed when it runs.  A record is ranked from  *)
(* the snapshot of its open version that one SELECT returned; the alert is *)
(* linked to the version another SELECT finds open.  The unique index on   *)
(* the idempotency key makes an insert wait for a concurrent one of the    *)
(* same key, and fail when that one commits.                               *)
(*                                                                         *)
(* A profile version and a record version stand for their contents.  The   *)
(* ranking of domain/matching.py is the constant Rank; that a deadline may *)
(* pass between two rankings is left out.                                  *)
(***************************************************************************)
EXTENDS Integers, Sequences, FiniteSets

CONSTANTS Syncers,     \* threads of the API and the worker
          Worker,      \* the one that synchronizes all profiles
          SlugList,    \* the slugs, in their order
          Keys,        \* the records
          MaxProfile,  \* bound: the versions of a profile
          MaxRecord,   \* bound: the versions of a record
          Rank         \* of a subject: 0 if it is not recommended, else the
                       \* higher the earlier

Slugs == {SlugList[i] : i \in DOMAIN SlugList}
Versions == 1..MaxRecord

\* A profile version and a record version.
Subject == [slug : Slugs, pv : 1..MaxProfile, key : Keys, rv : Versions]

ASSUME AlertAssumption ==
  /\ MaxProfile \in Nat \ {0} /\ MaxRecord \in Nat \ {0}
  /\ SlugList \in Seq(Slugs) /\ IsFiniteSet(Keys) /\ IsFiniteSet(Syncers)
  /\ Worker \in Syncers
  /\ Rank \in [Subject -> Nat]

VARIABLES
  profile,  \* the active version of each slug, 0 where there is none
  record,   \* the open version of each record, 0 where there is none
  alerts,   \* alert_events
  pc, job,
  staged    \* the uncommitted alerts of each syncer

world == <<profile, record>>
vars == <<world, alerts, pc, job, staged>>

\* subject: profile_id and record_version_id; snap: the version of the record
\* that the payload was made from.
Alert == [id : Nat, subject : Subject, snap : Versions, read : BOOLEAN]

\* todo: the places of the slugs to synchronize; pv: the version of the profile at
\* hand; queue: the recommended records, each with the version that was
\* ranked; link: the version found open for the record at hand, 0 before that.
Job == [todo : SUBSET DOMAIN SlugList, pv : 0..MaxProfile,
        queue : SUBSET [key : Keys, snap : Versions], link : 0..MaxRecord]
NoJob == [todo |-> {}, pv |-> 0, queue |-> {}, link |-> 0]

Steps == {"idle", "profile", "records", "next", "seek", "insert", "commit"}

TypeOK ==
  /\ profile \in [Slugs -> 0..MaxProfile]
  /\ record \in [Keys -> 0..MaxRecord]
  /\ alerts \subseteq Alert
  /\ pc \in [Syncers -> Steps]
  /\ job \in [Syncers -> Job]
  /\ staged \in [Syncers -> SUBSET Alert]

Init ==
  /\ profile = [s \in Slugs |-> 0]
  /\ record = [k \in Keys |-> 0]
  /\ alerts = {}
  /\ pc = [p \in Syncers |-> "idle"]
  /\ job = [p \in Syncers |-> NoJob]
  /\ staged = [p \in Syncers |-> {}]

-----------------------------------------------------------------------------

Goto(p, step) == pc' = [pc EXCEPT ![p] = step]

\* The transaction is over: committed, rolled back, or there was none.
Leave(p) ==
  /\ Goto(p, "idle")
  /\ job' = [job EXCEPT ![p] = NoJob]
  /\ staged' = [staged EXCEPT ![p] = {}]

\* An exception: the transaction rolls back.  The API answers 500, the worker
\* dies and is restarted.
Fail(p) == Leave(p) /\ UNCHANGED <<world, alerts>>

\* The profile at hand: the first of the slugs that are left.
Foremost(p) == CHOOSE i \in job[p].todo : \A j \in job[p].todo : i <= j
SlugOf(p) == SlugList[Foremost(p)]

SubjectOf(p, key, rv) == [slug |-> SlugOf(p), pv |-> job[p].pv, key |-> key, rv |-> rv]

\* The record at hand: the first of the ranking that is left.
First(p) == CHOOSE r \in job[p].queue : \A s \in job[p].queue :
              Rank[SubjectOf(p, r.key, r.snap)] >= Rank[SubjectOf(p, s.key, s.snap)]

\* The subject whose idempotency key is at hand.
Target(p) == SubjectOf(p, First(p).key, job[p].link)

SubjectsOf(rows) == {a.subject : a \in rows}

\* An insert of p waits for q, which has inserted the same key and not committed.
WaitsFor(p, q) ==
  /\ p # q
  /\ pc[p] = "insert"
  /\ Target(p) \in SubjectsOf(staged[q]) \ SubjectsOf(alerts)

Granted(p) == \A q \in Syncers : ~WaitsFor(p, q)

\* p is on a cycle of transactions that wait for one another.
Deadlocked(p) ==
  \E S \in SUBSET Syncers :
    /\ p \in S
    /\ \A q \in S : (\E r \in S : WaitsFor(q, r)) /\ (\E r \in S : WaitsFor(r, q))

-----------------------------------------------------------------------------
(* Profiles and records change: other transactions commit. *)

SaveProfile(s) ==
  /\ profile[s] < MaxProfile
  /\ profile' = [profile EXCEPT ![s] = @ + 1]
  /\ UNCHANGED <<record, alerts, pc, job, staged>>

IngestRecord(k) ==
  /\ record[k] < MaxRecord
  /\ record' = [record EXCEPT ![k] = @ + 1]
  /\ UNCHANGED <<profile, alerts, pc, job, staged>>

-----------------------------------------------------------------------------
(* A synchronization. *)

\* POST /api/alerts/sync/{slug}
Sync(p) ==
  /\ pc[p] = "idle" /\ p # Worker
  /\ \E i \in DOMAIN SlugList : job' = [job EXCEPT ![p].todo = {i}]
  /\ Goto(p, "profile")
  /\ UNCHANGED <<world, alerts, staged>>

\* sync_all: SELECT the active profiles, in the order of their slugs.
SyncAll(p) ==
  /\ pc[p] = "idle" /\ p = Worker
  /\ LET active == {i \in DOMAIN SlugList : profile[SlugList[i]] > 0} IN
     /\ job' = [job EXCEPT ![p].todo = active]
     /\ Goto(p, IF active = {} THEN "commit" ELSE "profile")
  /\ UNCHANGED <<world, alerts, staged>>

\* "company profile not found": 404.
ProfileMissing(p) ==
  /\ pc[p] = "profile"
  /\ profile[SlugOf(p)] = 0
  /\ Fail(p)

ReadProfile(p) ==
  /\ pc[p] = "profile"
  /\ profile[SlugOf(p)] > 0
  /\ job' = [job EXCEPT ![p].pv = profile[SlugOf(p)]]
  /\ Goto(p, "records")
  /\ UNCHANGED <<world, alerts, staged>>

\* Mutant: whatever was ranked is alerted.
QueueAll(p) == {[key |-> k, snap |-> record[k]] : k \in {k \in Keys : record[k] > 0}}

\* The recommended of the open versions.
Recommended(p) ==
  {[key |-> k, snap |-> record[k]] : k \in
     {k \in Keys : record[k] > 0 /\ Rank[SubjectOf(p, k, record[k])] > 0}}

\* SELECT the open versions, rank them.
ReadRecords(p) ==
  /\ pc[p] = "records"
  /\ job' = [job EXCEPT ![p].queue = Recommended(p)]
  /\ Goto(p, "next")
  /\ UNCHANGED <<world, alerts, staged>>

\* The profile at hand is done.
NextProfile(p) ==
  /\ pc[p] = "next"
  /\ job[p].queue = {}
  /\ job' = [job EXCEPT ![p] = [NoJob EXCEPT !.todo = job[p].todo \ {Foremost(p)}]]
  /\ Goto(p, IF job[p].todo = {Foremost(p)} THEN "commit" ELSE "profile")
  /\ UNCHANGED <<world, alerts, staged>>

\* The record at hand is done.
SkipFirst(p) ==
  /\ job' = [job EXCEPT ![p].queue = @ \ {First(p)}, ![p].link = 0]
  /\ Goto(p, "next")

\* Mutant: one alert for all the versions of a record.
AlertedOnce(p) ==
  \E a \in alerts \cup staged[p] :
    a.subject = SubjectOf(p, First(p).key, a.subject.rv)

\* add_recommendation SELECTs the version that is open now: it is the one to link to.
FindOpen(p) ==
  /\ pc[p] = "next"
  /\ job[p].queue # {}
  /\ job' = [job EXCEPT ![p].link = record[First(p).key]]
  /\ Goto(p, "seek")
  /\ UNCHANGED <<world, alerts, staged>>

\* SELECT the key.
Alerted(p) == Target(p) \in SubjectsOf(alerts \cup staged[p])

\* The alert is there already.
KeepAlert(p) ==
  /\ pc[p] = "seek"
  /\ Alerted(p)
  /\ SkipFirst(p)
  /\ UNCHANGED <<world, alerts, staged>>

MissAlert(p) ==
  /\ pc[p] = "seek"
  /\ ~Alerted(p)
  /\ Goto(p, "insert")
  /\ UNCHANGED <<world, alerts, job, staged>>

\* uuid4: an id nobody has, nor any of burnt.
NewId(burnt) ==
  LET used == burnt \cup {a.id : a \in alerts \cup UNION {staged[q] : q \in Syncers}}
  IN CHOOSE i \in 1..(Cardinality(used) + 1) : i \notin used

Insert(p, id) ==
  /\ staged' = [staged EXCEPT ![p] = @ \cup
                  {[id |-> id, subject |-> Target(p), snap |-> First(p).snap, read |-> FALSE]}]
  /\ SkipFirst(p)
  /\ UNCHANGED <<world, alerts>>

AddAlert(p, id) ==
  /\ pc[p] = "insert"
  /\ Granted(p)
  /\ Target(p) \notin SubjectsOf(alerts)
  /\ Insert(p, id)

\* Mutant: no unique index on the idempotency key.
AlertCollidesAccepted(p) ==
  /\ pc[p] = "insert"
  /\ Target(p) \in SubjectsOf(alerts)
  /\ Insert(p, NewId({}))

\* Somebody committed the same key in between.
AlertCollides(p) ==
  /\ pc[p] = "insert"
  /\ Target(p) \in SubjectsOf(alerts)
  /\ Fail(p)

Commit(p) ==
  /\ pc[p] = "commit"
  /\ alerts' = alerts \cup staged[p]
  /\ Leave(p)
  /\ UNCHANGED world

\* Mutant: marking an alert read renews it from the record's open version.
MarkReadRenewed(a) ==
  /\ alerts' = (alerts \ {a}) \cup {[a EXCEPT !.read = TRUE, !.snap = record[a.subject.key]]}
  /\ UNCHANGED <<world, pc, job, staged>>

\* POST /api/alerts/{id}/read: one blind UPDATE of a row found by its id.
MarkRead(a) ==
  /\ alerts' = (alerts \ {a}) \cup {[a EXCEPT !.read = TRUE]}
  /\ UNCHANGED <<world, pc, job, staged>>

\* PostgreSQL aborts one of the transactions that wait for one another.
AbortDeadlock(p) == Deadlocked(p) /\ Fail(p)

\* A statement fails or the process dies.  A commit whose acknowledgement is
\* lost is a Commit to everybody else.
Abort(p) == pc[p] # "idle" /\ Fail(p)

Begin(p) == Sync(p) \/ SyncAll(p)

\* id: what uuid4 draws next.
Work(p, id) ==
  \/ ProfileMissing(p) \/ ReadProfile(p) \/ ReadRecords(p) \/ NextProfile(p)
  \/ FindOpen(p) \/ KeepAlert(p) \/ MissAlert(p) \/ AddAlert(p, id) \/ AlertCollides(p)
  \/ AbortDeadlock(p)

Change == (\E s \in Slugs : SaveProfile(s)) \/ (\E k \in Keys : IngestRecord(k))

\* Everything but a failure.
Faultless ==
  \/ Change
  \/ \E p \in Syncers : Begin(p) \/ Work(p, NewId({})) \/ Commit(p)
  \/ \E a \in alerts : MarkRead(a)

Next == Faultless \/ \E p \in Syncers : Abort(p)

Spec == Init /\ [][Next]_vars

-----------------------------------------------------------------------------
(* Properties. *)

\* One alert for a profile version and a record version, whoever synchronizes
\* at the same time (the idempotency key of add_recommendation).
OnePerSubject ==
  \A a, b \in alerts : a.subject = b.subject => a = b

\* What an alert shows was recommended for the very profile version it names, though
\* the profile, the records and the open version come from different SELECTs.
AlertsAreJustified ==
  \A a \in alerts : Rank[[a.subject EXCEPT !.rv = a.snap]] > 0

\* A recommendation is bound to the exact version of its record: an alert shows the
\* version it is linked to.  The code does not keep this: a version that is committed
\* after the ranking has read the records is what the alert is linked to.
ShowsItsVersion ==
  \A a \in alerts : a.snap = a.subject.rv

\* The alerts implement the inbox the documents promise: they appear once and
\* for all, several of one synchronization together, and only the read mark
\* ever changes (add_recommendation, mark_read, the transaction of the caller).
Inbox == INSTANCE AlertInbox WITH
  Subjects <- Subject, Snapshots <- Versions,
  inbox <- {[subject |-> a.subject, snapshot |-> a.snap, read |-> a.read] : a \in alerts}

ImplementsInbox == Inbox!Spec

\* What is recommended is alerted: a current record version recommended for a
\* current profile version gets its alert, or one of the two is superseded
\* first (a collision or a deadlock costs a cycle, never an alert).
Current(x) == profile[x.slug] = x.pv /\ record[x.key] = x.rv

NothingMissed ==
  \A x \in Subject :
    (Rank[x] > 0 /\ Current(x)) ~> (x \in SubjectsOf(alerts) \/ ~Current(x))
=============================================================================
