---------------------------- MODULE AlertProofs ----------------------------
(***************************************************************************)
(* What the in-app alerts and the webhook promise, for any number of       *)
(* syncers, profiles, records and attempts.  The first part is about       *)
(* AlertOutbox, whose steps the cycle of WebhookDelivery also takes; the   *)
(* second adds dispatch_pending.                                           *)
(***************************************************************************)
EXTENDS WebhookDelivery, FiniteSetTheorems, TLAPS

Rows(p) == alerts \cup staged[p]

\* Two alerts that the primary key or the idempotency key would keep apart.
Clash(a, b) == a.id = b.id \/ a.subject = b.subject

\* No two alerts clash, committed or staged, of one syncer or of two.
NoClash ==
  /\ \A a, b \in alerts : Clash(a, b) => a = b
  /\ \A p \in Syncers : \A a \in staged[p], b \in alerts : ~Clash(a, b)
  /\ \A p, q \in Syncers : \A a \in staged[p], b \in staged[q] : Clash(a, b) => p = q /\ a = b

\* What is shown was recommended.
Justified(a) == Rank[[a.subject EXCEPT !.rv = a.snap]] > 0

\* The steps that have the ranking at hand.
Ranked == {"next", "seek", "insert"}

\* What a syncer holds of its earlier reads.
JobOK(p) ==
  /\ pc[p] \in {"profile", "records"} \cup Ranked => job[p].todo # {}
  /\ pc[p] \in {"records"} \cup Ranked => job[p].pv > 0
  /\ pc[p] \in {"seek", "insert"} => job[p].queue # {} /\ job[p].link > 0
  /\ pc[p] = "insert" => Target(p) \notin SubjectsOf(staged[p])
  /\ pc[p] \in Ranked =>
       \A r \in job[p].queue :
         r.snap <= record[r.key] /\ Rank[SubjectOf(p, r.key, r.snap)] > 0
  /\ \A a \in staged[p] : ~a.read /\ Justified(a)

Finite ==
  /\ IsFiniteSet(alerts)
  /\ \A p \in Syncers : IsFiniteSet(staged[p]) /\ IsFiniteSet(job[p].queue)

AlertInv ==
  /\ TypeOK /\ Finite /\ NoClash
  /\ AlertsAreJustified
  /\ \A p \in Syncers : JobOK(p)

-----------------------------------------------------------------------------
\* The attempts of an alert in a set of them.
Of(tries, id) == {t \in tries : t.alert = id}

\* A history of attempts: numbered from 1 without gap, within the limit, and all
\* but the last failed and could be repeated.
InOrder(tries) ==
  LET n == Cardinality(tries) IN
  /\ IsFiniteSet(tries)
  /\ n <= MaxAttempts
  /\ {t.number : t \in tries} = 1..n
  /\ \A t, u \in tries : t.number = u.number => t = u
  /\ \A t \in tries : t.number < n => t.status = "failed" /\ t.retryable

HistoriesOK ==
  \A id \in Nat : InOrder(Of(attempts, id)) /\ InOrder(Tried(id))

\* Only the attempt of the request under way is started.
StartedOK ==
  /\ \A t \in attempts : t.status # "started"
  /\ \A t \in trial : t.status = "started" => phase = "post" /\ t.alert = Oldest.alert
  /\ phase = "post" => \E t \in trial : t.status = "started"

\* The worker dispatches between its last insert and its commit.
PhaseOK ==
  /\ phase = "sync" => trial = {} /\ queue = {}
  /\ phase \in {"dispatch", "post"} => pc[Worker] = "commit"
  /\ phase = "post" => queue # {}

\* What is listed, and what was tried, is there in the worker's transaction.
ListedOK ==
  /\ \A a \in queue : \E b \in Rows(Worker) : a.alert = b.id /\ a.subject = b.subject
  /\ \A t \in trial : \E b \in Rows(Worker) : t.alert = b.id
  /\ \A a, b \in queue : a.alert = b.alert => a = b

WebhookInv ==
  /\ AlertInv /\ WebhookTypeOK
  /\ IsFiniteSet(queue) /\ IsFiniteSet(posts)
  /\ HistoriesOK /\ StartedOK /\ PhaseOK /\ ListedOK
  /\ \A t \in attempts : \E a \in alerts : a.id = t.alert

-----------------------------------------------------------------------------
(* Finite sets. *)

\* A finite set that is not empty has a lowest member, by any integer measure.
LEMMA LowestExists ==
  ASSUME NEW Q, IsFiniteSet(Q), Q # {}, NEW f, \A q \in Q : f[q] \in Int
  PROVE  \E r \in Q : \A q \in Q : f[r] <= f[q]
<1> DEFINE below(r) == {q \in Q : f[q] <= f[r]}
           T == {below(r) : r \in Q}
           R == StrictSubsetOrdering(Q)
<1>1. T \subseteq FiniteSubsetsOf(Q) /\ T # {}
  <2>1. \A r \in Q : below(r) \subseteq Q OBVIOUS
  <2> HIDE DEF below
  <2>2. \A r \in Q : IsFiniteSet(below(r)) BY <2>1, FS_Subset
  <2> QED BY <2>1, <2>2 DEF FiniteSubsetsOf
<1>2. IsWellFoundedOn(R, FiniteSubsetsOf(Q)) BY FS_StrictSubsetOrderingWellFounded
<1>3. PICK x \in T : \A y \in T : ~ (<<y, x>> \in R)
  <2> HIDE DEF R, T
  <2> QED BY <1>1, <1>2, WFMin
<1>4. PICK r \in Q : x = below(r) BY <1>3
<1>5. ASSUME NEW q \in Q, f[q] < f[r] PROVE FALSE
  <2>1. r \in below(r) /\ r \notin below(q) BY <1>5
  <2>2. below(q) \subseteq below(r) BY <1>5
  <2>3. below(q) \in T /\ below(q) \in SUBSET Q /\ below(r) \in SUBSET Q OBVIOUS
  <2> HIDE DEF below, T
  <2>4. <<below(q), below(r)>> \in R BY <2>1, <2>2, <2>3 DEF StrictSubsetOrdering
  <2> QED BY <1>3, <1>4, <2>3, <2>4
<1> QED BY <1>5

LEMMA HighestExists ==
  ASSUME NEW Q, IsFiniteSet(Q), Q # {}, NEW f, \A q \in Q : f[q] \in Int
  PROVE  \E r \in Q : \A q \in Q : f[r] >= f[q]
<1> DEFINE g == [q \in Q |-> 0 - f[q]]
<1>1. \A q \in Q : g[q] \in Int OBVIOUS
<1>2. PICK r \in Q : \A q \in Q : g[r] <= g[q]
  <2> HIDE DEF g
  <2> QED BY <1>1, LowestExists
<1> QED BY <1>2

LEMMA FiniteImage ==
  ASSUME NEW S, IsFiniteSet(S), NEW f
  PROVE  IsFiniteSet({f[x] : x \in S})
<1> DEFINE T == {f[x] : x \in S}
           g == [x \in S |-> f[x]]
<1>1. g \in Surjection(S, T) BY DEF Surjection
<1> HIDE DEF g, T
<1>2. IsFiniteSet(T) BY <1>1, FS_Surjection
<1> QED BY <1>2 DEF T

\* An interval that is larger than a finite set has a member outside it.
LEMMA OutsideExists ==
  ASSUME NEW S, IsFiniteSet(S)
  PROVE  \E i \in 1..(Cardinality(S) + 1) : i \notin S
<1>1. Cardinality(S) \in Nat BY FS_CardinalityType
<1> DEFINE n == Cardinality(S) + 1
<1>2. IsFiniteSet(1..n) /\ Cardinality(1..n) = n BY <1>1, FS_Interval
<1>3. ASSUME 1..n \subseteq S PROVE FALSE
  <2>1. Cardinality(1..n) <= Cardinality(S) BY <1>3, FS_Subset
  <2> QED BY <1>1, <1>2, <2>1
<1> QED BY <1>3

-----------------------------------------------------------------------------
(* What a syncer has at hand. *)

LEMMA HandFacts ==
  ASSUME TypeOK, NEW p \in Syncers, job[p].todo # {}
  PROVE  /\ Foremost(p) \in job[p].todo /\ SlugOf(p) \in Slugs
         /\ \A i \in job[p].todo : SlugList[i] \in Slugs
<1>1. /\ job[p].todo \subseteq DOMAIN SlugList /\ DOMAIN SlugList = 1..Len(SlugList)
      /\ Len(SlugList) \in Nat
  BY AlertAssumption DEF TypeOK, Job
<1>2. IsFiniteSet(job[p].todo)
  <2>1. IsFiniteSet(1..Len(SlugList)) BY <1>1, FS_Interval
  <2>2. job[p].todo \subseteq 1..Len(SlugList) BY <1>1
  <2> QED BY <2>1, <2>2, FS_Subset
<1> DEFINE f == [i \in job[p].todo |-> i]
<1>3. \A i \in job[p].todo : f[i] \in Int /\ f[i] = i BY <1>1
<1>4. \E i \in job[p].todo : \A j \in job[p].todo : f[i] <= f[j]
  <2> HIDE DEF f
  <2> QED BY <1>2, <1>3, LowestExists
<1>5. Foremost(p) \in job[p].todo BY <1>3, <1>4 DEF Foremost
<1> QED BY <1>1, <1>5 DEF SlugOf, Slugs

LEMMA SubjectType ==
  ASSUME TypeOK, NEW p \in Syncers, job[p].todo # {}, job[p].pv > 0,
         NEW k \in Keys, NEW v \in Versions
  PROVE  SubjectOf(p, k, v) \in Subject
<1>1. job[p].pv \in 1..MaxProfile BY AlertAssumption DEF TypeOK, Job
<1> QED BY <1>1, HandFacts DEF SubjectOf, Subject

LEMMA FirstFacts ==
  ASSUME AlertInv, NEW p \in Syncers, pc[p] \in Ranked, job[p].queue # {}
  PROVE  /\ First(p) \in job[p].queue /\ First(p).key \in Keys /\ First(p).snap \in Versions
         /\ First(p).snap <= record[First(p).key]
         /\ Rank[SubjectOf(p, First(p).key, First(p).snap)] > 0
<1>1. TypeOK /\ IsFiniteSet(job[p].queue) /\ job[p].todo # {} /\ job[p].pv > 0
  BY DEF AlertInv, Finite, JobOK, Ranked
<1>2. \A r \in job[p].queue : r.key \in Keys /\ r.snap \in Versions
  BY <1>1 DEF TypeOK, Job
<1> DEFINE f == [r \in job[p].queue |-> Rank[SubjectOf(p, r.key, r.snap)]]
<1>3. \A r \in job[p].queue : f[r] \in Int
  BY <1>1, <1>2, SubjectType, AlertAssumption
<1>4. \E r \in job[p].queue : \A s \in job[p].queue : f[r] >= f[s]
  <2> HIDE DEF f
  <2> QED BY <1>1, <1>3, HighestExists
<1>5. First(p) \in job[p].queue BY <1>4 DEF First
<1> QED BY <1>2, <1>5 DEF AlertInv, JobOK

\* What is at hand depends on the profiles left, the version and the queue alone.
LEMMA SlugSame ==
  ASSUME NEW p \in Syncers, job'[p].todo = job[p].todo
  PROVE  Foremost(p)' = Foremost(p) /\ SlugOf(p)' = SlugOf(p)
<1> DEFINE foremost(T) == CHOOSE i \in T : \A j \in T : i <= j
<1>1. Foremost(p) = foremost(job[p].todo) /\ Foremost(p)' = foremost(job'[p].todo)
  BY DEF Foremost
<1> HIDE DEF foremost
<1> QED BY <1>1 DEF SlugOf

LEMMA HandSame ==
  ASSUME NEW p \in Syncers,
         job'[p].todo = job[p].todo, job'[p].pv = job[p].pv, job'[p].queue = job[p].queue
  PROVE  /\ Foremost(p)' = Foremost(p) /\ SlugOf(p)' = SlugOf(p)
         /\ First(p)' = First(p)
<1> DEFINE first(s, v, Q) == CHOOSE r \in Q : \A t \in Q :
             Rank[[slug |-> s, pv |-> v, key |-> r.key, rv |-> r.snap]]
               >= Rank[[slug |-> s, pv |-> v, key |-> t.key, rv |-> t.snap]]
<1>1. Foremost(p)' = Foremost(p) /\ SlugOf(p)' = SlugOf(p) BY SlugSame
<1>2. First(p) = first(SlugOf(p), job[p].pv, job[p].queue)
  BY DEF First, SubjectOf
<1>3. First(p)' = first(SlugOf(p)', job'[p].pv, job'[p].queue)
  BY DEF First, SubjectOf
<1> HIDE DEF first
<1> QED BY <1>1, <1>2, <1>3

\* A syncer that does nothing keeps what it knows while the records go on.
LEMMA JobSame ==
  ASSUME AlertInv, NEW q \in Syncers,
         pc'[q] = pc[q], job'[q] = job[q], staged'[q] = staged[q],
         record' \in [Keys -> 0..MaxRecord], \A k \in Keys : record[k] <= record'[k]
  PROVE  JobOK(q)'
<1>1. SlugOf(q)' = SlugOf(q) /\ First(q)' = First(q) BY HandSame
<1>2. Target(q)' = Target(q) BY <1>1 DEF Target, SubjectOf
<1>3. record \in [Keys -> 0..MaxRecord] /\ JobOK(q) /\ TypeOK BY DEF AlertInv, TypeOK
<1>4. \A r \in job[q].queue : r.key \in Keys /\ r.snap \in Versions BY <1>3 DEF TypeOK, Job
<1>6. ASSUME pc[q] \in Ranked, NEW r \in job[q].queue
      PROVE  r.snap <= record'[r.key] /\ Rank[SubjectOf(q, r.key, r.snap)'] > 0
  <2>1. r.snap <= record[r.key] /\ Rank[SubjectOf(q, r.key, r.snap)] > 0
    BY <1>3, <1>6 DEF JobOK
  <2>2. /\ r.snap \in Int /\ record[r.key] \in Int /\ record'[r.key] \in Int
        /\ record[r.key] <= record'[r.key]
    BY <1>3, <1>4, AlertAssumption DEF Versions
  <2>3. SubjectOf(q, r.key, r.snap)' = SubjectOf(q, r.key, r.snap)
    BY <1>1 DEF SubjectOf
  <2> QED BY <2>1, <2>2, <2>3
<1>7. \A a \in staged'[q] : ~a.read /\ Justified(a) BY <1>3 DEF JobOK
<1> QED BY <1>1, <1>2, <1>3, <1>6, <1>7 DEF JobOK, SubjectsOf, Justified

\* An id nobody has.
Fresh(id) ==
  /\ id \in Nat
  /\ \A a \in alerts : a.id # id
  /\ \A q \in Syncers : \A a \in staged[q] : a.id # id

\* What uuid4 stands for, whatever else it avoids.
LEMMA FreshId ==
  ASSUME AlertInv, NEW burnt, IsFiniteSet(burnt)
  PROVE  Fresh(NewId(burnt))
<1> DEFINE rows == alerts \cup UNION {staged[q] : q \in Syncers}
           ids == {a.id : a \in rows}
           used == burnt \cup ids
<1>1. IsFiniteSet(rows)
  <2>1. IsFiniteSet({staged[q] : q \in Syncers}) BY FiniteImage, AlertAssumption
  <2>2. IsFiniteSet(UNION {staged[q] : q \in Syncers})
    <3>1. \A T \in {staged[q] : q \in Syncers} : IsFiniteSet(T) BY DEF AlertInv, Finite
    <3> QED BY <2>1, <3>1, FS_UNION
  <2>3. IsFiniteSet(alerts) BY DEF AlertInv, Finite
  <2> QED BY <2>2, <2>3, FS_Union
<1>2. IsFiniteSet(ids)
  <2> HIDE DEF rows
  <2> DEFINE f == [a \in rows |-> a.id]
  <2>1. \A a \in rows : f[a] = a.id OBVIOUS
  <2>2. IsFiniteSet({f[a] : a \in rows})
    <3> HIDE DEF f
    <3> QED BY <1>1, FiniteImage
  <2>3. {f[a] : a \in rows} = ids BY <2>1
  <2> QED BY <2>2, <2>3
<1>3. IsFiniteSet(used)
  <2> HIDE DEF ids
  <2> QED BY <1>2, FS_Union
<1>4. NewId(burnt) \in 1..(Cardinality(used) + 1) /\ NewId(burnt) \notin used
  <2>1. NewId(burnt) = CHOOSE i \in 1..(Cardinality(used) + 1) : i \notin used BY DEF NewId
  <2> HIDE DEF used
  <2>2. \E i \in 1..(Cardinality(used) + 1) : i \notin used BY <1>3, OutsideExists
  <2> QED BY <2>1, <2>2
<1>5. NewId(burnt) \in Nat
  <2> HIDE DEF used
  <2>1. Cardinality(used) \in Nat BY <1>3, FS_CardinalityType
  <2> QED BY <1>4, <2>1
<1>6. NewId(burnt) \notin {a.id : a \in alerts \cup UNION {staged[q] : q \in Syncers}}
  BY <1>4
<1> QED BY <1>5, <1>6 DEF Fresh

-----------------------------------------------------------------------------
(* The invariant, step by step. *)

\* A syncer reads, or turns to its next record or profile.
LEMMA QuietStep ==
  ASSUME AlertInv, NEW p \in Syncers, UNCHANGED <<world, alerts, staged>>,
         NEW j \in Job, IsFiniteSet(j.queue), NEW step \in Steps,
         job' = [job EXCEPT ![p] = j], Goto(p, step), JobOK(p)'
  PROVE  AlertInv'
<1>1. TypeOK /\ Finite /\ NoClash /\ AlertsAreJustified BY DEF AlertInv
<1>2. TypeOK' BY <1>1 DEF TypeOK, world, Goto
<1>3. Finite' BY <1>1 DEF Finite, TypeOK
<1>4. NoClash' BY <1>1 DEF NoClash
<1>5. AlertsAreJustified' BY <1>1 DEF AlertsAreJustified
<1>6. ASSUME NEW q \in Syncers PROVE JobOK(q)'
  <2>1. CASE q = p BY <2>1
  <2>2. CASE q # p
    <3>1. pc'[q] = pc[q] /\ job'[q] = job[q] /\ staged'[q] = staged[q]
      BY <1>1, <2>2 DEF TypeOK, Goto
    <3>2. /\ record' \in [Keys -> 0..MaxRecord]
          /\ \A k \in Keys : record[k] <= record'[k]
      BY <1>1, AlertAssumption DEF TypeOK, world
    <3> QED BY <3>1, <3>2, JobSame
  <2> QED BY <2>1, <2>2
<1> QED BY <1>2, <1>3, <1>4, <1>5, <1>6 DEF AlertInv

LEMMA ChangeStep ==
  ASSUME AlertInv, Change
  PROVE  AlertInv'
<1>1. TypeOK /\ Finite /\ NoClash /\ AlertsAreJustified BY DEF AlertInv
<1>2. UNCHANGED <<alerts, pc, job, staged>> BY DEF Change, SaveProfile, IngestRecord
<1>3. /\ profile' \in [Slugs -> 0..MaxProfile] /\ record' \in [Keys -> 0..MaxRecord]
      /\ \A k \in Keys : record[k] <= record'[k]
  <2>1. CASE \E s \in Slugs : SaveProfile(s)
    BY <1>1, <2>1, AlertAssumption DEF TypeOK, SaveProfile
  <2>2. CASE \E k \in Keys : IngestRecord(k)
    BY <1>1, <2>2, AlertAssumption DEF TypeOK, IngestRecord
  <2> QED BY <2>1, <2>2 DEF Change
<1>4. TypeOK' BY <1>1, <1>2, <1>3 DEF TypeOK
<1>5. Finite' /\ NoClash' /\ AlertsAreJustified'
  BY <1>1, <1>2 DEF Finite, NoClash, AlertsAreJustified
<1>6. \A q \in Syncers : JobOK(q)' BY <1>2, <1>3, JobSame
<1> QED BY <1>4, <1>5, <1>6 DEF AlertInv

LEMMA BeginStep ==
  ASSUME AlertInv, NEW p \in Syncers, Begin(p)
  PROVE  AlertInv'
<1>1. TypeOK /\ JobOK(p) /\ Finite BY DEF AlertInv
<1>2. PICK T \in SUBSET DOMAIN SlugList, step \in {"profile", "commit"} :
        /\ job' = [job EXCEPT ![p] = [job[p] EXCEPT !.todo = T]] /\ Goto(p, step)
        /\ step = "profile" => T # {}
        /\ UNCHANGED <<world, alerts, staged>>
  <2>1. CASE Sync(p)
    <3>1. PICK i \in DOMAIN SlugList : job' = [job EXCEPT ![p].todo = {i}]
      BY <2>1 DEF Sync
    <3>2. {i} \in SUBSET DOMAIN SlugList /\ {i} # {} BY <3>1
    <3>3. job' = [job EXCEPT ![p] = [job[p] EXCEPT !.todo = {i}]] BY <3>1
    <3> QED BY <2>1, <3>2, <3>3 DEF Sync
  <2>2. CASE SyncAll(p)
    <3> DEFINE active == {i \in DOMAIN SlugList : profile[SlugList[i]] > 0}
    <3>1. active \in SUBSET DOMAIN SlugList OBVIOUS
    <3>2. /\ job' = [job EXCEPT ![p] = [job[p] EXCEPT !.todo = active]]
          /\ Goto(p, IF active = {} THEN "commit" ELSE "profile")
          /\ UNCHANGED <<world, alerts, staged>>
      BY <2>2 DEF SyncAll
    <3> HIDE DEF active
    <3> QED BY <3>1, <3>2
  <2> QED BY <2>1, <2>2 DEF Begin
<1> DEFINE j == [job[p] EXCEPT !.todo = T]
<1>3. j \in Job /\ j.queue = job[p].queue /\ j.todo = T BY <1>1 DEF TypeOK, Job
<1>4. IsFiniteSet(j.queue) BY <1>1, <1>3 DEF Finite
<1>5. job'[p] = j /\ pc'[p] = step /\ staged' = staged
  BY <1>1, <1>2 DEF TypeOK, Goto
<1>6. JobOK(p)'
  <2> HIDE DEF j
  <2>1. \A a \in staged'[p] : ~a.read /\ Justified(a) BY <1>1, <1>5 DEF JobOK
  <2>2. pc'[p] = "profile" => job'[p].todo # {} BY <1>2, <1>3, <1>5
  <2> QED BY <1>2, <1>5, <2>1, <2>2 DEF JobOK, Justified, Ranked
<1> QED BY <1>2, <1>3, <1>4, <1>6, QuietStep DEF Steps

LEMMA ReadProfileStep ==
  ASSUME AlertInv, NEW p \in Syncers, ReadProfile(p)
  PROVE  AlertInv'
<1>1. TypeOK /\ JobOK(p) /\ Finite /\ pc[p] = "profile" BY DEF AlertInv, ReadProfile
<1>2. SlugOf(p) \in Slugs BY <1>1, HandFacts DEF JobOK
<1> DEFINE j == [job[p] EXCEPT !.pv = profile[SlugOf(p)]]
<1>3. profile[SlugOf(p)] \in 0..MaxProfile BY <1>1, <1>2 DEF TypeOK
<1>4. /\ j \in Job /\ j.queue = job[p].queue /\ j.todo = job[p].todo
      /\ j.pv = profile[SlugOf(p)]
  BY <1>1, <1>3 DEF TypeOK, Job
<1>5. job' = [job EXCEPT ![p] = j] BY DEF ReadProfile
<1> HIDE DEF j
<1>6. IsFiniteSet(j.queue) BY <1>1, <1>4 DEF Finite
<1>7. job'[p] = j /\ pc'[p] = "records" /\ staged' = staged
  BY <1>1, <1>5 DEF TypeOK, ReadProfile, Goto
<1>8. JobOK(p)'
  <2>1. \A a \in staged'[p] : ~a.read /\ Justified(a) BY <1>1, <1>7 DEF JobOK
  <2>2. job'[p].todo # {} /\ job'[p].pv > 0 BY <1>1, <1>4, <1>7 DEF JobOK, ReadProfile
  <2> QED BY <1>7, <2>1, <2>2 DEF JobOK, Justified, Ranked
<1> QED BY <1>4, <1>5, <1>6, <1>8, QuietStep DEF ReadProfile, Steps

LEMMA ReadRecordsStep ==
  ASSUME AlertInv, NEW p \in Syncers, ReadRecords(p)
  PROVE  AlertInv'
<1>1. TypeOK /\ JobOK(p) /\ pc[p] = "records" BY DEF AlertInv, ReadRecords
<1>2. job[p].todo # {} /\ job[p].pv > 0 BY <1>1 DEF JobOK
<1>3. PICK Q : Q = Recommended(p) OBVIOUS
<1>4. \A r \in Q : /\ r \in [key : Keys, snap : Versions]
                   /\ r.snap = record[r.key]
                   /\ Rank[SubjectOf(p, r.key, r.snap)] > 0
  <2> SUFFICES ASSUME NEW k \in Keys, record[k] > 0
               PROVE  record[k] \in Versions
    BY <1>3 DEF Recommended
  <2> QED BY <1>1, AlertAssumption DEF TypeOK, Versions
<1>5. IsFiniteSet(Q)
  <2> DEFINE f == [k \in Keys |-> [key |-> k, snap |-> record[k]]]
  <2>1. \A r \in Q : r \in {f[k] : k \in Keys} BY <1>3 DEF Recommended
  <2> HIDE DEF f
  <2>2. IsFiniteSet({f[k] : k \in Keys}) BY AlertAssumption, FiniteImage
  <2>3. Q \in SUBSET {f[k] : k \in Keys} BY <2>1
  <2> QED BY <2>2, <2>3, FS_Subset
<1>6. PICK j : j = [job[p] EXCEPT !.queue = Q] OBVIOUS
<1>7. Q \in SUBSET [key : Keys, snap : Versions] BY <1>4
<1>8. /\ j \in Job /\ j.queue = Q /\ j.todo = job[p].todo /\ j.pv = job[p].pv
  BY <1>1, <1>6, <1>7 DEF TypeOK, Job
<1>9. job' = [job EXCEPT ![p] = j] BY <1>3, <1>6 DEF ReadRecords
<1>10. /\ job'[p] = j /\ pc'[p] = "next" /\ staged' = staged /\ record' = record
  BY <1>1, <1>9 DEF TypeOK, ReadRecords, Goto, world
<1>11. JobOK(p)'
  <2>1. \A a \in staged'[p] : ~a.read /\ Justified(a) BY <1>1, <1>10 DEF JobOK
  <2>2. job'[p].todo # {} /\ job'[p].pv > 0 BY <1>2, <1>8, <1>10
  <2>3. SlugOf(p)' = SlugOf(p) BY <1>8, <1>10, SlugSame
  <2>4. \A r \in Q : SubjectOf(p, r.key, r.snap)' = SubjectOf(p, r.key, r.snap)
    BY <1>8, <1>10, <2>3 DEF SubjectOf
  <2>5. \A r \in job'[p].queue : r.snap <= record'[r.key]
    BY <1>1, <1>4, <1>8, <1>10, AlertAssumption DEF TypeOK, Versions
  <2>6. \A r \in job'[p].queue : Rank[SubjectOf(p, r.key, r.snap)'] > 0
    BY <1>4, <1>8, <1>10, <2>4
  <2> QED BY <1>10, <2>1, <2>2, <2>5, <2>6 DEF JobOK, Justified
<1> QED BY <1>5, <1>8, <1>9, <1>11, QuietStep DEF ReadRecords, Steps

LEMMA NextProfileStep ==
  ASSUME AlertInv, NEW p \in Syncers, NextProfile(p)
  PROVE  AlertInv'
<1>1. TypeOK /\ JobOK(p) /\ pc[p] = "next" BY DEF AlertInv, NextProfile
<1>2. Foremost(p) \in job[p].todo BY <1>1, HandFacts DEF JobOK, Ranked
<1>3. PICK T : T = job[p].todo \ {Foremost(p)} OBVIOUS
<1>4. PICK j : j = [NoJob EXCEPT !.todo = T] OBVIOUS
<1>5. T \in SUBSET DOMAIN SlugList BY <1>1, <1>3 DEF TypeOK, Job
<1>6. j \in Job /\ j.queue = {} /\ j.todo = T
  BY <1>4, <1>5, AlertAssumption DEF Job, NoJob
<1>7. job' = [job EXCEPT ![p] = j] BY <1>3, <1>4 DEF NextProfile
<1>8. PICK step \in {"commit", "profile"} :
        /\ Goto(p, step)
        /\ step = "profile" => T # {}
  BY <1>2, <1>3 DEF NextProfile
<1>9. /\ job'[p] = j /\ pc'[p] = step /\ staged' = staged
      /\ UNCHANGED <<world, alerts, staged>>
  BY <1>1, <1>7, <1>8 DEF TypeOK, NextProfile, Goto
<1>10. JobOK(p)'
  <2>1. \A a \in staged'[p] : ~a.read /\ Justified(a) BY <1>1, <1>9 DEF JobOK
  <2>2. pc'[p] = "profile" => job'[p].todo # {} BY <1>6, <1>8, <1>9
  <2> QED BY <1>8, <1>9, <2>1, <2>2 DEF JobOK, Justified, Ranked
<1>11. IsFiniteSet(j.queue) BY <1>6, FS_EmptySet
<1> QED BY <1>6, <1>7, <1>8, <1>9, <1>10, <1>11, QuietStep DEF Steps

\* The job of a syncer that has done the record at hand.
LEMMA SkipFacts ==
  ASSUME AlertInv, NEW p \in Syncers, pc[p] \in Ranked,
         SkipFirst(p), record' = record
  PROVE  \E j \in Job : /\ job' = [job EXCEPT ![p] = j] /\ IsFiniteSet(j.queue)
                        /\ (\A a \in staged'[p] : ~a.read /\ Justified(a)) => JobOK(p)'
<1>1. TypeOK /\ JobOK(p) /\ Finite BY DEF AlertInv
<1>2. PICK Q : Q = job[p].queue \ {First(p)} OBVIOUS
<1>3. PICK j : j = [job[p] EXCEPT !.queue = Q, !.link = 0] OBVIOUS
<1>4. Q \in SUBSET job[p].queue /\ Q \in SUBSET [key : Keys, snap : Versions]
  BY <1>1, <1>2 DEF TypeOK, Job
<1>5. /\ j \in Job /\ j.queue = Q /\ j.todo = job[p].todo /\ j.pv = job[p].pv
  <2>1. job[p] \in Job /\ 0 \in 0..MaxRecord BY <1>1, AlertAssumption DEF TypeOK
  <2> QED BY <1>3, <1>4, <2>1 DEF Job
<1>6. IsFiniteSet(j.queue)
  <2>1. IsFiniteSet(job[p].queue) BY <1>1 DEF Finite
  <2> QED BY <1>4, <1>5, <2>1, FS_Subset
<1>7. job' = [job EXCEPT ![p] = j] BY <1>2, <1>3 DEF SkipFirst
<1>8. job'[p] = j /\ pc'[p] = "next" BY <1>1, <1>7 DEF TypeOK, SkipFirst, Goto
<1>9. SlugOf(p)' = SlugOf(p) BY <1>5, <1>8, SlugSame
<1>10. \A r \in job'[p].queue :
         r.snap <= record'[r.key] /\ Rank[SubjectOf(p, r.key, r.snap)'] > 0
  <2>1. \A r \in Q : r.snap <= record[r.key] /\ Rank[SubjectOf(p, r.key, r.snap)] > 0
    BY <1>1, <1>4 DEF JobOK
  <2>2. \A r \in Q : SubjectOf(p, r.key, r.snap)' = SubjectOf(p, r.key, r.snap)
    BY <1>5, <1>8, <1>9 DEF SubjectOf
  <2> QED BY <1>5, <1>8, <2>1, <2>2
<1>11. job'[p].todo # {} /\ job'[p].pv > 0 BY <1>1, <1>5, <1>8 DEF JobOK
<1>12. (\A a \in staged'[p] : ~a.read /\ Justified(a)) => JobOK(p)'
  BY <1>8, <1>10, <1>11 DEF JobOK, Justified
<1> QED BY <1>5, <1>6, <1>7, <1>12

LEMMA KeepAlertStep ==
  ASSUME AlertInv, NEW p \in Syncers, KeepAlert(p)
  PROVE  AlertInv'
<1>1. /\ pc[p] \in Ranked /\ SkipFirst(p) /\ UNCHANGED <<world, alerts, staged>>
      /\ record' = record
  BY DEF KeepAlert, world, Ranked
<1>2. PICK j \in Job : /\ job' = [job EXCEPT ![p] = j] /\ IsFiniteSet(j.queue)
                       /\ (\A a \in staged'[p] : ~a.read /\ Justified(a)) => JobOK(p)'
  BY <1>1, SkipFacts
<1>3. \A a \in staged'[p] : ~a.read /\ Justified(a) BY <1>1 DEF AlertInv, JobOK
<1> QED BY <1>1, <1>2, <1>3, QuietStep DEF SkipFirst, Steps

LEMMA FindOpenStep ==
  ASSUME AlertInv, NEW p \in Syncers, FindOpen(p)
  PROVE  AlertInv'
<1>1. /\ pc[p] = "next" /\ job[p].queue # {} /\ TypeOK /\ JobOK(p) /\ Finite
      /\ UNCHANGED <<world, alerts, staged>>
      /\ record' = record /\ staged' = staged
  BY DEF AlertInv, FindOpen, world
<1>2. /\ First(p) \in job[p].queue /\ First(p).key \in Keys /\ First(p).snap \in Versions
      /\ First(p).snap <= record[First(p).key]
  BY <1>1, FirstFacts DEF Ranked
<1>3. PICK v : v = record[First(p).key] OBVIOUS
<1>4. v \in 0..MaxRecord BY <1>1, <1>2, <1>3 DEF TypeOK
<1>5. PICK j : j = [job[p] EXCEPT !.link = v] OBVIOUS
<1>6. /\ j \in Job /\ j.queue = job[p].queue /\ j.todo = job[p].todo /\ j.pv = job[p].pv
      /\ j.link = v
  BY <1>1, <1>4, <1>5 DEF TypeOK, Job
<1>7. job' = [job EXCEPT ![p] = j] BY <1>3, <1>5 DEF FindOpen
<1>8. job'[p] = j /\ pc'[p] = "seek" BY <1>1, <1>7 DEF TypeOK, FindOpen, Goto
<1>9. SlugOf(p)' = SlugOf(p) /\ First(p)' = First(p) BY <1>6, <1>8, HandSame
<1>10. \A r \in job'[p].queue :
         r.snap <= record'[r.key] /\ Rank[SubjectOf(p, r.key, r.snap)'] > 0
  <2>1. \A r \in job[p].queue : r.snap <= record[r.key] /\ Rank[SubjectOf(p, r.key, r.snap)] > 0
    BY <1>1 DEF JobOK, Ranked
  <2>2. \A r \in job[p].queue : SubjectOf(p, r.key, r.snap)' = SubjectOf(p, r.key, r.snap)
    BY <1>6, <1>8, <1>9 DEF SubjectOf
  <2> QED BY <1>1, <1>6, <1>8, <2>1, <2>2
<1>11. job'[p].todo # {} /\ job'[p].pv > 0 BY <1>1, <1>6, <1>8 DEF JobOK, Ranked
<1>12. job'[p].link > 0
  BY <1>1, <1>2, <1>3, <1>4, <1>6, <1>8, AlertAssumption DEF Versions
<1>13. \A a \in staged'[p] : ~a.read /\ Justified(a) BY <1>1 DEF JobOK
<1>14. JobOK(p)'
  BY <1>1, <1>6, <1>8, <1>10, <1>11, <1>12, <1>13 DEF JobOK, Justified, Ranked
<1>15. IsFiniteSet(j.queue) BY <1>1, <1>6 DEF Finite
<1> QED BY <1>1, <1>6, <1>7, <1>14, <1>15, QuietStep DEF FindOpen, Steps

LEMMA MissAlertStep ==
  ASSUME AlertInv, NEW p \in Syncers, MissAlert(p)
  PROVE  AlertInv'
<1>1. /\ pc[p] = "seek" /\ TypeOK /\ JobOK(p) /\ Finite /\ ~Alerted(p)
      /\ UNCHANGED <<world, alerts, job, staged>>
      /\ record' = record /\ staged' = staged /\ job' = job
  BY DEF AlertInv, MissAlert, world
<1>2. job[p] \in Job /\ job' = [job EXCEPT ![p] = job[p]] /\ IsFiniteSet(job[p].queue)
  BY <1>1 DEF TypeOK, Finite
<1>3. pc'[p] = "insert" BY <1>1 DEF TypeOK, MissAlert, Goto
<1>4. SlugOf(p)' = SlugOf(p) /\ First(p)' = First(p) BY <1>1, HandSame
<1>5. Target(p)' = Target(p) BY <1>1, <1>4 DEF Target, SubjectOf
<1>6. Target(p)' \notin SubjectsOf(staged'[p]) BY <1>1, <1>5 DEF Alerted, SubjectsOf
<1>7. \A r \in job[p].queue : SubjectOf(p, r.key, r.snap)' = SubjectOf(p, r.key, r.snap)
  BY <1>1, <1>4 DEF SubjectOf
<1>8. JobOK(p)' BY <1>1, <1>3, <1>4, <1>6, <1>7 DEF JobOK, Justified, Ranked, SubjectsOf
<1> QED BY <1>1, <1>2, <1>8, QuietStep DEF MissAlert, Steps

\* A transaction ends without a trace.
LEMMA FailStep ==
  ASSUME AlertInv, NEW p \in Syncers, Fail(p)
  PROVE  AlertInv'
<1>1. TypeOK /\ Finite /\ NoClash /\ AlertsAreJustified BY DEF AlertInv
<1>2. /\ pc' = [pc EXCEPT ![p] = "idle"] /\ job' = [job EXCEPT ![p] = NoJob]
      /\ staged' = [staged EXCEPT ![p] = {}] /\ alerts' = alerts
      /\ profile' = profile /\ record' = record
  BY DEF Fail, Leave, Goto, world
<1>3. NoJob \in Job /\ NoJob.queue = {} BY AlertAssumption DEF NoJob, Job
<1>4. TypeOK' BY <1>1, <1>2, <1>3 DEF TypeOK, Steps
<1>5. pc'[p] = "idle" /\ job'[p].queue = {} /\ staged'[p] = {}
  BY <1>1, <1>2, <1>3 DEF TypeOK
<1>6. \A q \in Syncers \ {p} : pc'[q] = pc[q] /\ job'[q] = job[q] /\ staged'[q] = staged[q]
  BY <1>1, <1>2 DEF TypeOK
<1>7. Finite' BY <1>1, <1>2, <1>5, <1>6, FS_EmptySet DEF Finite
<1>8. NoClash'
  <2>1. \A q \in Syncers : staged'[q] \subseteq staged[q] BY <1>5, <1>6
  <2> QED BY <1>1, <1>2, <2>1 DEF NoClash
<1>9. AlertsAreJustified' BY <1>1, <1>2 DEF AlertsAreJustified
<1>10. ASSUME NEW q \in Syncers PROVE JobOK(q)'
  <2>1. CASE q = p BY <1>5, <2>1 DEF JobOK, Ranked
  <2>2. CASE q # p
    <3>1. /\ record' \in [Keys -> 0..MaxRecord]
          /\ \A k \in Keys : record[k] <= record'[k]
      BY <1>1, <1>2, AlertAssumption DEF TypeOK
    <3> QED BY <1>6, <2>2, <3>1, JobSame
  <2> QED BY <2>1, <2>2
<1> QED BY <1>4, <1>7, <1>8, <1>9, <1>10 DEF AlertInv

\* The rows of one syncer among those of the others.
LEMMA CommitStep ==
  ASSUME AlertInv, NEW p \in Syncers, Commit(p)
  PROVE  AlertInv'
<1>1. TypeOK /\ Finite /\ NoClash /\ AlertsAreJustified /\ JobOK(p) BY DEF AlertInv
<1>2. /\ pc' = [pc EXCEPT ![p] = "idle"] /\ job' = [job EXCEPT ![p] = NoJob]
      /\ staged' = [staged EXCEPT ![p] = {}] /\ alerts' = alerts \cup staged[p]
      /\ profile' = profile /\ record' = record
  BY DEF Commit, Leave, Goto, world
<1>3. NoJob \in Job /\ NoJob.queue = {} BY AlertAssumption DEF NoJob, Job
<1>4. TypeOK' BY <1>1, <1>2, <1>3 DEF TypeOK, Steps
<1>5. pc'[p] = "idle" /\ job'[p].queue = {} /\ staged'[p] = {}
  BY <1>1, <1>2, <1>3 DEF TypeOK
<1>6. \A q \in Syncers \ {p} : pc'[q] = pc[q] /\ job'[q] = job[q] /\ staged'[q] = staged[q]
  BY <1>1, <1>2 DEF TypeOK
<1>7. Finite'
  <2>1. IsFiniteSet(alerts') BY <1>1, <1>2, FS_Union DEF Finite
  <2> QED BY <1>1, <1>5, <1>6, <2>1, FS_EmptySet DEF Finite
<1>8. NoClash'
  <2>1. \A a, b : Clash(a, b) <=> Clash(b, a) BY DEF Clash
  <2>2. \A a, b \in alerts' : Clash(a, b) => a = b BY <1>1, <1>2, <2>1 DEF NoClash
  <2>3. \A q \in Syncers : \A a \in staged'[q], b \in alerts' : ~Clash(a, b)
    <3> SUFFICES ASSUME NEW q \in Syncers, NEW a \in staged'[q], NEW b \in alerts'
                 PROVE  ~Clash(a, b)
      OBVIOUS
    <3>1. q # p /\ a \in staged[q] BY <1>5, <1>6
    <3> QED BY <1>1, <1>2, <3>1 DEF NoClash
  <2>4. \A q \in Syncers : staged'[q] \subseteq staged[q] BY <1>5, <1>6
  <2> QED BY <1>1, <2>2, <2>3, <2>4 DEF NoClash
<1>9. AlertsAreJustified'
  BY <1>1, <1>2 DEF AlertsAreJustified, JobOK, Justified
<1>10. ASSUME NEW q \in Syncers PROVE JobOK(q)'
  <2>1. CASE q = p BY <1>5, <2>1 DEF JobOK, Ranked
  <2>2. CASE q # p
    <3>1. /\ record' \in [Keys -> 0..MaxRecord]
          /\ \A k \in Keys : record[k] <= record'[k]
      BY <1>1, <1>2, AlertAssumption DEF TypeOK
    <3> QED BY <1>6, <2>2, <3>1, JobSame
  <2> QED BY <2>1, <2>2
<1> QED BY <1>4, <1>7, <1>8, <1>9, <1>10 DEF AlertInv

\* The row that is inserted clashes with none: its id is fresh, its subject was not
\* committed, nobody else holds it back, and the syncer itself has not staged it.
LEMMA AddAlertStep ==
  ASSUME AlertInv, NEW p \in Syncers, NEW id, Fresh(id), AddAlert(p, id)
  PROVE  AlertInv'
<1>1. TypeOK /\ Finite /\ NoClash /\ AlertsAreJustified /\ JobOK(p) BY DEF AlertInv
<1>2. /\ pc[p] = "insert" /\ Granted(p) /\ Target(p) \notin SubjectsOf(alerts)
      /\ SkipFirst(p) /\ profile' = profile /\ record' = record /\ alerts' = alerts
  BY DEF AddAlert, Insert, world
<1>3. PICK new : new = [id |-> id, subject |-> Target(p), snap |-> First(p).snap, read |-> FALSE]
  OBVIOUS
<1>4. staged' = [staged EXCEPT ![p] = @ \cup {new}] BY <1>3 DEF AddAlert, Insert
<1>5. /\ First(p).key \in Keys /\ First(p).snap \in Versions
      /\ Rank[SubjectOf(p, First(p).key, First(p).snap)] > 0
      /\ job[p].link \in Versions
  <2>1. job[p].queue # {} /\ job[p].link > 0 BY <1>1, <1>2 DEF JobOK
  <2>2. job[p].link \in 0..MaxRecord BY <1>1 DEF TypeOK, Job
  <2>3. First(p).key \in Keys /\ First(p).snap \in Versions
    BY <1>2, <2>1, FirstFacts DEF Ranked
  <2>4. job[p].link \in Versions BY <2>1, <2>2, AlertAssumption DEF Versions
  <2> QED BY <1>2, <2>1, <2>3, <2>4, FirstFacts DEF Ranked
<1>6. Target(p) \in Subject
  BY <1>1, <1>2, <1>5, SubjectType DEF Target, JobOK, Ranked
<1>7. new \in Alert BY <1>3, <1>5, <1>6 DEF Alert, Fresh
<1>8. ~new.read /\ Justified(new)
  <2>1. [new.subject EXCEPT !.rv = new.snap] = SubjectOf(p, First(p).key, First(p).snap)
    BY <1>3 DEF Target, SubjectOf
  <2> QED BY <1>3, <1>5, <2>1 DEF Justified
<1>9. PICK j \in Job : /\ job' = [job EXCEPT ![p] = j] /\ IsFiniteSet(j.queue)
                       /\ (\A a \in staged'[p] : ~a.read /\ Justified(a)) => JobOK(p)'
  BY <1>2, SkipFacts DEF Ranked
<1>10. pc' = [pc EXCEPT ![p] = "next"] BY <1>2 DEF SkipFirst, Goto
<1>11. TypeOK' BY <1>1, <1>2, <1>4, <1>7, <1>9, <1>10 DEF TypeOK, Steps
<1>12. staged'[p] = staged[p] \cup {new} /\ job'[p] = j BY <1>1, <1>4, <1>9 DEF TypeOK
<1>13. \A q \in Syncers \ {p} : pc'[q] = pc[q] /\ job'[q] = job[q] /\ staged'[q] = staged[q]
  BY <1>1, <1>4, <1>9, <1>10 DEF TypeOK
<1>14. Finite'
  <2>1. IsFiniteSet(staged'[p]) BY <1>1, <1>12, FS_AddElement DEF Finite
  <2> QED BY <1>1, <1>2, <1>9, <1>12, <1>13, <2>1 DEF Finite
<1>15. NoClash'
  <2>1. \A a \in alerts : ~Clash(new, a) /\ ~Clash(a, new)
    BY <1>2, <1>3 DEF Clash, Fresh, SubjectsOf
  <2>2. \A q \in Syncers : \A a \in staged[q] : ~Clash(new, a) /\ ~Clash(a, new)
    <3> SUFFICES ASSUME NEW q \in Syncers, NEW a \in staged[q]
                 PROVE  new.id # a.id /\ new.subject # a.subject
      BY DEF Clash
    <3>1. new.id # a.id BY <1>3 DEF Fresh
    <3>2. CASE q = p BY <1>1, <1>2, <1>3, <3>1, <3>2 DEF JobOK, SubjectsOf
    <3>3. CASE q # p
      <4>1. ~WaitsFor(p, q) BY <1>2 DEF Granted
      <4>2. Target(p) \notin SubjectsOf(staged[q]) BY <1>2, <3>3, <4>1 DEF WaitsFor
      <4> QED BY <1>3, <3>1, <4>2 DEF SubjectsOf
    <3> QED BY <3>2, <3>3
  <2>3. \A q \in Syncers : \A a \in staged'[q] : a \in staged[q] \/ (q = p /\ a = new)
    BY <1>12, <1>13
  <2>4. \A q \in Syncers : \A a \in staged'[q], b \in alerts' : ~Clash(a, b)
    BY <1>1, <1>2, <2>1, <2>3 DEF NoClash
  <2>5. ASSUME NEW q \in Syncers, NEW r \in Syncers, NEW a \in staged'[q], NEW b \in staged'[r],
               Clash(a, b)
        PROVE  q = r /\ a = b
    BY <1>1, <2>2, <2>3, <2>5 DEF NoClash
  <2> QED BY <1>1, <1>2, <2>4, <2>5 DEF NoClash
<1>16. AlertsAreJustified' BY <1>1, <1>2 DEF AlertsAreJustified
<1>17. ASSUME NEW q \in Syncers PROVE JobOK(q)'
  <2>1. CASE q = p
    <3>1. \A a \in staged'[p] : ~a.read /\ Justified(a) BY <1>1, <1>8, <1>12 DEF JobOK
    <3> QED BY <1>9, <2>1, <3>1
  <2>2. CASE q # p
    <3>1. /\ record' \in [Keys -> 0..MaxRecord]
          /\ \A k \in Keys : record[k] <= record'[k]
      BY <1>1, <1>2, AlertAssumption DEF TypeOK
    <3> QED BY <1>13, <2>2, <3>1, JobSame
  <2> QED BY <2>1, <2>2
<1> QED BY <1>11, <1>14, <1>15, <1>16, <1>17 DEF AlertInv

LEMMA MarkReadStep ==
  ASSUME AlertInv, NEW a \in alerts, MarkRead(a)
  PROVE  AlertInv'
<1>1. TypeOK /\ Finite /\ NoClash /\ AlertsAreJustified BY DEF AlertInv
<1>2. PICK new : new = [a EXCEPT !.read = TRUE] OBVIOUS
<1>3. alerts' = (alerts \ {a}) \cup {new} BY <1>2 DEF MarkRead
<1>4. UNCHANGED <<profile, record, pc, job, staged>> BY DEF MarkRead, world
<1>5. a \in Alert BY <1>1 DEF TypeOK
<1>6. new \in Alert /\ new.id = a.id /\ new.subject = a.subject /\ new.snap = a.snap
  BY <1>2, <1>5 DEF Alert
<1>7. TypeOK' BY <1>1, <1>3, <1>4, <1>6 DEF TypeOK
<1>8. Finite'
  <2>1. IsFiniteSet(alerts \ {a}) BY <1>1, FS_RemoveElement DEF Finite
  <2>2. IsFiniteSet(alerts') BY <1>3, <2>1, FS_AddElement
  <2> QED BY <1>1, <1>4, <2>2 DEF Finite
<1>9. NoClash'
  <2>1. \A b : (Clash(new, b) <=> Clash(a, b)) /\ (Clash(b, new) <=> Clash(b, a))
    BY <1>6 DEF Clash
  <2>2. \A b, c \in alerts' : Clash(b, c) => b = c BY <1>1, <1>3, <2>1 DEF NoClash
  <2>3. \A q \in Syncers : \A b \in staged'[q], c \in alerts' : ~Clash(b, c)
    BY <1>1, <1>3, <1>4, <2>1 DEF NoClash
  <2> QED BY <1>1, <1>4, <2>2, <2>3 DEF NoClash
<1>10. AlertsAreJustified' BY <1>1, <1>3, <1>6 DEF AlertsAreJustified
<1>11. \A q \in Syncers : JobOK(q)'
  <2>1. /\ record' \in [Keys -> 0..MaxRecord]
        /\ \A k \in Keys : record[k] <= record'[k]
    BY <1>1, <1>4, AlertAssumption DEF TypeOK
  <2> QED BY <1>4, <2>1, JobSame
<1> QED BY <1>7, <1>8, <1>9, <1>10, <1>11 DEF AlertInv

LEMMA WorkStep ==
  ASSUME AlertInv, NEW p \in Syncers, NEW id, Fresh(id), Work(p, id)
  PROVE  AlertInv'
<1>1. CASE ProfileMissing(p) BY <1>1, FailStep DEF ProfileMissing
<1>2. CASE ReadProfile(p) BY <1>2, ReadProfileStep
<1>3. CASE ReadRecords(p) BY <1>3, ReadRecordsStep
<1>4. CASE NextProfile(p) BY <1>4, NextProfileStep
<1>5. CASE KeepAlert(p) BY <1>5, KeepAlertStep
<1>6. CASE MissAlert(p) BY <1>6, MissAlertStep
<1>7. CASE AddAlert(p, id) BY <1>7, AddAlertStep
<1>8. CASE AlertCollides(p) BY <1>8, FailStep DEF AlertCollides
<1>9. CASE AbortDeadlock(p) BY <1>9, FailStep DEF AbortDeadlock
<1>10. CASE FindOpen(p) BY <1>10, FindOpenStep
<1> QED BY <1>1, <1>2, <1>3, <1>4, <1>5, <1>6, <1>7, <1>8, <1>9, <1>10 DEF Work

LEMMA AlertStutter ==
  ASSUME AlertInv, UNCHANGED vars
  PROVE  AlertInv'
<1>1. TypeOK /\ Finite /\ NoClash /\ AlertsAreJustified BY DEF AlertInv
<1>2. UNCHANGED <<profile, record, alerts, pc, job, staged>> BY DEF vars, world
<1>3. TypeOK' /\ Finite' /\ NoClash' /\ AlertsAreJustified'
  BY <1>1, <1>2 DEF TypeOK, Finite, NoClash, AlertsAreJustified
<1>4. \A q \in Syncers : JobOK(q)'
  <2>1. /\ record' \in [Keys -> 0..MaxRecord]
        /\ \A k \in Keys : record[k] <= record'[k]
    BY <1>1, <1>2, AlertAssumption DEF TypeOK
  <2> QED BY <1>2, <2>1, JobSame
<1> QED BY <1>3, <1>4 DEF AlertInv

LEMMA AlertInit == Init => AlertInv
<1> SUFFICES ASSUME Init PROVE AlertInv OBVIOUS
<1>1. NoJob \in Job /\ NoJob.queue = {} BY AlertAssumption DEF NoJob, Job
<1>2. \A p \in Syncers : pc[p] = "idle" /\ job[p] = NoJob /\ staged[p] = {} BY DEF Init
<1>3. TypeOK BY <1>1, AlertAssumption DEF Init, TypeOK, Steps
<1>4. Finite BY <1>1, <1>2, FS_EmptySet DEF Init, Finite
<1>5. NoClash BY <1>2 DEF Init, NoClash
<1>6. AlertsAreJustified BY DEF Init, AlertsAreJustified
<1>7. \A p \in Syncers : JobOK(p) BY <1>1, <1>2 DEF JobOK, Ranked
<1> QED BY <1>3, <1>4, <1>5, <1>6, <1>7 DEF AlertInv

LEMMA AlertNext == AlertInv /\ [Next]_vars => AlertInv'
<1> SUFFICES ASSUME AlertInv, [Next]_vars PROVE AlertInv' OBVIOUS
<1>1. CASE Change BY <1>1, ChangeStep
<1>2. ASSUME NEW p \in Syncers, Begin(p) PROVE AlertInv' BY <1>2, BeginStep
<1>3. ASSUME NEW p \in Syncers, Work(p, NewId({})) PROVE AlertInv'
  <2>1. Fresh(NewId({})) BY FreshId, FS_EmptySet
  <2> QED BY <1>3, <2>1, WorkStep
<1>4. ASSUME NEW p \in Syncers, Commit(p) PROVE AlertInv' BY <1>4, CommitStep
<1>5. ASSUME NEW a \in alerts, MarkRead(a) PROVE AlertInv' BY <1>5, MarkReadStep
<1>6. ASSUME NEW p \in Syncers, Abort(p) PROVE AlertInv' BY <1>6, FailStep DEF Abort
<1>7. CASE UNCHANGED vars BY <1>7, AlertStutter
<1> QED BY <1>1, <1>2, <1>3, <1>4, <1>5, <1>6, <1>7 DEF Next, Faultless

LEMMA AlertsInv == Spec => []AlertInv
<1> QED BY AlertInit, AlertNext, PTL DEF Spec

\* One alert for a profile version and a record version, whoever synchronizes at
\* the same time, for any number of syncers, profiles and records.
THEOREM SubjectsUnique == Spec => []OnePerSubject
<1>1. AlertInv => OnePerSubject BY DEF AlertInv, NoClash, Clash, OnePerSubject
<1> QED BY <1>1, AlertsInv, PTL

\* What an alert shows was recommended for the profile version it names, for any
\* number of syncers, profiles and records.
THEOREM AlertsJustified == Spec => []AlertsAreJustified
<1>1. AlertInv => AlertsAreJustified BY DEF AlertInv
<1> QED BY <1>1, AlertsInv, PTL

-----------------------------------------------------------------------------
(* The alerts implement the inbox. *)

EntryOf(a) == [subject |-> a.subject, snapshot |-> a.snap, read |-> a.read]
Entries(rows) == {EntryOf(a) : a \in rows}

LEMMA EntryRead ==
  ASSUME NEW S, NEW V, NEW e \in [subject : S, snapshot : V, read : BOOLEAN]
  PROVE  [e EXCEPT !.read = TRUE]
           = [subject |-> e.subject, snapshot |-> e.snapshot, read |-> TRUE]
<1> PICK f : f = [e EXCEPT !.read = TRUE] OBVIOUS
<1>1. f \in [subject : S, snapshot : V, read : BOOLEAN] OBVIOUS
<1>2. f.subject = e.subject /\ f.snapshot = e.snapshot OBVIOUS
<1>3. f.read = TRUE OBVIOUS
<1>4. f = [subject |-> f.subject, snapshot |-> f.snapshot, read |-> f.read] BY <1>1
<1>5. f = [subject |-> e.subject, snapshot |-> e.snapshot, read |-> TRUE]
  BY <1>2, <1>3, <1>4, Zenon
<1> QED BY <1>5

LEMMA CommitDelivers ==
  ASSUME AlertInv, NEW p \in Syncers, Commit(p)
  PROVE  Inbox!Deliver
<1>1. TypeOK /\ NoClash /\ JobOK(p) /\ alerts' = alerts \cup staged[p]
  BY DEF AlertInv, Commit
<1>2. \A a \in alerts' : a \in Alert BY <1>1 DEF TypeOK
<1>3. \A e \in Entries(alerts') : e \in [subject : Subject, snapshot : Versions, read : BOOLEAN]
  BY <1>2 DEF Entries, EntryOf, Alert
<1>4. Entries(alerts) \subseteq Entries(alerts') BY <1>1 DEF Entries
<1>5. ASSUME NEW e \in Entries(alerts'), e \notin Entries(alerts)
      PROVE  ~e.read /\ \A f \in Entries(alerts') \ {e} : f.subject # e.subject
  <2>1. PICK a \in staged[p] : e = EntryOf(a) BY <1>1, <1>5 DEF Entries
  <2>2. ~e.read BY <1>1, <2>1 DEF JobOK, EntryOf
  <2>3. ASSUME NEW f \in Entries(alerts'), f.subject = e.subject PROVE f = e
    <3>1. PICK b \in alerts' : f = EntryOf(b) BY DEF Entries
    <3>2. Clash(a, b) BY <2>1, <2>3, <3>1 DEF Clash, EntryOf
    <3>3. a = b BY <1>1, <3>2 DEF NoClash
    <3> QED BY <2>1, <3>1, <3>3
  <2> QED BY <2>2, <2>3
<1> QED BY <1>3, <1>4, <1>5 DEF Inbox!Deliver, Inbox!Entry, Entries, EntryOf

LEMMA MarkReadReads ==
  ASSUME AlertInv, NEW a \in alerts, MarkRead(a)
  PROVE  Inbox!Read
<1>1. TypeOK /\ NoClash BY DEF AlertInv
<1>2. PICK e : e = EntryOf(a) OBVIOUS
<1>3. PICK new : new = [a EXCEPT !.read = TRUE] OBVIOUS
<1>4. alerts' = (alerts \ {a}) \cup {new} BY <1>3 DEF MarkRead
<1>5. EntryOf(new) = [e EXCEPT !.read = TRUE]
  <2>1. a \in Alert BY <1>1 DEF TypeOK
  <2>2. new.subject = a.subject /\ new.snap = a.snap /\ new.read = TRUE
    BY <1>3, <2>1 DEF Alert
  <2>3. EntryOf(new) = [subject |-> a.subject, snapshot |-> a.snap, read |-> TRUE]
    BY <2>2 DEF EntryOf
  <2>4. e \in [subject : Subject, snapshot : Versions, read : BOOLEAN]
    BY <1>2, <2>1 DEF EntryOf, Alert
  <2>5. e.subject = a.subject /\ e.snapshot = a.snap BY <1>2 DEF EntryOf
  <2> QED BY <2>3, <2>4, <2>5, EntryRead
<1>6. Entries(alerts \ {a}) = Entries(alerts) \ {e}
  <2>1. ASSUME NEW b \in alerts, EntryOf(b) = e PROVE b = a
    <3>1. Clash(b, a) BY <1>2, <2>1 DEF EntryOf, Clash
    <3> QED BY <1>1, <3>1 DEF NoClash
  <2> QED BY <1>2, <2>1 DEF Entries
<1>7. Entries(alerts') = (Entries(alerts) \ {e}) \cup {[e EXCEPT !.read = TRUE]}
  <2>1. Entries(alerts') = Entries(alerts \ {a}) \cup {EntryOf(new)} BY <1>4 DEF Entries
  <2> QED BY <1>5, <1>6, <2>1
<1>8. e \in Entries(alerts) BY <1>2 DEF Entries
<1> QED BY <1>7, <1>8 DEF Inbox!Read, Entries, EntryOf

LEMMA InboxStep ==
  AlertInv /\ [Next]_vars => [Inbox!Next]_(Entries(alerts))
<1> SUFFICES ASSUME AlertInv, [Next]_vars
             PROVE  Inbox!Next \/ Entries(alerts') = Entries(alerts)
  OBVIOUS
<1>1. ASSUME NEW p \in Syncers, Commit(p) PROVE Inbox!Next
  BY <1>1, CommitDelivers DEF Inbox!Next
<1>2. ASSUME NEW a \in alerts, MarkRead(a) PROVE Inbox!Next
  BY <1>2, MarkReadReads DEF Inbox!Next
<1>3. ASSUME NEW p \in Syncers, Fail(p) PROVE alerts' = alerts BY <1>3 DEF Fail
<1>4. ASSUME NEW p \in Syncers, NEW id, Work(p, id) PROVE alerts' = alerts
  BY <1>3, <1>4 DEF Work, ProfileMissing, ReadProfile, ReadRecords, NextProfile, KeepAlert,
     FindOpen, MissAlert, AddAlert, Insert, AlertCollides, AbortDeadlock
<1>5. ASSUME NEW p \in Syncers, Begin(p) PROVE alerts' = alerts
  BY <1>5 DEF Begin, Sync, SyncAll
<1>6. CASE Change BY <1>6 DEF Change, SaveProfile, IngestRecord
<1>7. CASE UNCHANGED vars BY <1>7 DEF vars
<1> QED BY <1>1, <1>2, <1>3, <1>4, <1>5, <1>6, <1>7 DEF Next, Faultless, Abort

\* The alerts implement the inbox of the documents: the alerts of one synchronization
\* appear together, once and for all, unread, one for a subject; afterwards only the
\* read mark changes.
THEOREM InboxImplemented == Spec => ImplementsInbox
<1>1. Init => Inbox!Init BY DEF Init, Inbox!Init
<1>2. AlertInv /\ [Next]_vars
        => [Inbox!Next]_{[subject |-> a.subject, snapshot |-> a.snap, read |-> a.read] : a \in alerts}
  BY InboxStep DEF Entries, EntryOf
<1> QED BY <1>1, <1>2, AlertsInv, PTL DEF Spec, ImplementsInbox, Inbox!Spec

-----------------------------------------------------------------------------
(* Histories of attempts. *)

\* As many attempts as numbers.
LEMMA CountByNumber ==
  ASSUME NEW S, NEW m \in Nat, {t.number : t \in S} = 1..m,
         \A t, u \in S : t.number = u.number => t = u
  PROVE  IsFiniteSet(S) /\ Cardinality(S) = m
<1> DEFINE g == [i \in 1..m |-> CHOOSE t \in S : t.number = i]
<1>1. \A i \in 1..m : g[i] \in S /\ g[i].number = i OBVIOUS
<1>2. g \in Bijection(1..m, S)
  <2>1. g \in [1..m -> S] BY <1>1
  <2>2. \A i, k \in 1..m : g[i] = g[k] => i = k BY <1>1
  <2>3. \A t \in S : \E i \in 1..m : g[i] = t
    <3> SUFFICES ASSUME NEW t \in S PROVE \E i \in 1..m : g[i] = t OBVIOUS
    <3>1. t.number \in 1..m OBVIOUS
    <3>2. g[t.number] = t BY <1>1, <3>1
    <3> QED BY <3>1, <3>2
  <2> HIDE DEF g
  <2> QED BY <2>1, <2>2, <2>3 DEF Bijection, Injection, Surjection, IsInjective
<1> HIDE DEF g
<1>3. IsFiniteSet(1..m) /\ Cardinality(1..m) = m BY FS_Interval
<1> QED BY <1>2, <1>3, FS_Bijection DEF ExistsBijection

\* What an alert that may be tried again has behind it: failures that may be repeated.
LEMMA PendingFacts ==
  ASSUME WebhookInv, phase = "dispatch", NEW id \in Nat, Pending(id)
  PROVE  /\ \A t \in Tried(id) : t.status = "failed" /\ t.retryable
         /\ IsFiniteSet(Tried(id)) /\ Cardinality(Tried(id)) \in Nat
         /\ Cardinality(Tried(id)) < MaxAttempts
<1> PICK n : n = Cardinality(Tried(id)) OBVIOUS
<1>1. InOrder(Tried(id)) BY DEF WebhookInv, HistoriesOK
<1>2. IsFiniteSet(Tried(id)) /\ n \in Nat BY <1>1, FS_CardinalityType DEF InOrder
<1>3. {t.number : t \in Tried(id)} = 1..n BY <1>1 DEF InOrder
<1>4. \A t \in Tried(id) : t.number \in 1..n BY <1>3
<1>5. ASSUME NEW t \in Tried(id) PROVE t.status = "failed" /\ t.retryable
  <2>1. CASE t.number < n BY <1>1, <2>1 DEF InOrder
  <2>2. CASE ~(t.number < n)
    <3>1. \A u \in Tried(id) : u.number <= t.number BY <1>2, <1>4, <2>2
    <3>2. t.status # "delivered" /\ t.retryable BY <3>1 DEF Pending
    <3>3. t \in Attempt /\ t.status # "started"
      BY DEF Tried, WebhookInv, WebhookTypeOK, StartedOK
    <3> QED BY <3>2, <3>3 DEF Attempt
  <2> QED BY <2>1, <2>2
<1> QED BY <1>2, <1>5 DEF Pending

LEMMA OldestSame == queue' = queue => Oldest' = Oldest
<1> DEFINE oldest(Q) == CHOOSE a \in Q : \A b \in Q : a.alert <= b.alert
<1>1. Oldest = oldest(queue) /\ Oldest' = oldest(queue') BY DEF Oldest
<1> HIDE DEF oldest
<1> QED BY <1>1

LEMMA OldestFacts ==
  ASSUME WebhookInv, queue # {}
  PROVE  /\ Oldest \in queue /\ Oldest.alert \in Nat /\ Oldest.subject \in Subject
<1>1. /\ IsFiniteSet(queue)
      /\ \A a \in queue : a.alert \in Nat /\ a.subject \in Subject
  BY DEF WebhookInv, WebhookTypeOK
<1> DEFINE f == [a \in queue |-> a.alert]
<1>2. \A a \in queue : f[a] \in Int /\ f[a] = a.alert BY <1>1
<1>3. \E a \in queue : \A b \in queue : f[a] <= f[b]
  <2> HIDE DEF f
  <2> QED BY <1>1, <1>2, LowestExists
<1>4. Oldest \in queue BY <1>2, <1>3 DEF Oldest
<1> QED BY <1>1, <1>4

-----------------------------------------------------------------------------
(* The dispatch, step by step. *)

\* The alerts, seen from the worker's dispatch, only grow.
LEMMA OutboxKeeps ==
  ASSUME WebhookInv, AlertInv', UNCHANGED webhook,
         \A a \in alerts : \E b \in alerts' : b.id = a.id /\ b.subject = a.subject,
         phase # "sync" => pc'[Worker] = pc[Worker] /\ staged'[Worker] = staged[Worker]
  PROVE  WebhookInv'
<1>1. /\ attempts' = attempts /\ phase' = phase /\ queue' = queue /\ trial' = trial
      /\ posts' = posts
  BY DEF webhook
<1>2. /\ WebhookTypeOK /\ IsFiniteSet(queue) /\ IsFiniteSet(posts)
      /\ HistoriesOK /\ StartedOK /\ PhaseOK /\ ListedOK
      /\ \A t \in attempts : \E a \in alerts : a.id = t.alert
  BY DEF WebhookInv
<1>3. WebhookTypeOK' BY <1>1, <1>2 DEF WebhookTypeOK, AlertInv
<1>4. HistoriesOK' BY <1>1, <1>2 DEF HistoriesOK, Tried
<1>5. StartedOK' BY <1>1, <1>2, OldestSame DEF StartedOK
<1>6. PhaseOK' BY <1>1, <1>2 DEF PhaseOK
<1>7. ListedOK'
  <2>1. CASE phase = "sync" BY <1>1, <1>2, <2>1 DEF PhaseOK, ListedOK
  <2>2. CASE phase # "sync"
    <3>1. \A a \in Rows(Worker) : \E b \in Rows(Worker)' : b.id = a.id /\ b.subject = a.subject
      BY <2>2 DEF Rows
    <3> QED BY <1>1, <1>2, <3>1 DEF ListedOK
  <2> QED BY <2>1, <2>2
<1>8. \A t \in attempts' : \E a \in alerts' : a.id = t.alert BY <1>1, <1>2
<1> QED BY <1>1, <1>2, <1>3, <1>4, <1>5, <1>6, <1>7, <1>8 DEF WebhookInv

LEMMA ListAlertsStep ==
  ASSUME WebhookInv, ListAlerts
  PROVE  WebhookInv'
<1>1. /\ AlertInv /\ WebhookTypeOK /\ HistoriesOK /\ StartedOK /\ trial = {} /\ IsFiniteSet(posts)
      /\ \A t \in attempts : \E a \in alerts : a.id = t.alert
  BY DEF WebhookInv, PhaseOK, ListAlerts
<1>2. /\ UNCHANGED vars /\ pc[Worker] = "commit" /\ phase' = "dispatch"
      /\ queue' = {[alert |-> a.id, subject |-> a.subject] : a \in Rows(Worker)}
      /\ attempts' = attempts /\ trial' = trial /\ posts' = posts
  BY DEF ListAlerts, Rows
<1>3. AlertInv' BY <1>1, <1>2, AlertStutter
<1>4. /\ alerts' = alerts /\ staged' = staged /\ pc' = pc /\ Rows(Worker)' = Rows(Worker)
      /\ TypeOK /\ TypeOK' /\ NoClash /\ Finite
  BY <1>1, <1>2, <1>3 DEF vars, Rows, AlertInv
<1>5. \A a \in Rows(Worker) : a \in Alert BY <1>4, AlertAssumption DEF TypeOK, Rows
<1>6. WebhookTypeOK' BY <1>1, <1>2, <1>4, <1>5 DEF WebhookTypeOK, Alert
<1>7. IsFiniteSet(queue')
  <2> DEFINE f == [a \in Rows(Worker) |-> [alert |-> a.id, subject |-> a.subject]]
  <2>1. queue' = {f[a] : a \in Rows(Worker)} BY <1>2
  <2>2. IsFiniteSet(Rows(Worker)) BY <1>4, AlertAssumption, FS_Union DEF Finite, Rows
  <2> HIDE DEF f
  <2>3. IsFiniteSet({f[a] : a \in Rows(Worker)}) BY <2>2, FiniteImage
  <2> QED BY <2>1, <2>3
<1>8. HistoriesOK' BY <1>1, <1>2 DEF HistoriesOK, Tried
<1>9. StartedOK' BY <1>1, <1>2 DEF StartedOK
<1>10. PhaseOK' BY <1>2, <1>4 DEF PhaseOK
<1>11. ListedOK'
  <2>1. \A a, b \in Rows(Worker) : a.id = b.id => a = b
    BY <1>4, AlertAssumption DEF NoClash, Clash, Rows
  <2>2. \A a, b \in queue' : a.alert = b.alert => a = b BY <1>2, <2>1
  <2> QED BY <1>1, <1>2, <1>4, <2>2 DEF ListedOK
<1> QED BY <1>1, <1>2, <1>3, <1>4, <1>6, <1>7, <1>8, <1>9, <1>10, <1>11 DEF WebhookInv

LEMMA SkipAlertStep ==
  ASSUME WebhookInv, SkipAlert
  PROVE  WebhookInv'
<1>1. /\ AlertInv /\ WebhookTypeOK /\ HistoriesOK /\ StartedOK /\ PhaseOK /\ ListedOK
      /\ IsFiniteSet(queue) /\ IsFiniteSet(posts)
      /\ \A t \in attempts : \E a \in alerts : a.id = t.alert
  BY DEF WebhookInv
<1>2. /\ UNCHANGED vars /\ phase = "dispatch" /\ queue' = queue \ {Oldest}
      /\ attempts' = attempts /\ trial' = trial /\ posts' = posts /\ phase' = phase
  BY DEF SkipAlert
<1>3. AlertInv' BY <1>1, <1>2, AlertStutter
<1>4. alerts' = alerts /\ pc' = pc /\ Rows(Worker)' = Rows(Worker) /\ TypeOK'
  BY <1>2, <1>3 DEF vars, Rows, AlertInv
<1>5. WebhookTypeOK' BY <1>1, <1>2, <1>4 DEF WebhookTypeOK
<1>6. IsFiniteSet(queue') BY <1>1, <1>2, FS_RemoveElement
<1>7. HistoriesOK' BY <1>1, <1>2 DEF HistoriesOK, Tried
<1>8. StartedOK' BY <1>1, <1>2 DEF StartedOK
<1>9. PhaseOK' BY <1>1, <1>2, <1>4 DEF PhaseOK
<1>10. ListedOK' BY <1>1, <1>2, <1>4 DEF ListedOK
<1> QED BY <1>1, <1>2, <1>3, <1>4, <1>5, <1>6, <1>7, <1>8, <1>9, <1>10 DEF WebhookInv

\* One more request: the attempt is the next of its alert, after failures that may be
\* repeated, and within the limit.
LEMMA SendPostStep ==
  ASSUME WebhookInv, SendPost
  PROVE  WebhookInv'
<1>1. /\ AlertInv /\ WebhookTypeOK /\ HistoriesOK /\ StartedOK /\ PhaseOK /\ ListedOK
      /\ IsFiniteSet(queue) /\ IsFiniteSet(posts)
      /\ \A t \in attempts : \E a \in alerts : a.id = t.alert
  BY DEF WebhookInv
<1>2. PICK id, n : id = Oldest.alert /\ n = Cardinality(Tried(id)) OBVIOUS
<1>3. PICK new : new = [alert |-> id, status |-> "started", retryable |-> TRUE, number |-> n + 1]
  OBVIOUS
<1>4. /\ UNCHANGED vars /\ phase = "dispatch" /\ queue # {} /\ Pending(id)
      /\ trial' = trial \cup {new} /\ phase' = "post"
      /\ attempts' = attempts /\ queue' = queue
  BY <1>2, <1>3 DEF SendPost
<1>5. PICK x : /\ posts' = posts \cup {x}
               /\ x = [alert |-> id, subject |-> Oldest.subject,
                       nth |-> Cardinality({y \in posts : y.alert = id}) + 1]
  BY <1>2 DEF SendPost
<1>6. Oldest \in queue /\ id \in Nat /\ Oldest.subject \in Subject
  BY <1>2, <1>4, OldestFacts
<1>7. /\ \A t \in Tried(id) : t.status = "failed" /\ t.retryable
      /\ IsFiniteSet(Tried(id)) /\ n \in Nat /\ n < MaxAttempts
  BY <1>2, <1>4, <1>6, PendingFacts
<1>8. new \in Attempt /\ new.alert = id /\ new.number = n + 1 /\ new.status = "started"
  BY <1>3, <1>6, <1>7 DEF Attempt
<1>9. AlertInv' BY <1>1, <1>4, AlertStutter
<1>10. alerts' = alerts /\ pc' = pc /\ Rows(Worker)' = Rows(Worker) /\ TypeOK'
  BY <1>4, <1>9 DEF vars, Rows, AlertInv
<1>11. WebhookTypeOK'
  <2>1. Cardinality({y \in posts : y.alert = id}) \in Nat
    <3>1. IsFiniteSet({y \in posts : y.alert = id}) BY <1>1, FS_Subset
    <3> QED BY <3>1, FS_CardinalityType
  <2>2. x \in Post
    <3> PICK m : m = Cardinality({y \in posts : y.alert = id}) + 1 OBVIOUS
    <3>1. m \in Nat BY <2>1
    <3> QED BY <1>5, <1>6, <3>1 DEF Post
  <2> QED BY <1>1, <1>4, <1>5, <1>8, <1>10, <2>2 DEF WebhookTypeOK
<1>12. IsFiniteSet(posts') BY <1>1, <1>5, FS_AddElement
<1>13. HistoriesOK'
  <2>1. \A i \in Nat : Of(attempts', i) = Of(attempts, i) BY <1>4
  <2>2. \A i \in Nat \ {id} : Tried(i)' = Tried(i) BY <1>4, <1>8 DEF Tried
  <2>3. Tried(id)' = Tried(id) \cup {new} BY <1>4, <1>8 DEF Tried
  <2>4. {t.number : t \in Tried(id)} = 1..n /\ \A t, u \in Tried(id) : t.number = u.number => t = u
    BY <1>1, <1>2, <1>6 DEF HistoriesOK, InOrder
  <2>5. \A t \in Tried(id) : t.number \in 1..n BY <2>4
  <2>6. new \notin Tried(id) BY <1>7, <1>8, <2>5
  <2>7. IsFiniteSet(Tried(id)') /\ Cardinality(Tried(id)') = n + 1
    BY <1>2, <1>7, <2>3, <2>6, FS_AddElement
  <2>8. {t.number : t \in Tried(id)'} = 1..(n + 1)
    <3>1. {t.number : t \in Tried(id)'} = {t.number : t \in Tried(id)} \cup {n + 1}
      BY <1>8, <2>3
    <3> QED BY <1>7, <2>4, <3>1
  <2>9. \A t, u \in Tried(id)' : t.number = u.number => t = u
    BY <1>7, <1>8, <2>3, <2>4, <2>5
  <2>10. \A t \in Tried(id)' : t.number < n + 1 => t.status = "failed" /\ t.retryable
    BY <1>7, <1>8, <2>3
  <2>11. n + 1 <= MaxAttempts BY <1>7, WebhookAssumption
  <2>12. InOrder(Tried(id)') BY <2>7, <2>8, <2>9, <2>10, <2>11 DEF InOrder
  <2>13. \A i \in Nat : InOrder(Tried(i)') BY <1>1, <2>2, <2>12 DEF HistoriesOK
  <2>14. \A i \in Nat : InOrder(Of(attempts', i)) BY <1>1, <2>1 DEF HistoriesOK
  <2> QED BY <2>13, <2>14 DEF HistoriesOK, Of, InOrder
<1>14. StartedOK'
  <2>1. Oldest' = Oldest BY <1>4, OldestSame
  <2> QED BY <1>1, <1>2, <1>4, <1>8, <2>1 DEF StartedOK
<1>15. PhaseOK' BY <1>1, <1>4, <1>10 DEF PhaseOK
<1>16. ListedOK' BY <1>1, <1>2, <1>4, <1>6, <1>8, <1>10 DEF ListedOK
<1> QED
  BY <1>1, <1>4, <1>9, <1>10, <1>11, <1>12, <1>13, <1>14, <1>15, <1>16 DEF WebhookInv

\* The request under way ends: its attempt gets its result and keeps its number.
LEMMA FinishStep ==
  ASSUME WebhookInv, NEW status \in {"delivered", "failed"}, NEW retryable \in BOOLEAN,
         Finish(status, retryable)
  PROVE  WebhookInv'
<1>1. /\ AlertInv /\ WebhookTypeOK /\ HistoriesOK /\ StartedOK /\ PhaseOK /\ ListedOK
      /\ IsFiniteSet(queue) /\ IsFiniteSet(posts)
      /\ \A t \in attempts : \E a \in alerts : a.id = t.alert
  BY DEF WebhookInv
<1> DEFINE g(t) == IF t.status = "started"
                   THEN [t EXCEPT !.status = status, !.retryable = retryable] ELSE t
<1>2. /\ UNCHANGED vars /\ phase = "post" /\ queue' = queue \ {Oldest}
      /\ trial' = {g(t) : t \in trial} /\ phase' = "dispatch"
      /\ attempts' = attempts /\ posts' = posts
  BY DEF Finish
<1>3. \A t \in Attempt : /\ g(t) \in Attempt /\ g(t).alert = t.alert /\ g(t).number = t.number
                         /\ t.status # "started" => g(t) = t
                         /\ t.status = "started" => g(t).status = status
  BY DEF Attempt
<1>4. \A t \in attempts \cup trial : t \in Attempt BY <1>1 DEF WebhookTypeOK
<1> HIDE DEF g
<1>5. attempts' \cup trial' = {g(t) : t \in attempts \cup trial}
  <2>1. \A t \in attempts : g(t) = t BY <1>1, <1>3, <1>4 DEF StartedOK
  <2> QED BY <1>2, <2>1
<1>6. AlertInv' BY <1>1, <1>2, AlertStutter
<1>7. alerts' = alerts /\ pc' = pc /\ Rows(Worker)' = Rows(Worker) /\ TypeOK'
  BY <1>2, <1>6 DEF vars, Rows, AlertInv
<1>8. WebhookTypeOK' BY <1>1, <1>2, <1>3, <1>4, <1>7 DEF WebhookTypeOK
<1>9. IsFiniteSet(queue') BY <1>1, <1>2, FS_RemoveElement
<1>10. HistoriesOK'
  <2>1. \A i \in Nat : Of(attempts', i) = Of(attempts, i) BY <1>2
  <2>2. ASSUME NEW i \in Nat PROVE InOrder(Tried(i)')
    <3> PICK n : n = Cardinality(Tried(i)) OBVIOUS
    <3>1. /\ InOrder(Tried(i)) /\ n \in Nat /\ n <= MaxAttempts
          /\ {t.number : t \in Tried(i)} = 1..n
          /\ \A t, u \in Tried(i) : t.number = u.number => t = u
          /\ \A t \in Tried(i) : t.number < n => t.status = "failed" /\ t.retryable
      BY <1>1, FS_CardinalityType DEF HistoriesOK, InOrder
    <3>2. \A t \in Tried(i) : t \in Attempt BY <1>4 DEF Tried
    <3>3. Tried(i)' = {g(t) : t \in Tried(i)} BY <1>3, <1>4, <1>5 DEF Tried
    <3>4. {t.number : t \in Tried(i)'} = {t.number : t \in Tried(i)} BY <1>3, <3>2, <3>3
    <3>5. \A t, u \in Tried(i)' : t.number = u.number => t = u BY <1>3, <3>1, <3>2, <3>3
    <3>6. IsFiniteSet(Tried(i)') /\ Cardinality(Tried(i)') = n
      <4>1. PICK S : S = Tried(i)' OBVIOUS
      <4>2. {t.number : t \in S} = 1..n BY <3>1, <3>4, <4>1
      <4>3. \A t, u \in S : t.number = u.number => t = u BY <3>5, <4>1
      <4>4. IsFiniteSet(S) /\ Cardinality(S) = n BY <3>1, <4>2, <4>3, CountByNumber
      <4> QED BY <4>1, <4>4
    <3>7. \A t \in Tried(i)' : t.number < n => t.status = "failed" /\ t.retryable
      BY <1>3, <3>1, <3>2, <3>3
    <3> QED BY <3>1, <3>4, <3>5, <3>6, <3>7 DEF InOrder
  <2>3. \A i \in Nat : InOrder(Of(attempts', i)) BY <1>1, <2>1 DEF HistoriesOK
  <2> QED BY <2>2, <2>3 DEF HistoriesOK, Of, InOrder
<1>11. StartedOK' BY <1>1, <1>2, <1>3, <1>4 DEF StartedOK
<1>12. PhaseOK' BY <1>1, <1>2, <1>7 DEF PhaseOK
<1>13. ListedOK' BY <1>1, <1>2, <1>3, <1>4, <1>7 DEF ListedOK
<1> QED
  BY <1>1, <1>2, <1>6, <1>7, <1>8, <1>9, <1>10, <1>11, <1>12, <1>13 DEF WebhookInv

\* Alerts and attempts are committed together.
LEMMA CommitCycleStep ==
  ASSUME WebhookInv, CommitCycle
  PROVE  WebhookInv'
<1>1. /\ AlertInv /\ WebhookTypeOK /\ HistoriesOK /\ StartedOK /\ PhaseOK /\ ListedOK
      /\ IsFiniteSet(queue) /\ IsFiniteSet(posts)
      /\ \A t \in attempts : \E a \in alerts : a.id = t.alert
  BY DEF WebhookInv
<1>2. /\ phase = "dispatch" /\ queue = {} /\ Commit(Worker) /\ attempts' = attempts \cup trial
      /\ trial' = {} /\ phase' = "sync" /\ queue' = queue /\ posts' = posts
      /\ alerts' = alerts \cup staged[Worker]
  BY DEF CommitCycle, Commit
<1>3. AlertInv' BY <1>1, <1>2, CommitStep, AlertAssumption
<1>4. WebhookTypeOK' BY <1>1, <1>2, <1>3 DEF WebhookTypeOK, AlertInv
<1>5. HistoriesOK'
  <2>1. \A i \in Nat : Tried(i)' = Tried(i) /\ Of(attempts', i) = Tried(i)
    BY <1>2 DEF Tried, Of
  <2>2. \A i \in Nat : InOrder(Tried(i)') /\ InOrder(Of(attempts', i))
    BY <1>1, <2>1 DEF HistoriesOK
  <2> QED BY <2>2 DEF HistoriesOK, Of, InOrder
<1>6. StartedOK' BY <1>1, <1>2 DEF StartedOK
<1>7. PhaseOK' BY <1>1, <1>2 DEF PhaseOK
<1>8. ListedOK' BY <1>2 DEF ListedOK
<1>9. \A t \in attempts' : \E a \in alerts' : a.id = t.alert BY <1>1, <1>2 DEF ListedOK, Rows
<1> QED
  BY <1>1, <1>2, <1>3, <1>4, <1>5, <1>6, <1>7, <1>8, <1>9 DEF WebhookInv

LEMMA AbortCycleStep ==
  ASSUME WebhookInv, AbortCycle
  PROVE  WebhookInv'
<1>1. /\ AlertInv /\ WebhookTypeOK /\ HistoriesOK /\ StartedOK
      /\ IsFiniteSet(posts)
      /\ \A t \in attempts : \E a \in alerts : a.id = t.alert
  BY DEF WebhookInv
<1>2. /\ Fail(Worker) /\ attempts' = attempts /\ trial' = {} /\ phase' = "sync"
      /\ queue' = {} /\ posts' = posts /\ alerts' = alerts
  BY DEF AbortCycle, Abort, Fail
<1>3. AlertInv' BY <1>1, <1>2, FailStep, AlertAssumption
<1>4. WebhookTypeOK' BY <1>1, <1>2, <1>3 DEF WebhookTypeOK, AlertInv
<1>5. HistoriesOK'
  <2>1. \A i \in Nat : Tried(i)' = Of(attempts, i) /\ Of(attempts', i) = Of(attempts, i)
    BY <1>2 DEF Tried, Of
  <2>2. \A i \in Nat : InOrder(Tried(i)') /\ InOrder(Of(attempts', i))
    BY <1>1, <2>1 DEF HistoriesOK
  <2> QED BY <2>2 DEF HistoriesOK, Of, InOrder
<1>6. StartedOK' BY <1>1, <1>2 DEF StartedOK
<1>7. PhaseOK' BY <1>2 DEF PhaseOK
<1>8. ListedOK' BY <1>2 DEF ListedOK
<1> QED
  BY <1>1, <1>2, <1>3, <1>4, <1>5, <1>6, <1>7, <1>8, FS_EmptySet DEF WebhookInv

\* While the worker dispatches, it is between its last insert and its commit: it takes
\* no step of a synchronization, and nobody else touches its rows.
LEMMA WorkerDispatches ==
  ASSUME WebhookInv, phase # "sync", NEW p \in Syncers, NEW id,
         Begin(p) \/ Work(p, id) \/ (p # Worker /\ (Commit(p) \/ Abort(p)))
  PROVE  pc'[Worker] = pc[Worker] /\ staged'[Worker] = staged[Worker]
<1>1. pc[Worker] = "commit" /\ TypeOK /\ Worker \in Syncers
  BY AlertAssumption DEF WebhookInv, WebhookTypeOK, PhaseOK, AlertInv
<1>2. p # Worker
  <2>1. ~Begin(Worker) BY <1>1 DEF Begin, Sync, SyncAll
  <2>2. ~Deadlocked(Worker) BY <1>1 DEF Deadlocked, WaitsFor
  <2>3. ~Work(Worker, id)
    BY <1>1, <2>2 DEF Work, ProfileMissing, ReadProfile, ReadRecords, NextProfile, KeepAlert,
       FindOpen, MissAlert, AddAlert, AlertCollides, AbortDeadlock
  <2> QED BY <2>1, <2>3
<1>3. \A step : Goto(p, step) => pc'[Worker] = pc[Worker]
  BY <1>1, <1>2 DEF Goto, TypeOK
<1>4. Leave(p) => pc'[Worker] = pc[Worker] /\ staged'[Worker] = staged[Worker]
  BY <1>1, <1>2 DEF Leave, Goto, TypeOK
<1>5. CASE Begin(p) BY <1>1, <1>2, <1>5 DEF Begin, Sync, SyncAll, Goto, TypeOK
<1>6. CASE Work(p, id)
  <2>1. CASE ProfileMissing(p) \/ AlertCollides(p) \/ AbortDeadlock(p)
    BY <1>4, <2>1 DEF ProfileMissing, AlertCollides, AbortDeadlock, Fail
  <2>2. CASE ReadProfile(p) \/ ReadRecords(p) \/ NextProfile(p) \/ KeepAlert(p) \/ MissAlert(p)
          \/ FindOpen(p)
    BY <1>1, <1>2, <2>2 DEF ReadProfile, ReadRecords, NextProfile, KeepAlert, MissAlert,
       FindOpen, SkipFirst, Goto, TypeOK
  <2>3. CASE AddAlert(p, id)
    BY <1>1, <1>2, <2>3 DEF AddAlert, Insert, SkipFirst, Goto, TypeOK
  <2> QED BY <1>6, <2>1, <2>2, <2>3 DEF Work
<1>7. CASE Commit(p) \/ Abort(p) BY <1>4, <1>7 DEF Commit, Abort, Fail
<1> QED BY <1>2, <1>5, <1>6, <1>7

LEMMA WebhookStutter ==
  ASSUME WebhookInv, UNCHANGED allVars
  PROVE  WebhookInv'
<1>1. UNCHANGED vars /\ UNCHANGED webhook BY DEF allVars
<1>2. AlertInv' BY <1>1, AlertStutter DEF WebhookInv
<1>3. alerts' = alerts /\ pc' = pc /\ staged' = staged BY <1>1 DEF vars
<1> QED BY <1>1, <1>2, <1>3, OutboxKeeps

LEMMA OutboxStep ==
  ASSUME WebhookInv, Outbox
  PROVE  WebhookInv'
<1>1. AlertInv /\ IsFiniteSet(posts) BY DEF WebhookInv
<1>2. CASE Change /\ UNCHANGED webhook
  <2>1. alerts' = alerts /\ pc' = pc /\ staged' = staged
    BY <1>2 DEF Change, SaveProfile, IngestRecord
  <2> QED BY <1>1, <1>2, <2>1, ChangeStep, OutboxKeeps
<1>3. ASSUME NEW p \in Syncers, Begin(p), UNCHANGED webhook PROVE WebhookInv'
  <2>1. alerts' = alerts BY <1>3 DEF Begin, Sync, SyncAll
  <2>2. AlertInv' BY <1>1, <1>3, BeginStep
  <2>3. phase # "sync" => pc'[Worker] = pc[Worker] /\ staged'[Worker] = staged[Worker]
    BY <1>3, WorkerDispatches
  <2> QED BY <1>3, <2>1, <2>2, <2>3, OutboxKeeps
<1>4. ASSUME NEW p \in Syncers, Work(p, NewId(Burnt)), UNCHANGED webhook PROVE WebhookInv'
  <2>1. IsFiniteSet(Burnt)
    <3> DEFINE f == [x \in posts |-> x.alert]
    <3>1. Burnt = {f[x] : x \in posts} BY DEF Burnt
    <3> HIDE DEF f
    <3> QED BY <1>1, <3>1, FiniteImage
  <2>2. Fresh(NewId(Burnt)) BY <1>1, <2>1, FreshId
  <2> PICK id : id = NewId(Burnt) OBVIOUS
  <2>3. AlertInv' BY <1>1, <1>4, <2>2, WorkStep
  <2>4. alerts' = alerts
    BY <1>4 DEF Work, ProfileMissing, ReadProfile, ReadRecords, NextProfile, KeepAlert,
       FindOpen, MissAlert, AddAlert, Insert, AlertCollides, AbortDeadlock, Fail
  <2>5. phase # "sync" => pc'[Worker] = pc[Worker] /\ staged'[Worker] = staged[Worker]
    BY <1>4, WorkerDispatches
  <2> QED BY <1>4, <2>3, <2>4, <2>5, OutboxKeeps
<1>5. ASSUME NEW p \in Syncers, p # Worker, Commit(p), UNCHANGED webhook PROVE WebhookInv'
  <2>1. \A a \in alerts : a \in alerts' BY <1>5 DEF Commit
  <2>2. AlertInv' BY <1>1, <1>5, CommitStep
  <2>3. phase # "sync" => pc'[Worker] = pc[Worker] /\ staged'[Worker] = staged[Worker]
    BY <1>5, WorkerDispatches
  <2> QED BY <1>5, <2>1, <2>2, <2>3, OutboxKeeps
<1> QED BY <1>2, <1>3, <1>4, <1>5 DEF Outbox, SyncStep

LEMMA DispatchStep ==
  ASSUME WebhookInv, Dispatch
  PROVE  WebhookInv'
<1>1. CASE ListAlerts BY <1>1, ListAlertsStep
<1>2. CASE SkipAlert BY <1>2, SkipAlertStep
<1>3. CASE SendPost BY <1>3, SendPostStep
<1>4. CASE Answer
  <2>1. CASE Finish("delivered", FALSE) BY <2>1, FinishStep
  <2>2. ASSUME NEW retryable \in BOOLEAN, Finish("failed", retryable) PROVE WebhookInv'
    BY <2>2, FinishStep
  <2> QED BY <1>4, <2>1, <2>2 DEF Answer
<1>5. CASE NoAnswer BY <1>5, FinishStep DEF NoAnswer
<1>6. CASE CommitCycle BY <1>6, CommitCycleStep
<1> QED BY <1>1, <1>2, <1>3, <1>4, <1>5, <1>6 DEF Dispatch

LEMMA WebhookInitial == WebhookInit => WebhookInv
<1> SUFFICES ASSUME WebhookInit PROVE WebhookInv OBVIOUS
<1>1. AlertInv BY AlertInit DEF WebhookInit
<1>2. attempts = {} /\ trial = {} /\ phase = "sync" /\ queue = {} /\ posts = {}
  BY DEF WebhookInit
<1>3. InOrder({})
  <2>1. IsFiniteSet({}) /\ Cardinality({}) = 0 BY FS_EmptySet
  <2>2. {t.number : t \in {}} = 1..0 OBVIOUS
  <2> QED BY <2>1, <2>2, WebhookAssumption DEF InOrder
<1>4. HistoriesOK
  <2>1. \A id \in Nat : Of(attempts, id) = {} /\ Tried(id) = {} BY <1>2 DEF Of, Tried
  <2> QED BY <1>3, <2>1 DEF HistoriesOK
<1>5. WebhookTypeOK BY <1>1, <1>2 DEF WebhookTypeOK, AlertInv
<1> QED
  BY <1>1, <1>2, <1>4, <1>5, FS_EmptySet DEF WebhookInv, StartedOK, PhaseOK, ListedOK

LEMMA WebhookStep == WebhookInv /\ [WebhookNext]_allVars => WebhookInv'
<1> SUFFICES ASSUME WebhookInv, [WebhookNext]_allVars PROVE WebhookInv' OBVIOUS
<1>1. AlertInv BY DEF WebhookInv
<1>2. CASE Outbox BY <1>2, OutboxStep
<1>3. CASE Dispatch BY <1>3, DispatchStep
<1>4. ASSUME NEW a \in alerts, MarkRead(a), UNCHANGED webhook PROVE WebhookInv'
  <2>1. PICK new : new = [a EXCEPT !.read = TRUE] OBVIOUS
  <2>2. a \in Alert BY <1>1 DEF AlertInv, TypeOK
  <2>3. new.id = a.id /\ new.subject = a.subject BY <2>1, <2>2 DEF Alert
  <2>4. alerts' = (alerts \ {a}) \cup {new} /\ pc' = pc /\ staged' = staged
    BY <1>4, <2>1 DEF MarkRead
  <2>5. \A b \in alerts : \E c \in alerts' : c.id = b.id /\ c.subject = b.subject
    BY <2>3, <2>4
  <2> QED BY <1>1, <1>4, <2>4, <2>5, MarkReadStep, OutboxKeeps
<1>5. CASE AbortCycle BY <1>5, AbortCycleStep
<1>6. ASSUME NEW p \in Syncers \ {Worker}, Abort(p), UNCHANGED webhook PROVE WebhookInv'
  <2>1. alerts' = alerts /\ Fail(p) BY <1>6 DEF Abort, Fail
  <2>2. AlertInv' BY <1>1, <2>1, FailStep
  <2>3. phase # "sync" => pc'[Worker] = pc[Worker] /\ staged'[Worker] = staged[Worker]
    BY <1>6, WorkerDispatches
  <2> QED BY <1>6, <2>1, <2>2, <2>3, OutboxKeeps
<1>7. CASE UNCHANGED allVars BY <1>7, WebhookStutter
<1> QED BY <1>2, <1>3, <1>4, <1>5, <1>6, <1>7 DEF WebhookNext, WebhookFaultless, WebhookFailure

LEMMA WebhookInvariant == WebhookSpec => []WebhookInv
<1> QED BY WebhookInitial, WebhookStep, PTL DEF WebhookSpec

\* What the database shows of an alert's delivery is a finished history, numbered
\* without gap and within max_attempts, of an alert that is there, for any number of
\* alerts and attempts.
THEOREM AttemptsOrdered == WebhookSpec => []AttemptsInOrder
<1>1. WebhookInv => AttemptsInOrder
  <2> SUFFICES ASSUME WebhookInv, NEW id \in {t.alert : t \in attempts}
               PROVE  LET tried == {t \in attempts : t.alert = id}
                          n == Cardinality(tried) IN
                      /\ \E a \in alerts : a.id = id
                      /\ n <= MaxAttempts
                      /\ {t.number : t \in tried} = 1..n
                      /\ \A t \in tried : /\ t.status # "started"
                                          /\ t.number < n => t.status = "failed" /\ t.retryable
    BY DEF AttemptsInOrder
  <2>1. id \in Nat BY DEF WebhookInv, WebhookTypeOK, Attempt
  <2>2. InOrder(Of(attempts, id)) BY <2>1 DEF WebhookInv, HistoriesOK
  <2>3. \A t \in attempts : t.status # "started" BY DEF WebhookInv, StartedOK
  <2>4. \E a \in alerts : a.id = id BY DEF WebhookInv
  <2> QED BY <2>2, <2>3, <2>4 DEF Of, InOrder
<1> QED BY <1>1, WebhookInvariant, PTL

\* Once the database says that an alert was delivered, refused for good or tried
\* max_attempts times, no request for it leaves the worker any more.
THEOREM SettledFinal == WebhookSpec => SettledIsFinal
<1> DEFINE Unsettled(x) ==
      LET tried == {t \in attempts : t.alert = x.alert} IN
      /\ \A t \in tried : t.status = "failed" /\ t.retryable
      /\ Cardinality(tried) < MaxAttempts
<1>1. WebhookInv /\ [WebhookNext]_allVars => [\A x \in posts' \ posts : Unsettled(x)]_allVars
  <2> SUFFICES ASSUME WebhookInv, WebhookNext, NEW x \in posts' \ posts PROVE Unsettled(x)
    OBVIOUS
  <2>1. SendPost
    BY DEF WebhookNext, WebhookFaultless, WebhookFailure, Outbox, SyncStep, Dispatch, webhook, ListAlerts,
       SkipAlert, Answer, NoAnswer, Finish, CommitCycle, AbortCycle
  <2>2. phase = "dispatch" /\ queue # {} /\ Pending(Oldest.alert) /\ x.alert = Oldest.alert
    BY <2>1 DEF SendPost
  <2>3. Oldest.alert \in Nat BY <2>2, OldestFacts
  <2>4. /\ \A t \in Tried(Oldest.alert) : t.status = "failed" /\ t.retryable
        /\ IsFiniteSet(Tried(Oldest.alert)) /\ Cardinality(Tried(Oldest.alert)) \in Nat
        /\ Cardinality(Tried(Oldest.alert)) < MaxAttempts
    BY <2>2, <2>3, PendingFacts
  <2>5. PICK tried : tried = {t \in attempts : t.alert = x.alert} OBVIOUS
  <2>6. tried \in SUBSET Tried(Oldest.alert) BY <2>2, <2>5 DEF Tried
  <2>7. /\ IsFiniteSet(tried) /\ Cardinality(tried) \in Nat
        /\ Cardinality(tried) <= Cardinality(Tried(Oldest.alert))
    BY <2>4, <2>6, FS_Subset, FS_CardinalityType
  <2>8. Cardinality(tried) < MaxAttempts BY <2>4, <2>7, WebhookAssumption
  <2> QED BY <2>4, <2>5, <2>6, <2>8
<1> QED BY <1>1, WebhookInvariant, PTL DEF WebhookSpec, SettledIsFinal

-----------------------------------------------------------------------------
(* The alerts of a worker that dispatches. *)

\* What changes the committed alerts: the commit of a synchronization, that of the
\* worker's cycle, and the mark.
LEMMA DispatchInboxStep ==
  ASSUME AlertInv, [WebhookNext]_allVars
  PROVE  [Inbox!Next]_(Entries(alerts))
<1>1. ASSUME NEW p \in Syncers, Commit(p) PROVE Inbox!Next
  BY <1>1, CommitDelivers DEF Inbox!Next
<1>2. ASSUME NEW a \in alerts, MarkRead(a) PROVE Inbox!Next
  BY <1>2, MarkReadReads DEF Inbox!Next
<1>3. \A p \in Syncers : Fail(p) => alerts' = alerts BY DEF Fail
<1>4. CASE Outbox
  <2>1. \A p \in Syncers : Work(p, NewId(Burnt)) => alerts' = alerts
    BY <1>3 DEF Work, ProfileMissing, ReadProfile, ReadRecords, NextProfile, KeepAlert,
       FindOpen, MissAlert, AddAlert, Insert, AlertCollides, AbortDeadlock
  <2>2. \A p \in Syncers : Begin(p) => alerts' = alerts BY DEF Begin, Sync, SyncAll
  <2>3. Change => alerts' = alerts BY DEF Change, SaveProfile, IngestRecord
  <2> QED BY <1>1, <1>4, <2>1, <2>2, <2>3 DEF Outbox, SyncStep
<1>5. CASE Dispatch
  <2>1. Worker \in Syncers BY AlertAssumption
  <2>2. CommitCycle => Inbox!Next BY <1>1, <2>1 DEF CommitCycle
  <2>3. ListAlerts \/ SkipAlert \/ SendPost => alerts' = alerts
    BY DEF ListAlerts, SkipAlert, SendPost, vars
  <2>4. Answer \/ NoAnswer => alerts' = alerts BY DEF Answer, NoAnswer, Finish, vars
  <2> QED BY <1>5, <2>2, <2>3, <2>4 DEF Dispatch
<1>6. CASE AbortCycle
  <2>1. Worker \in Syncers BY AlertAssumption
  <2> QED BY <1>3, <1>6, <2>1 DEF AbortCycle, Abort
<1>7. CASE \E p \in Syncers \ {Worker} : Abort(p) /\ UNCHANGED webhook
  BY <1>3, <1>7 DEF Abort
<1>8. CASE UNCHANGED allVars BY <1>8 DEF allVars, vars
<1> QED
  BY <1>2, <1>4, <1>5, <1>6, <1>7, <1>8
     DEF WebhookNext, WebhookFaultless, WebhookFailure

\* The dispatch, its retries and its rollbacks leave the inbox what it promises: the
\* alerts of a cycle appear together with its attempts or not at all, one for a subject,
\* for what was recommended.
THEOREM DispatchKeepsInbox ==
  WebhookSpec => [](OnePerSubject /\ AlertsAreJustified) /\ ImplementsInbox
<1>1. WebhookInv => OnePerSubject /\ AlertsAreJustified
  BY DEF WebhookInv, AlertInv, NoClash, Clash, OnePerSubject
<1>2. WebhookInit => Inbox!Init BY DEF WebhookInit, Init, Inbox!Init
<1>3. WebhookInv /\ [WebhookNext]_allVars
        => [Inbox!Next]_{[subject |-> a.subject, snapshot |-> a.snap, read |-> a.read] : a \in alerts}
  BY DispatchInboxStep DEF WebhookInv, Entries, EntryOf
<1> QED
  BY <1>1, <1>2, <1>3, WebhookInvariant, PTL DEF WebhookSpec, ImplementsInbox, Inbox!Spec
=============================================================================
