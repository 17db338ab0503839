--------------------------- MODULE ProfilesProofs ---------------------------
(***************************************************************************)
(* Proofs about Profiles, for any number of clients, slugs and payloads    *)
(* and any bound on the version.                                           *)
(*                                                                         *)
(* ActiveIsLatest is not inductive: what a transaction commits was decided *)
(* by reads that may be stale.  ProfilesInv adds what survives of them:    *)
(* ReadsOK (the version to insert is at most one ahead of the store, since *)
(* versions only grow), StagedOK (once the flush has passed the unique     *)
(* indexes it is exactly one ahead, and the row to deactivate is the       *)
(* active one) and OneWriter (two flushed transactions never share a slug).*)
(***************************************************************************)
EXTENDS Profiles, Sequences, SequenceTheorems, TLAPS

\* The versions of one request are of different slugs, the rows it deactivates
\* are of those slugs, and past the checks no version is more than one ahead.
ReadsOK(c) ==
  /\ \A v, w \in job[c].new : v.slug = w.slug => v = w
  /\ \A o \in job[c].old : \E v \in job[c].new : v.slug = o.slug
  /\ pc[c] = "idle" => job[c].old = {}
  /\ pc[c] \in {"select", "flush", "commit"} =>
       \A v \in job[c].new : v.version <= Count(v.slug) + 1

StagedOK(c) ==
  pc[c] = "commit" =>
    \A v \in job[c].new :
      /\ v.version = Count(v.slug) + 1
      /\ Count(v.slug) # 0 => [slug |-> v.slug, version |-> Count(v.slug)] \in job[c].old

OneWriter ==
  \A c, q \in Clients :
    pc[c] = "commit" /\ pc[q] = "commit" /\ c # q =>
      \A v \in job[c].new, w \in job[q].new : v.slug # w.slug

ProfilesInv ==
  /\ TypeOK
  /\ ActiveIsLatest
  /\ \A c \in Clients : ReadsOK(c) /\ StagedOK(c)
  /\ OneWriter

-----------------------------------------------------------------------------
(* Count. *)

\* 1..n determines n.
LEMMA IntervalBound ==
  ASSUME NEW n \in Nat, NEW m \in Nat, 1..n = 1..m
  PROVE  n = m
<1>1. CASE n < m
  <2>1. m \in 1..m /\ m \notin 1..n
    BY <1>1
  <2> QED BY <2>1
<1>2. CASE m < n
  <2>1. n \in 1..n /\ n \notin 1..m
    BY <1>2
  <2> QED BY <2>1
<1> QED BY <1>1, <1>2

\* A slug whose versions are 1..n has Count n.
LEMMA CountIs ==
  ASSUME NEW s, NEW n \in 0..MaxVersion, {r.version : r \in RowsOf(s)} = 1..n
  PROVE  Count(s) = n
<1> DEFINE P(m) == {r.version : r \in RowsOf(s)} = 1..m
<1>1. \E m \in 0..MaxVersion : P(m)
  OBVIOUS
<1>2. Count(s) \in 0..MaxVersion /\ P(Count(s))
  BY <1>1 DEF Count
<1>3. 1..Count(s) = 1..n
  BY <1>2
<1> QED BY <1>2, <1>3, IntervalBound, ProfilesAssumption

\* Count is a number as long as the versions of the slug are an interval.
LEMMA CountRange ==
  ASSUME NEW s, \E n \in 0..MaxVersion : {r.version : r \in RowsOf(s)} = 1..n
  PROVE  /\ Count(s) \in 0..MaxVersion
         /\ {r.version : r \in RowsOf(s)} = 1..Count(s)
<1>1. PICK n \in 0..MaxVersion : {r.version : r \in RowsOf(s)} = 1..n
  OBVIOUS
<1>2. Count(s) = n
  BY <1>1, CountIs
<1> QED BY <1>1, <1>2

\* ActiveIsLatest, in terms of Count.
LEMMA Ordered ==
  ASSUME ActiveIsLatest, NEW s \in Slugs
  PROVE  /\ Count(s) \in 0..MaxVersion
         /\ {r.version : r \in RowsOf(s)} = 1..Count(s)
         /\ \A r, q \in RowsOf(s) : r.version = q.version => r = q
         /\ \A r \in RowsOf(s) : r.active <=> r.version = Count(s)
<1>1. PICK n \in 0..MaxVersion :
        /\ {r.version : r \in RowsOf(s)} = 1..n
        /\ \A r, q \in RowsOf(s) : r.version = q.version => r = q
        /\ \A r \in RowsOf(s) : r.active <=> r.version = n
  BY DEF ActiveIsLatest
<1>2. Count(s) = n
  BY <1>1, CountIs
<1> QED BY <1>1, <1>2

-----------------------------------------------------------------------------
(* Types. *)

LEMMA InitTyped == Init => TypeOK
BY DEF Init, TypeOK, Steps, Job, NoJob, Replies

LEMMA VersionTyped ==
  ASSUME NEW s \in DOMAIN Demo
  PROVE  DemoVersion(s) \in Version
BY ProfilesAssumption DEF DemoVersion, Version

LEMMA NextTyped == TypeOK /\ [Next]_vars => TypeOK'
<1> SUFFICES ASSUME TypeOK, [Next]_vars PROVE TypeOK'
  OBVIOUS
<1> USE DEF TypeOK
<1>a. NoJob \in Job
  BY DEF NoJob, Job
<1>1. ASSUME NEW c \in Clients, Post(c) \/ Put(c) PROVE TypeOK'
  <2>1. PICK v \in Version : job' = [job EXCEPT ![c].new = {v}]
    BY <1>1 DEF Post, Put
  <2>2. job' \in [Clients -> Job]
    BY <2>1 DEF Job
  <2> QED BY <1>1, <2>2 DEF Post, Put, Ask, Goto, Steps, Replies
<1>2. ASSUME NEW c \in Clients, Seed(c) PROVE TypeOK'
  <2>1. CASE \A s \in DOMAIN Demo : RowsOf(s) = {} \/ Cardinality(ActiveRows(s)) = 1
    <3>1. job' = [job EXCEPT ![c].new =
                    {DemoVersion(s) : s \in {d \in DOMAIN Demo : RowsOf(d) = {}}}]
      BY <1>2, <2>1 DEF Seed
    <3>2. {DemoVersion(s) : s \in {d \in DOMAIN Demo : RowsOf(d) = {}}} \subseteq Version
      BY VersionTyped
    <3>3. job' \in [Clients -> Job]
      BY <3>1, <3>2 DEF Job
    <3> QED BY <1>2, <2>1, <3>3 DEF Seed, Ask, Goto, Steps, Replies
  <2>2. CASE ~\A s \in DOMAIN Demo : RowsOf(s) = {} \/ Cardinality(ActiveRows(s)) = 1
    BY <1>2, <1>a, <2>2 DEF Seed, Answer, Goto, Steps, Replies
  <2> QED BY <2>1, <2>2
<1>3. ASSUME NEW c \in Clients,
             \/ RefuseCreate(c) \/ AcceptCreate(c) \/ ProfileMissing(c) \/ ProfileFound(c)
             \/ RefuseVersion(c) \/ AcceptVersion(c) \/ Flush(c) \/ RejectFlush(c)
      PROVE  TypeOK'
  BY <1>3, <1>a DEF RefuseCreate, AcceptCreate, ProfileMissing, ProfileFound, RefuseVersion,
     AcceptVersion, Flush, RejectFlush, Answer, Goto, Steps, Replies
<1>4. ASSUME NEW c \in Clients, SelectActive(c) PROVE TypeOK'
  <2>1. {IdOf(r) : r \in UNION {ActiveRows(v.slug) : v \in job[c].new}} \subseteq Id
    BY DEF IdOf, Id, Row, ActiveRows, RowsOf
  <2>2. job' \in [Clients -> Job]
    BY <1>4, <2>1 DEF SelectActive, Job
  <2> QED BY <1>4, <2>2 DEF SelectActive, Goto, Steps
<1>5. ASSUME NEW c \in Clients, Publish(c) PROVE rows' \subseteq Row
  <2>1. ASSUME NEW r \in Row, NEW old PROVE Deactivate(r, old) \in Row
    BY DEF Deactivate, Row
  <2>2. ASSUME NEW v \in Version PROVE Inserted(v) \in Row
    BY DEF Inserted, Version, Row
  <2>3. job[c].new \subseteq Version
    BY DEF Job
  <2> QED BY <1>5, <2>1, <2>2, <2>3 DEF Publish
<1>6. ASSUME NEW c \in Clients, Commit(c) \/ CommitUnacknowledged(c) PROVE TypeOK'
  <2>1. rows' \subseteq Row
    BY <1>5, <1>6 DEF Commit, CommitUnacknowledged
  <2>2. acked' \subseteq Version
    BY <1>6 DEF Commit, CommitUnacknowledged, Job
  <2>3. \E how \in Replies : Answer(c, how)
    BY <1>6 DEF Commit, CommitUnacknowledged, Replies
  <2> QED BY <1>a, <2>1, <2>2, <2>3 DEF Answer, Goto, Steps
<1>7. ASSUME NEW c \in Clients, Abort(c) PROVE TypeOK'
  BY <1>7, <1>a DEF Abort, Answer, Goto, Steps, Replies
<1>8. CASE UNCHANGED vars
  BY <1>8 DEF vars
<1> QED
  BY <1>1, <1>2, <1>3, <1>4, <1>6, <1>7, <1>8 DEF Next, Request, Work, Fault

\* The state of the profile store and of every request keeps its type.
THEOREM ProfilesTyped == Spec => []TypeOK
BY InitTyped, NextTyped, PTL DEF Spec

-----------------------------------------------------------------------------
(* What a commit does to a slug. *)

LEMMA SameCount ==
  ASSUME UNCHANGED rows, NEW s
  PROVE  Count(s)' = Count(s) /\ RowsOf(s)' = RowsOf(s)
BY DEF Count, RowsOf

LEMMA DeactivateKeeps ==
  ASSUME NEW r \in Row, NEW old
  PROVE  /\ Deactivate(r, old) \in Row
         /\ Deactivate(r, old).slug = r.slug
         /\ Deactivate(r, old).version = r.version
         /\ Deactivate(r, old).payload = r.payload
         /\ Deactivate(r, old).active <=> r.active /\ IdOf(r) \notin old
BY DEF Deactivate, Row

LEMMA InsertedIs ==
  ASSUME NEW v \in Version
  PROVE  /\ Inserted(v) \in Row
         /\ Inserted(v).slug = v.slug
         /\ Inserted(v).version = v.version
         /\ Inserted(v).payload = v.payload
         /\ Inserted(v).active
BY DEF Inserted, Version, Row

Touches(c, s) == \E v \in job[c].new : v.slug = s

\* The rows of a slug the request does not touch stay as they are.
LEMMA Untouched ==
  ASSUME ProfilesInv, NEW c \in Clients, Publish(c), NEW s \in Slugs, ~Touches(c, s)
  PROVE  RowsOf(s)' = RowsOf(s) /\ Count(s)' = Count(s)
<1>1. job[c].new \subseteq Version /\ rows \subseteq Row
  BY DEF ProfilesInv, TypeOK, Job
<1>2. ASSUME NEW r \in rows, r.slug = s PROVE Deactivate(r, job[c].old) = r
  <2>1. IdOf(r).slug = s
    BY <1>2 DEF IdOf
  <2>2. IdOf(r) \notin job[c].old
    BY <2>1 DEF ProfilesInv, ReadsOK, Touches
  <2> QED BY <2>2 DEF Deactivate
<1>3. ASSUME NEW r \in rows' PROVE r.slug = s => r \in rows
  <2>1. CASE r \in {Inserted(v) : v \in job[c].new}
    BY <1>1, <2>1, InsertedIs DEF Touches
  <2>2. ASSUME NEW q \in rows, r = Deactivate(q, job[c].old) PROVE r.slug = s => r \in rows
    BY <1>1, <1>2, <2>2, DeactivateKeeps
  <2> QED BY <1>3, <2>1, <2>2 DEF Publish
<1>4. ASSUME NEW r \in rows, r.slug = s PROVE r \in rows'
  BY <1>2, <1>4 DEF Publish
<1>5. RowsOf(s)' = RowsOf(s)
  BY <1>3, <1>4 DEF RowsOf
<1> QED BY <1>5 DEF Count

\* A touched slug gains one version, Count + 1, and it alone is active.
LEMMA Touched ==
  ASSUME ProfilesInv, NEW c \in Clients, pc[c] = "commit", Publish(c),
         NEW v \in job[c].new
  PROVE  /\ Count(v.slug)' = Count(v.slug) + 1
         /\ RowsOf(v.slug)' = {Deactivate(r, job[c].old) : r \in RowsOf(v.slug)}
                              \cup {Inserted(v)}
         /\ {r.version : r \in RowsOf(v.slug)'} = 1..(Count(v.slug) + 1)
         /\ \A r, q \in RowsOf(v.slug)' : r.version = q.version => r = q
         /\ \A r \in RowsOf(v.slug)' : r.active <=> r.version = Count(v.slug) + 1
<1> DEFINE s == v.slug
           n == Count(s)
           old == job[c].old
<1>1. job[c].new \subseteq Version /\ rows \subseteq Row /\ v \in Version /\ s \in Slugs
  BY DEF ProfilesInv, TypeOK, Job, Version
<1>2. /\ n \in 0..MaxVersion
      /\ {r.version : r \in RowsOf(s)} = 1..n
      /\ \A r, q \in RowsOf(s) : r.version = q.version => r = q
      /\ \A r \in RowsOf(s) : r.active <=> r.version = n
  BY <1>1, Ordered DEF ProfilesInv
<1>3. v.version = n + 1 /\ (n # 0 => [slug |-> s, version |-> n] \in old)
  BY DEF ProfilesInv, StagedOK
<1>4. n + 1 \in 0..MaxVersion
  BY <1>1, <1>3, <1>2, ProfilesAssumption DEF Version
<1>5. RowsOf(s)' = {Deactivate(r, old) : r \in RowsOf(s)} \cup {Inserted(v)}
  <2>1. ASSUME NEW r \in rows', r.slug = s
        PROVE  r \in {Deactivate(q, old) : q \in RowsOf(s)} \cup {Inserted(v)}
    <3>1. CASE \E w \in job[c].new : r = Inserted(w)
      BY <1>1, <2>1, <3>1, InsertedIs DEF ProfilesInv, ReadsOK
    <3>2. CASE \E q \in rows : r = Deactivate(q, old)
      BY <1>1, <2>1, <3>2, DeactivateKeeps DEF RowsOf
    <3> QED BY <2>1, <3>1, <3>2 DEF Publish
  <2>2. ASSUME NEW q \in RowsOf(s)
        PROVE  Deactivate(q, old) \in rows' /\ Deactivate(q, old).slug = s
    BY <1>1, <2>2, DeactivateKeeps DEF RowsOf, Publish
  <2>3. Inserted(v) \in rows' /\ Inserted(v).slug = s
    BY <1>1, InsertedIs DEF Publish
  <2> QED BY <2>1, <2>2, <2>3 DEF RowsOf
<1> DEFINE After == {Deactivate(r, old) : r \in RowsOf(s)} \cup {Inserted(v)}
<1>6. ASSUME NEW r \in RowsOf(s)
      PROVE  /\ Deactivate(r, old).version = r.version
             /\ r.version \in 1..n
             /\ ~Deactivate(r, old).active
  <2>1. r \in Row /\ r.slug = s /\ r.version \in 1..n
    BY <1>1, <1>2, <1>6 DEF RowsOf
  <2>2. r.active => IdOf(r) \in old
    BY <1>2, <1>3, <1>6, <2>1 DEF IdOf
  <2> QED BY <2>1, <2>2, DeactivateKeeps
<1>7. Inserted(v).version = n + 1 /\ Inserted(v).active
  BY <1>1, <1>3, InsertedIs
<1>8. {r.version : r \in After} = 1..(n + 1)
  <2>1. ASSUME NEW m \in 1..(n + 1) PROVE \E r \in After : r.version = m
    <3>1. CASE m = n + 1
      BY <1>7, <3>1
    <3>2. CASE m \in 1..n
      BY <1>2, <1>6, <3>2
    <3> QED BY <1>2, <2>1, <3>1, <3>2
  <2>2. ASSUME NEW r \in After PROVE r.version \in 1..(n + 1)
    <3>1. CASE r = Inserted(v)
      BY <1>2, <1>7, <3>1
    <3>2. ASSUME NEW q \in RowsOf(s), r = Deactivate(q, old) PROVE r.version \in 1..(n + 1)
      BY <1>2, <1>6, <3>2
    <3> QED BY <2>2, <3>1, <3>2
  <2> QED BY <2>1, <2>2
<1>9. ASSUME NEW r \in After, NEW q \in After, r.version = q.version PROVE r = q
  <2>1. CASE r = Inserted(v) \/ q = Inserted(v)
    BY <1>2, <1>6, <1>7, <1>9, <2>1
  <2>2. ASSUME NEW a \in RowsOf(s), NEW b \in RowsOf(s),
               r = Deactivate(a, old), q = Deactivate(b, old)
        PROVE  r = q
    BY <1>2, <1>6, <1>9, <2>2
  <2> QED BY <1>9, <2>1, <2>2
<1>10. ASSUME NEW r \in After PROVE r.active <=> r.version = n + 1
  <2>1. CASE r = Inserted(v)
    BY <1>7, <2>1
  <2>2. ASSUME NEW a \in RowsOf(s), r = Deactivate(a, old)
        PROVE  r.active <=> r.version = n + 1
    BY <1>2, <1>6, <2>2
  <2> QED BY <1>10, <2>1, <2>2
<1>11. Count(s)' = n + 1
  <2>1. {r.version : r \in RowsOf(s)'} = 1..(n + 1)
    BY <1>5, <1>8
  <2> HIDE DEF n
  <2>2. PICK k \in 0..MaxVersion : k = n + 1
    BY <1>4
  <2>3. (\E m \in 0..MaxVersion : {r.version : r \in RowsOf(s)} = 1..m)'
    BY <1>4, <2>1
  <2>4. Count(s)' \in 0..MaxVersion /\ {r.version : r \in RowsOf(s)'} = 1..Count(s)'
    BY <2>3 DEF Count
  <2>5. 1..Count(s)' = 1..k
    BY <2>1, <2>2, <2>4
  <2> QED BY <2>2, <2>4, <2>5, IntervalBound, ProfilesAssumption
<1> QED BY <1>5, <1>8, <1>9, <1>10, <1>11

-----------------------------------------------------------------------------
(* The invariant. *)

LEMMA InitInv == Init => ProfilesInv
<1> SUFFICES ASSUME Init PROVE ProfilesInv
  OBVIOUS
<1>1. TypeOK
  BY InitTyped
<1>2. ActiveIsLatest
  <2>1. \A s \in Slugs : RowsOf(s) = {}
    BY DEF Init, RowsOf
  <2>2. 0 \in 0..MaxVersion /\ 1..0 = {}
    BY ProfilesAssumption
  <2> QED BY <2>1, <2>2 DEF ActiveIsLatest
<1>3. \A c \in Clients : job[c].new = {} /\ job[c].old = {} /\ pc[c] = "idle"
  BY DEF Init, NoJob
<1> QED BY <1>1, <1>2, <1>3 DEF ProfilesInv, ReadsOK, StagedOK, OneWriter

\* A step of c that leaves the rows and the other requests alone, and does not
\* flush, keeps the invariant if it keeps what c has read.
LEMMA QuietStep ==
  ASSUME ProfilesInv, TypeOK', UNCHANGED rows, NEW c \in Clients,
         \A d \in Clients \ {c} : pc'[d] = pc[d] /\ job'[d] = job[d],
         pc'[c] # "commit", ReadsOK(c)'
  PROVE  ProfilesInv'
<1>1. ActiveIsLatest'
  BY DEF ProfilesInv, ActiveIsLatest, RowsOf
<1>2. \A s : Count(s)' = Count(s)
  BY SameCount
<1>3. ASSUME NEW d \in Clients PROVE ReadsOK(d)' /\ StagedOK(d)'
  <2>1. CASE d = c
    BY <2>1 DEF StagedOK
  <2>2. CASE d # c
    BY <1>2, <2>2 DEF ProfilesInv, ReadsOK, StagedOK
  <2> QED BY <2>1, <2>2
<1>4. OneWriter'
  BY DEF ProfilesInv, OneWriter
<1> QED BY <1>1, <1>3, <1>4 DEF ProfilesInv

\* Answering closes the request.
LEMMA AnswerStep ==
  ASSUME ProfilesInv, TypeOK', UNCHANGED rows, NEW c \in Clients, NEW how, Answer(c, how)
  PROVE  ProfilesInv'
<1>1. /\ \A d \in Clients \ {c} : pc'[d] = pc[d] /\ job'[d] = job[d]
      /\ pc'[c] = "idle" /\ job'[c] = NoJob
  BY DEF ProfilesInv, TypeOK, Answer, Goto
<1>2. ReadsOK(c)'
  BY <1>1 DEF ReadsOK, NoJob
<1> QED BY <1>1, <1>2, QuietStep

\* The flush: the unique indexes leave exactly one place for the new version.
LEMMA FlushStep ==
  ASSUME ProfilesInv, TypeOK', NEW c \in Clients, Flush(c)
  PROVE  ProfilesInv'
<1>1. /\ \A d \in Clients \ {c} : pc'[d] = pc[d]
      /\ pc[c] = "flush" /\ pc'[c] = "commit"
      /\ UNCHANGED <<rows, job>> /\ Granted(c) /\ ~Collides(c)
  BY DEF ProfilesInv, TypeOK, Flush, Goto
<1>2. \A s : Count(s)' = Count(s)
  BY <1>1, SameCount
<1>3. ActiveIsLatest'
  BY <1>1 DEF ProfilesInv, ActiveIsLatest, RowsOf
<1>4. ASSUME NEW v \in job[c].new
      PROVE  /\ v.version = Count(v.slug) + 1
             /\ Count(v.slug) # 0 => [slug |-> v.slug, version |-> Count(v.slug)] \in job[c].old
  <2> DEFINE n == Count(v.slug)
  <2>1. v \in Version /\ v.slug \in Slugs /\ v.version \in 1..MaxVersion
    BY DEF ProfilesInv, TypeOK, Job, Version
  <2>2. /\ n \in 0..MaxVersion
        /\ {r.version : r \in RowsOf(v.slug)} = 1..n
        /\ \A r \in RowsOf(v.slug) : r.active <=> r.version = n
    BY <2>1, Ordered DEF ProfilesInv
  <2>3. v.version <= n + 1
    BY <1>1 DEF ProfilesInv, ReadsOK
  <2>4. v.version \notin 1..n
    BY <1>1, <2>2 DEF Collides
  <2>5. v.version = n + 1
    BY <2>1, <2>2, <2>3, <2>4, ProfilesAssumption
  <2>6. ASSUME n # 0 PROVE [slug |-> v.slug, version |-> n] \in job[c].old
    <3>1. n \in 1..n
      BY <2>2, <2>6, ProfilesAssumption
    <3>2. PICK r \in RowsOf(v.slug) : r.version = n
      BY <2>2, <3>1
    <3>3. r.active /\ r.slug = v.slug
      BY <2>2, <3>2 DEF RowsOf
    <3> QED BY <1>1, <3>2, <3>3 DEF Collides, IdOf
  <2> QED BY <2>5, <2>6
<1>5. ASSUME NEW d \in Clients PROVE ReadsOK(d)' /\ StagedOK(d)'
  <2>1. CASE d = c
    BY <1>1, <1>2, <1>4, <2>1 DEF ProfilesInv, ReadsOK, StagedOK
  <2>2. CASE d # c
    BY <1>1, <1>2, <2>2 DEF ProfilesInv, ReadsOK, StagedOK
  <2> QED BY <2>1, <2>2
<1>6. ASSUME NEW q \in Clients, q # c, pc[q] = "commit"
      PROVE  \A v \in job[c].new, w \in job[q].new : v.slug # w.slug
  BY <1>1, <1>6 DEF Granted, WaitsFor
<1>7. OneWriter'
  BY <1>1, <1>6 DEF ProfilesInv, OneWriter
<1> QED BY <1>3, <1>5, <1>7 DEF ProfilesInv

\* The commit: the touched slugs gain their version, nobody else had one staged.
LEMMA CommitStep ==
  ASSUME ProfilesInv, TypeOK', NEW c \in Clients, pc[c] = "commit", Publish(c),
         NEW how, Answer(c, how)
  PROVE  ProfilesInv'
<1>1. /\ \A d \in Clients \ {c} : pc'[d] = pc[d] /\ job'[d] = job[d]
      /\ pc'[c] = "idle" /\ job'[c] = NoJob
  BY DEF ProfilesInv, TypeOK, Answer, Goto
<1>2. ASSUME NEW d \in Clients, NEW v \in job[d].new
      PROVE  v.slug \in Slugs /\ v.version \in Nat /\ Count(v.slug) \in Nat
  <2>1. v.slug \in Slugs /\ v.version \in Nat
    BY <1>2, ProfilesAssumption DEF ProfilesInv, TypeOK, Job, Version
  <2> QED BY <2>1, Ordered, ProfilesAssumption DEF ProfilesInv
<1>3. ASSUME NEW s \in Slugs
      PROVE  Count(s)' = IF Touches(c, s) THEN Count(s) + 1 ELSE Count(s)
  BY <1>3, Touched, Untouched DEF Touches
<1>4. ActiveIsLatest'
  <2> SUFFICES ASSUME NEW s \in Slugs
               PROVE  \E n \in 0..MaxVersion :
                        /\ {r.version : r \in RowsOf(s)'} = 1..n
                        /\ \A r, q \in RowsOf(s)' : r.version = q.version => r = q
                        /\ \A r \in RowsOf(s)' : r.active <=> r.version = n
    BY DEF ActiveIsLatest
  <2>1. CASE Touches(c, s)
    <3>1. PICK v \in job[c].new : v.slug = s
      BY <2>1 DEF Touches
    <3>2. v.version = Count(s) + 1 /\ v.version \in 0..MaxVersion
      <4>1. v \in Version
        BY DEF ProfilesInv, TypeOK, Job
      <4>2. v.version \in 0..MaxVersion
        BY <4>1, ProfilesAssumption DEF Version
      <4> QED BY <3>1, <4>2 DEF ProfilesInv, StagedOK
    <3> QED BY <3>1, <3>2, Touched
  <2>2. CASE ~Touches(c, s)
    BY <2>2, Untouched, Ordered DEF ProfilesInv
  <2> QED BY <2>1, <2>2
<1>5. ASSUME NEW d \in Clients PROVE ReadsOK(d)' /\ StagedOK(d)'
  <2>1. CASE d = c
    BY <1>1, <2>1 DEF ReadsOK, StagedOK, NoJob
  <2>2. CASE d # c
    <3>1. pc'[d] = pc[d] /\ job'[d] = job[d]
      BY <1>1, <2>2
    <3>2. ASSUME NEW v \in job[d].new
          PROVE  /\ Count(v.slug)' >= Count(v.slug) /\ Count(v.slug)' \in Nat
                 /\ pc[d] = "commit" => Count(v.slug)' = Count(v.slug)
      <4>1. pc[d] = "commit" => ~Touches(c, v.slug)
        BY <2>2 DEF ProfilesInv, OneWriter, Touches
      <4> QED BY <1>2, <1>3, <4>1
    <3>3. ReadsOK(d)'
      <4>1. ReadsOK(d)
        BY DEF ProfilesInv
      <4>2. ASSUME NEW v \in job[d].new, v.version <= Count(v.slug) + 1
            PROVE  v.version <= Count(v.slug)' + 1
        BY <1>2, <3>2, <4>2
      <4> QED BY <3>1, <4>1, <4>2 DEF ReadsOK
    <3>4. StagedOK(d)'
      BY <3>1, <3>2 DEF ProfilesInv, StagedOK
    <3> QED BY <3>3, <3>4
  <2> QED BY <2>1, <2>2
<1>6. OneWriter'
  BY <1>1 DEF ProfilesInv, OneWriter
<1> QED BY <1>4, <1>5, <1>6 DEF ProfilesInv

LEMMA NextInv == ProfilesInv /\ [Next]_vars => ProfilesInv'
<1> SUFFICES ASSUME ProfilesInv, [Next]_vars PROVE ProfilesInv'
  OBVIOUS
<1>0. TypeOK /\ TypeOK'
  BY NextTyped DEF ProfilesInv
<1>1. ASSUME NEW c \in Clients, Post(c) \/ Put(c) PROVE ProfilesInv'
  <2>1. PICK v \in Version : job' = [job EXCEPT ![c].new = {v}]
    BY <1>1 DEF Post, Put
  <2>2. /\ \A d \in Clients \ {c} : pc'[d] = pc[d] /\ job'[d] = job[d]
        /\ pc'[c] \in {"seek", "find"} /\ pc[c] = "idle"
        /\ job'[c].new = {v} /\ job'[c].old = job[c].old /\ UNCHANGED rows
    BY <1>0, <1>1, <2>1 DEF TypeOK, Job, Post, Put, Ask, Goto
  <2>3. ReadsOK(c)'
    BY <2>2 DEF ProfilesInv, ReadsOK
  <2> QED BY <1>0, <2>2, <2>3, QuietStep
<1>2. ASSUME NEW c \in Clients, Seed(c) PROVE ProfilesInv'
  <2>1. CASE \E how : Answer(c, how)
    BY <1>0, <1>2, <2>1, AnswerStep DEF Seed
  <2>2. CASE ~\E how : Answer(c, how)
    <3> DEFINE new == {DemoVersion(s) : s \in {d \in DOMAIN Demo : RowsOf(d) = {}}}
    <3>1. /\ pc[c] = "idle" /\ UNCHANGED rows /\ Ask(c, "flush")
          /\ job' = [job EXCEPT ![c].new = new]
      BY <1>2, <2>2 DEF Seed
    <3>2. /\ \A d \in Clients \ {c} : pc'[d] = pc[d] /\ job'[d] = job[d]
          /\ pc'[c] = "flush"
          /\ job'[c].new = new /\ job'[c].old = job[c].old
      BY <1>0, <3>1 DEF TypeOK, Job, Ask, Goto
    <3>3. ASSUME NEW v \in new
          PROVE  v.version <= Count(v.slug) + 1
      <4>1. v.version = 1 /\ v.slug \in Slugs
        BY ProfilesAssumption DEF DemoVersion
      <4>2. Count(v.slug) \in Nat
        BY <4>1, Ordered, ProfilesAssumption DEF ProfilesInv
      <4> QED BY <4>1, <4>2
    <3>4. \A v, w \in new : v.slug = w.slug => v = w
      BY DEF DemoVersion
    <3>5. ReadsOK(c)'
      <4>1. \A s : Count(s)' = Count(s)
        BY <3>1, SameCount
      <4>2. job[c].old = {}
        BY <3>1 DEF ProfilesInv, ReadsOK
      <4> HIDE DEF new
      <4> QED BY <3>2, <3>3, <3>4, <4>1, <4>2 DEF ReadsOK
    <3> QED BY <1>0, <3>1, <3>2, <3>5, QuietStep
  <2> QED BY <2>1, <2>2
<1>3. ASSUME NEW c \in Clients,
             \/ RefuseCreate(c) \/ ProfileMissing(c) \/ RefuseVersion(c)
             \/ RejectFlush(c) \/ Abort(c)
      PROVE  ProfilesInv'
  BY <1>0, <1>3, AnswerStep DEF RefuseCreate, ProfileMissing, RefuseVersion, RejectFlush, Abort
<1>4. ASSUME NEW c \in Clients, ProfileFound(c) \/ AcceptCreate(c) \/ AcceptVersion(c)
      PROVE  ProfilesInv'
  <2>1. /\ \A d \in Clients \ {c} : pc'[d] = pc[d] /\ job'[d] = job[d]
        /\ pc'[c] \in {"compare", "flush", "select"}
        /\ pc'[c] # "compare" => AcceptCreate(c) \/ AcceptVersion(c)
        /\ UNCHANGED <<rows, job>>
    BY <1>0, <1>4 DEF TypeOK, ProfileFound, AcceptCreate, AcceptVersion, Goto
  <2>2. ASSUME NEW v \in job[c].new, AcceptCreate(c) \/ AcceptVersion(c)
        PROVE  v.version <= Count(v.slug) + 1
    <3>1. v.slug \in Slugs
      BY <1>0 DEF TypeOK, Job, Version
    <3>2. /\ Count(v.slug) \in Nat
          /\ {r.version : r \in RowsOf(v.slug)} = 1..Count(v.slug)
      BY <3>1, Ordered, ProfilesAssumption DEF ProfilesInv
    <3>3. CASE AcceptCreate(c)
      BY <3>2, <3>3 DEF AcceptCreate, Creatable
    <3>4. CASE AcceptVersion(c)
      <4>1. PICK r \in ActiveRows(v.slug) : v.version = r.version + 1
        BY <3>4 DEF AcceptVersion, Follows
      <4>2. r.version \in 1..Count(v.slug)
        BY <3>2, <4>1 DEF ActiveRows
      <4> QED BY <3>2, <4>1, <4>2
    <3> QED BY <2>2, <3>3, <3>4
  <2>3. ReadsOK(c)'
    <3>1. \A s : Count(s)' = Count(s)
      BY <2>1, SameCount
    <3> QED BY <2>1, <2>2, <3>1 DEF ProfilesInv, ReadsOK
  <2> QED BY <1>0, <2>1, <2>3, QuietStep
<1>5. ASSUME NEW c \in Clients, SelectActive(c) PROVE ProfilesInv'
  <2>1. /\ \A d \in Clients \ {c} : pc'[d] = pc[d] /\ job'[d] = job[d]
        /\ pc[c] = "select" /\ pc'[c] = "flush" /\ UNCHANGED rows
        /\ job'[c].new = job[c].new
        /\ job'[c].old = {IdOf(r) : r \in UNION {ActiveRows(v.slug) : v \in job[c].new}}
    BY <1>0, <1>5 DEF TypeOK, Job, SelectActive, Goto
  <2>2. ASSUME NEW o \in job'[c].old PROVE \E v \in job'[c].new : v.slug = o.slug
    BY <2>1 DEF IdOf, ActiveRows, RowsOf
  <2>3. ReadsOK(c)'
    <3>1. \A s : Count(s)' = Count(s)
      BY <2>1, SameCount
    <3> QED BY <2>1, <2>2, <3>1 DEF ProfilesInv, ReadsOK
  <2> QED BY <1>0, <2>1, <2>3, QuietStep
<1>6. ASSUME NEW c \in Clients, Flush(c) PROVE ProfilesInv'
  BY <1>0, <1>6, FlushStep
<1>7. ASSUME NEW c \in Clients, Commit(c) \/ CommitUnacknowledged(c) PROVE ProfilesInv'
  BY <1>0, <1>7, CommitStep DEF Commit, CommitUnacknowledged
<1>8. CASE UNCHANGED vars
  <2>1. UNCHANGED <<rows, pc, job>>
    BY <1>8 DEF vars
  <2>2. \A s : Count(s)' = Count(s)
    BY <2>1, SameCount
  <2>3. ActiveIsLatest'
    BY <2>1 DEF ProfilesInv, ActiveIsLatest, RowsOf
  <2>4. ASSUME NEW d \in Clients PROVE ReadsOK(d)' /\ StagedOK(d)'
    BY <2>1, <2>2 DEF ProfilesInv, ReadsOK, StagedOK
  <2>5. OneWriter'
    BY <2>1 DEF ProfilesInv, OneWriter
  <2> QED BY <1>0, <2>3, <2>4, <2>5 DEF ProfilesInv
<1> QED
  BY <1>1, <1>2, <1>3, <1>4, <1>5, <1>6, <1>7, <1>8 DEF Next, Request, Work, Fault

LEMMA InvHolds == Spec => []ProfilesInv
BY InitInv, NextInv, PTL DEF Spec

\* Whatever the requests interleave, the versions of every slug are 1 to n and
\* exactly the n-th is active: also when PUTs race, POST races seeding, and
\* connections are lost in the middle.
THEOREM ActiveIsLatestHolds == Spec => []ActiveIsLatest
<1>1. ProfilesInv => ActiveIsLatest
  BY DEF ProfilesInv
<1> QED BY <1>1, InvHolds, PTL

-----------------------------------------------------------------------------
(* The refinement: the table implements ProfileLog. *)

PayloadsOf(s) == [n \in 1..Count(s) |-> PayloadOf(s, n)]

\* Version numbers identify rows, so the payload of version n is that of the row.
LEMMA PayloadOfRow ==
  ASSUME NEW s, NEW r \in RowsOf(s),
         \A p, q \in RowsOf(s) : p.version = q.version => p = q
  PROVE  PayloadOf(s, r.version) = r.payload
BY DEF PayloadOf

LEMMA SamePayloads ==
  ASSUME NEW s, RowsOf(s)' = RowsOf(s), Count(s)' = Count(s)
  PROVE  PayloadsOf(s)' = PayloadsOf(s)
BY DEF PayloadsOf, PayloadOf

\* A commit appends the payload of the version it inserts.
LEMMA PayloadsAppend ==
  ASSUME ProfilesInv, NEW c \in Clients, pc[c] = "commit", Publish(c),
         NEW v \in job[c].new
  PROVE  PayloadsOf(v.slug)' = Append(PayloadsOf(v.slug), v.payload)
<1> DEFINE s == v.slug
<1>0. PICK n : n = Count(s)
  OBVIOUS
<1>1. v \in Version /\ s \in Slugs /\ rows \subseteq Row
  BY DEF ProfilesInv, TypeOK, Job, Version
<1>2. /\ n \in Nat
      /\ {r.version : r \in RowsOf(s)} = 1..n
      /\ \A p, q \in RowsOf(s) : p.version = q.version => p = q
  BY <1>0, <1>1, Ordered, ProfilesAssumption DEF ProfilesInv
<1>3. /\ Count(s)' = n + 1
      /\ RowsOf(s)' = {Deactivate(r, job[c].old) : r \in RowsOf(s)} \cup {Inserted(v)}
      /\ \A p, q \in RowsOf(s)' : p.version = q.version => p = q
  BY <1>0, Touched
<1>4. v.version = n + 1
  BY <1>0 DEF ProfilesInv, StagedOK
<1>5. ASSUME NEW r \in RowsOf(s)' PROVE PayloadOf(s, r.version)' = r.payload
  <2>1. (CHOOSE q \in RowsOf(s)' : q.version = r.version) = r
    BY <1>3
  <2> QED BY <2>1 DEF PayloadOf
<1>6. PayloadOf(s, n + 1)' = v.payload
  <2>1. Inserted(v) \in RowsOf(s)'
    BY <1>3
  <2> QED BY <1>1, <1>4, <1>5, <2>1, InsertedIs
<1>7. ASSUME NEW m \in 1..n PROVE PayloadOf(s, m)' = PayloadOf(s, m)
  <2>1. PICK r \in RowsOf(s) : r.version = m
    BY <1>2
  <2>2. /\ Deactivate(r, job[c].old) \in RowsOf(s)'
        /\ Deactivate(r, job[c].old).version = m
        /\ Deactivate(r, job[c].old).payload = r.payload
    BY <1>1, <1>3, <2>1, DeactivateKeeps DEF RowsOf
  <2>3. PayloadOf(s, m)' = r.payload
    BY <1>5, <2>2
  <2> QED BY <1>2, <2>1, <2>3, PayloadOfRow
<1> HIDE DEF s
<1> DEFINE old == PayloadsOf(s)
           new == PayloadsOf(s)'
<1>8. old = [m \in 1..n |-> PayloadOf(s, m)]
  BY <1>0 DEF PayloadsOf
<1>9. new = [m \in 1..(n + 1) |-> PayloadOf(s, m)']
  BY <1>3 DEF PayloadsOf
<1>10. old \in Seq(Payloads) /\ Len(old) = n
  <2>1. ASSUME NEW m \in 1..n PROVE PayloadOf(s, m) \in Payloads
    <3>1. PICK r \in RowsOf(s) : r.version = m
      BY <1>2, <2>1
    <3>2. PayloadOf(s, m) = r.payload
      BY <1>2, <3>1, PayloadOfRow
    <3> QED BY <1>1, <3>2 DEF RowsOf, Row
  <2>2. old \in [1..n -> Payloads]
    BY <1>8, <2>1
  <2> QED BY <1>2, <2>2
<1>11. /\ Append(old, v.payload) \in Seq(Payloads)
       /\ Len(Append(old, v.payload)) = n + 1
       /\ \A m \in 1..n : Append(old, v.payload)[m] = old[m]
       /\ Append(old, v.payload)[n + 1] = v.payload
  <2>1. v.payload \in Payloads
    BY <1>1 DEF Version
  <2> HIDE DEF old
  <2> QED BY <1>10, <2>1, AppendProperties
<1>12. new = Append(old, v.payload)
  <2>1. Append(old, v.payload) = [m \in 1..(n + 1) |-> Append(old, v.payload)[m]]
    BY <1>2, <1>11
  <2>2. ASSUME NEW m \in 1..(n + 1) PROVE PayloadOf(s, m)' = Append(old, v.payload)[m]
    <3>1. CASE m = n + 1
      BY <1>6, <1>11, <3>1
    <3>2. CASE m \in 1..n
      BY <1>7, <1>8, <1>11, <3>2
    <3>3. m = n + 1 \/ m \in 1..n
      BY <1>2
    <3> QED BY <3>1, <3>2, <3>3
  <2> HIDE DEF old
  <2> QED BY <1>9, <2>1, <2>2
<1> QED BY <1>12 DEF s

\* The mapped log of the initial state is empty.
LEMMA InitLog == Init => Log!Init
<1> SUFFICES ASSUME Init PROVE Log!Init
  OBVIOUS
<1>1. ASSUME NEW s \in Slugs PROVE Count(s) = 0
  <2>1. RowsOf(s) = {}
    BY DEF Init, RowsOf
  <2>2. {r.version : r \in RowsOf(s)} = 1..0 /\ 0 \in 0..MaxVersion
    BY <2>1, ProfilesAssumption
  <2> QED BY <2>2, CountIs
<1>2. ASSUME NEW s \in Slugs PROVE [n \in 1..Count(s) |-> PayloadOf(s, n)] = <<>>
  BY <1>1
<1> QED BY <1>2 DEF Log!Init, Init

LogVars == <<[s \in Slugs |-> [n \in 1..Count(s) |-> PayloadOf(s, n)]], acked>>

\* A commit saves the batch of the request's versions.
LEMMA CommitSaves ==
  ASSUME ProfilesInv, NEW c \in Clients, pc[c] = "commit", Publish(c),
         acked' \in {acked, acked \cup job[c].new}
  PROVE  Log!Next
<1> DEFINE log == [s \in Slugs |-> PayloadsOf(s)]
           touched == {v.slug : v \in job[c].new}
           of(s) == CHOOSE v \in job[c].new : v.slug = s
           batch == [s \in touched |-> of(s).payload]
<1>1. job[c].new \subseteq Version
  BY DEF ProfilesInv, TypeOK, Job
<1>2. touched \in SUBSET Slugs
  BY <1>1 DEF Version
<1>3. ASSUME NEW v \in job[c].new PROVE of(v.slug) = v
  BY <1>1 DEF ProfilesInv, ReadsOK
<1>4. batch \in [touched -> Payloads]
  <2>1. ASSUME NEW s \in touched PROVE of(s).payload \in Payloads
    BY <1>1, <1>3 DEF Version
  <2> QED BY <2>1
<1>5. ASSUME NEW s \in Slugs
      PROVE  PayloadsOf(s)' = IF s \in touched THEN Append(PayloadsOf(s), batch[s])
                              ELSE PayloadsOf(s)
  <2>1. ASSUME NEW v \in job[c].new, s = v.slug
        PROVE  PayloadsOf(s)' = Append(PayloadsOf(s), batch[s])
    <3>1. s \in touched /\ batch[s] = v.payload
      BY <1>3, <2>1
    <3> QED BY <2>1, <3>1, PayloadsAppend
  <2>2. CASE s \notin touched
    <3>1. ~Touches(c, s)
      BY <2>2 DEF Touches
    <3>2. RowsOf(s)' = RowsOf(s) /\ Count(s)' = Count(s)
      BY <3>1, Untouched
    <3> QED BY <2>2, <3>2, SamePayloads
  <2> QED BY <2>1, <2>2
<1>6. {[slug |-> s, version |-> Len(log[s]) + 1, payload |-> batch[s]] : s \in touched}
        = job[c].new
  <2>1. ASSUME NEW v \in job[c].new
        PROVE  [slug |-> v.slug, version |-> Len(log[v.slug]) + 1, payload |-> batch[v.slug]] = v
    <3>1. v \in Version /\ v.slug \in Slugs /\ v.slug \in touched
      BY <1>1 DEF Version
    <3>2. batch[v.slug] = v.payload
      BY <1>3, <3>1
    <3>3. Count(v.slug) \in Nat
      BY <3>1, Ordered, ProfilesAssumption DEF ProfilesInv
    <3>4. Len(log[v.slug]) = Count(v.slug)
      BY <3>1, <3>3 DEF PayloadsOf
    <3>5. v.version = Len(log[v.slug]) + 1
      BY <3>4 DEF ProfilesInv, StagedOK
    <3> HIDE DEF log, batch
    <3> QED BY <3>1, <3>2, <3>5 DEF Version
  <2> HIDE DEF log, batch
  <2> QED BY <2>1
<1>7. Log!Save(batch)
  <2>1. log' = [s \in Slugs |-> IF s \in DOMAIN batch THEN Append(log[s], batch[s]) ELSE log[s]]
    BY <1>5
  <2>2. acked' \in {acked, acked \cup Log!Added(batch)}
    BY <1>6 DEF Log!Added, PayloadsOf
  <2> HIDE DEF batch
  <2> QED BY <2>1, <2>2 DEF Log!Save, PayloadsOf
<1> QED BY <1>2, <1>4, <1>7 DEF Log!Next

\* Every step saves a batch of versions or stutters.
LEMMA StepLog == ProfilesInv /\ [Next]_vars => [Log!Next]_LogVars
<1> SUFFICES ASSUME ProfilesInv, [Next]_vars PROVE [Log!Next]_LogVars
  OBVIOUS
<1>1. ASSUME UNCHANGED <<rows, acked>> PROVE UNCHANGED LogVars
  <2>1. ASSUME NEW s PROVE PayloadsOf(s)' = PayloadsOf(s)
    BY <1>1, SameCount, SamePayloads
  <2> QED BY <1>1, <2>1 DEF LogVars, PayloadsOf
<1>2. ASSUME NEW c \in Clients, Commit(c) \/ CommitUnacknowledged(c) PROVE Log!Next
  BY <1>2, CommitSaves DEF Commit, CommitUnacknowledged
<1>3. ASSUME NEW c \in Clients, Request(c) \/ Abort(c) \/ Work(c), ~Commit(c)
      PROVE  UNCHANGED <<rows, acked>>
  BY <1>3 DEF Request, Post, Put, Seed, Abort, Work, RefuseCreate, AcceptCreate, ProfileMissing,
     ProfileFound, RefuseVersion, AcceptVersion, SelectActive, Flush, RejectFlush
<1>4. CASE UNCHANGED vars
  BY <1>1, <1>4 DEF vars
<1> QED BY <1>1, <1>2, <1>3, <1>4 DEF Next, Fault

\* The table implements an append-only log per slug: no acknowledged version is
\* ever lost, overwritten or renumbered.
THEOREM LogImplemented == Spec => ImplementsLog
<1>1. Init => Log!Init
  BY InitLog
<1>2. ProfilesInv /\ [Next]_vars => [Log!Next]_LogVars
  BY StepLog
<1> QED BY <1>1, <1>2, InvHolds, PTL DEF Spec, ImplementsLog, Log!Spec, LogVars
=============================================================================
