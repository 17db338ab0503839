------------------------------ MODULE Profiles ------------------------------
(***************************************************************************)
(* Versioned company profiles: POST and PUT /api/profiles (api.py) and the *)
(* demo seed of init (bootstrap.py) over company_profiles, through         *)
(* create_profile, add_profile_version and seed_profiles of                *)
(* persistence/repository.py.                                              *)
(*                                                                         *)
(* The endpoints run in a thread pool and init is a process of its own,    *)
(* each in one READ COMMITTED transaction: every SELECT is a step and sees *)
(* what is committed when it runs.  The flush is one step.  From it to the *)
(* commit the rows it wrote are locked (pc = "commit"), and its inserts    *)
(* are in the unique indexes on (slug, version) and on the active slug.    *)
(***************************************************************************)
EXTENDS Integers, FiniteSets

CONSTANTS Clients,     \* threads and processes
          Seeders,     \* those of them that run init
          Slugs,
          Payloads,    \* everything of a profile but its slug and version
          Demo,        \* the payloads of the demo profiles, a function from slugs
          MaxVersion   \* bound: the highest version a request names

ASSUME ProfilesAssumption ==
  /\ MaxVersion \in Nat \ {0}
  /\ Seeders \subseteq Clients
  /\ DOMAIN Demo \subseteq Slugs
  /\ \A s \in DOMAIN Demo : Demo[s] \in Payloads

VARIABLES rows,   \* company_profiles
          pc, job,
          reply,  \* how the last request of each client was answered
          acked   \* ghost: the versions whose callers were told "saved"

vars == <<rows, pc, job, reply, acked>>

Id == [slug : Slugs, version : 1..MaxVersion]
Version == [slug : Slugs, version : 1..MaxVersion, payload : Payloads]
Row == [slug : Slugs, version : 1..MaxVersion, payload : Payloads, active : BOOLEAN]

\* new: the versions to insert; old: the rows to deactivate.
Job == [new : SUBSET Version, old : SUBSET Id]
NoJob == [new |-> {}, old |-> {}]

Steps == {"idle", "seek", "find", "compare", "select", "flush", "commit"}

\* "saved": 201 or 200; "conflict": 409; "missing": 404; "error": 500, or init
\* failed; "none": no answer.
Replies == {"none", "saved", "conflict", "missing", "error"}

TypeOK ==
  /\ rows \subseteq Row
  /\ pc \in [Clients -> Steps]
  /\ job \in [Clients -> Job]
  /\ reply \in [Clients -> Replies]
  /\ acked \subseteq Version

Init ==
  /\ rows = {}
  /\ pc = [c \in Clients |-> "idle"]
  /\ job = [c \in Clients |-> NoJob]
  /\ reply = [c \in Clients |-> "none"]
  /\ acked = {}

-----------------------------------------------------------------------------

RowsOf(s) == {r \in rows : r.slug = s}
ActiveRows(s) == {r \in RowsOf(s) : r.active}
IdOf(v) == [slug |-> v.slug, version |-> v.version]

\* The versions of s are 1..Count(s), as long as the store is in order.
Count(s) == CHOOSE n \in 0..MaxVersion : {r.version : r \in RowsOf(s)} = 1..n

Goto(c, step) == pc' = [pc EXCEPT ![c] = step]

\* A request begins, at its first step.
Ask(c, step) ==
  /\ Goto(c, step)
  /\ reply' = [reply EXCEPT ![c] = "none"]

\* The transaction is over and the caller has its answer.
Answer(c, how) ==
  /\ Goto(c, "idle")
  /\ job' = [job EXCEPT ![c] = NoJob]
  /\ reply' = [reply EXCEPT ![c] = how]

\* Mutant: the rows are locked when they are read, shared, and then upgraded.
WaitsForReader(c, q) ==
  /\ c # q
  /\ pc[c] = "flush" /\ pc[q] \in {"flush", "commit"}
  /\ \E n \in job[c].new, m \in job[q].new : n.slug = m.slug

\* A flush of c waits for q's transaction: q has inserted an active row of a
\* slug c inserts (and deactivated the row c would deactivate).
WaitsFor(c, q) ==
  /\ c # q
  /\ pc[c] = "flush" /\ pc[q] = "commit"
  /\ \E n \in job[c].new, m \in job[q].new : n.slug = m.slug

Granted(c) == \A q \in Clients : ~WaitsFor(c, q)

-----------------------------------------------------------------------------
(* POST /api/profiles. *)

Post(c) ==
  /\ pc[c] = "idle"
  /\ \E v \in Version : job' = [job EXCEPT ![c].new = {v}]
  /\ Ask(c, "seek")
  /\ UNCHANGED <<rows, acked>>

\* create_profile raises unless the version is 1 and the slug has no row.
Creatable(v) == v.version = 1 /\ RowsOf(v.slug) = {}

RefuseCreate(c) ==
  /\ pc[c] = "seek"
  /\ \E v \in job[c].new : ~Creatable(v)
  /\ Answer(c, "conflict")
  /\ UNCHANGED <<rows, acked>>

AcceptCreate(c) ==
  /\ pc[c] = "seek"
  /\ \A v \in job[c].new : Creatable(v)
  /\ Goto(c, "flush")
  /\ UNCHANGED <<rows, job, reply, acked>>

-----------------------------------------------------------------------------
(* PUT /api/profiles/{slug}: the endpoint reads the active version, then    *)
(* add_profile_version reads it twice more.                                 *)

Put(c) ==
  /\ pc[c] = "idle"
  /\ \E v \in Version : job' = [job EXCEPT ![c].new = {v}]
  /\ Ask(c, "find")
  /\ UNCHANGED <<rows, acked>>

ProfileMissing(c) ==
  /\ pc[c] = "find"
  /\ \E v \in job[c].new : ActiveRows(v.slug) = {}
  /\ Answer(c, "missing")
  /\ UNCHANGED <<rows, acked>>

ProfileFound(c) ==
  /\ pc[c] = "find"
  /\ \A v \in job[c].new : ActiveRows(v.slug) # {}
  /\ Goto(c, "compare")
  /\ UNCHANGED <<rows, job, reply, acked>>

\* get_profile: of the active versions, the latest.
Follows(v) == \E r \in ActiveRows(v.slug) :
                /\ v.version = r.version + 1
                /\ \A q \in ActiveRows(v.slug) : q.version <= r.version

\* "profile version must increment the active version by exactly one"
RefuseVersion(c) ==
  /\ pc[c] = "compare"
  /\ \E v \in job[c].new : ~Follows(v)
  /\ Answer(c, "conflict")
  /\ UNCHANGED <<rows, acked>>

AcceptVersion(c) ==
  /\ pc[c] = "compare"
  /\ \A v \in job[c].new : Follows(v)
  /\ Goto(c, "select")
  /\ UNCHANGED <<rows, job, reply, acked>>

\* SELECT the active rows, to deactivate them.
SelectActive(c) ==
  /\ pc[c] = "select"
  /\ job' = [job EXCEPT ![c].old =
               {IdOf(r) : r \in UNION {ActiveRows(v.slug) : v \in job[c].new}}]
  /\ Goto(c, "flush")
  /\ UNCHANGED <<rows, reply, acked>>

-----------------------------------------------------------------------------
(* init: seed_profiles. *)

DemoVersion(s) == [slug |-> s, version |-> 1, payload |-> Demo[s]]

\* Only slugs without any row are seeded; any other must have one active row.
Seed(c) ==
  /\ pc[c] = "idle"
  /\ c \in Seeders
  /\ IF \A s \in DOMAIN Demo : RowsOf(s) = {} \/ Cardinality(ActiveRows(s)) = 1
     THEN /\ job' = [job EXCEPT ![c].new =
                       {DemoVersion(s) : s \in {d \in DOMAIN Demo : RowsOf(d) = {}}}]
          /\ Ask(c, "flush")
     ELSE Answer(c, "error")
  /\ UNCHANGED <<rows, acked>>

-----------------------------------------------------------------------------
(* The flush and the commit. *)

\* Mutant: the table has no unique index.
NoUniqueIndex(c) == FALSE

\* The unique indexes: on (slug, version), and on the slug of active rows.
Collides(c) ==
  \E v \in job[c].new : \E r \in RowsOf(v.slug) :
    r.version = v.version \/ (r.active /\ IdOf(r) \notin job[c].old)

Flush(c) ==
  /\ pc[c] = "flush"
  /\ Granted(c)
  /\ ~Collides(c)
  /\ Goto(c, "commit")
  /\ UNCHANGED <<rows, job, reply, acked>>

\* Mutant: a duplicate is taken for one's own and answered as saved.
AcceptDuplicate(c) ==
  /\ pc[c] = "flush"
  /\ Granted(c)
  /\ Collides(c)
  /\ Answer(c, "saved")
  /\ acked' = acked \cup job[c].new
  /\ UNCHANGED rows

\* IntegrityError is not a ValueError: nobody turns it into a 409.
RejectFlush(c) ==
  /\ pc[c] = "flush"
  /\ Granted(c)
  /\ Collides(c)
  /\ Answer(c, "error")
  /\ UNCHANGED <<rows, acked>>

Inserted(v) == [slug |-> v.slug, version |-> v.version, payload |-> v.payload, active |-> TRUE]

Deactivate(r, old) == IF IdOf(r) \in old THEN [r EXCEPT !.active = FALSE] ELSE r

Publish(c) ==
  rows' = {Deactivate(r, job[c].old) : r \in rows} \cup {Inserted(v) : v \in job[c].new}

Commit(c) ==
  /\ pc[c] = "commit"
  /\ Publish(c)
  /\ acked' = acked \cup job[c].new
  /\ Answer(c, "saved")

\* The connection is lost after the server committed: an error that is none.
CommitUnacknowledged(c) ==
  /\ pc[c] = "commit"
  /\ Publish(c)
  /\ Answer(c, "error")
  /\ UNCHANGED acked

\* A statement fails, or the process dies: the transaction is rolled back.
Abort(c) ==
  /\ pc[c] # "idle"
  /\ \E how \in {"error", "none"} : Answer(c, how)
  /\ UNCHANGED <<rows, acked>>

-----------------------------------------------------------------------------

Request(c) == Post(c) \/ Put(c) \/ Seed(c)

Work(c) ==
  \/ RefuseCreate(c) \/ AcceptCreate(c)
  \/ ProfileMissing(c) \/ ProfileFound(c)
  \/ RefuseVersion(c) \/ AcceptVersion(c) \/ SelectActive(c)
  \/ Flush(c) \/ RejectFlush(c) \/ Commit(c)

Fault(c) == CommitUnacknowledged(c) \/ Abort(c)

Next == \E c \in Clients : Request(c) \/ Work(c) \/ Fault(c)

Spec == Init /\ [][Next]_vars

\* A request that was begun goes on when it can; PostgreSQL wakes whoever waits
\* for a transaction when it ends, so nobody is overtaken for ever.
Fairness == \A c \in Clients : /\ WF_vars(Work(c))
                               /\ SF_vars(Flush(c) \/ RejectFlush(c))

FairSpec == Spec /\ Fairness

-----------------------------------------------------------------------------
(* Properties. *)

\* Whatever POST, PUT and seeding interleave, the versions of a slug are 1 to n,
\* each once, and the active one is version n and no other: what every reader
\* (get_profile, list_profiles, the live cycle) takes for the profile.
ActiveIsLatest ==
  \A s \in Slugs : \E n \in 0..MaxVersion :
    /\ {r.version : r \in RowsOf(s)} = 1..n
    /\ \A r, q \in RowsOf(s) : r.version = q.version => r = q
    /\ \A r \in RowsOf(s) : r.active <=> r.version = n

\* No acknowledged update is lost or overwritten, and saved versions never
\* change: the table implements an append-only log per slug.
PayloadOf(s, n) == (CHOOSE r \in RowsOf(s) : r.version = n).payload

Log == INSTANCE ProfileLog WITH log <- [s \in Slugs |-> [n \in 1..Count(s) |-> PayloadOf(s, n)]]

ImplementsLog == Log!Spec

\* Every request is answered: nobody waits for ever for a lock.
RequestsEnd == \A c \in Clients : pc[c] # "idle" ~> pc[c] = "idle"
=============================================================================
