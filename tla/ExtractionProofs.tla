-------------------------- MODULE ExtractionProofs --------------------------
(* What holds of Extraction for every value of the constants. *)
EXTENDS Extraction, FiniteSetTheorems, TLAPS

\* A request past the context has a version.
HasVersion(p) == pc[p] \in {"find", "call", "add", "commit"} => job[p].version \in Versions

TypeInv == /\ TypeOK
           /\ \A p \in Requests : HasVersion(p)
           /\ IsFiniteSet(attempts)

\* What is about to be recorded as validated is supported by its version.
SupportedRow(p) ==
  pc[p] \in {"add", "commit"} /\ job[p].outcome.status = "validated" =>
    job[p].outcome.claims \subseteq FactsOf[job[p].version]

SupportInv == EvidenceIsSupported /\ \A p \in Requests : SupportedRow(p)

\* What was known when a request came is still there.
KnownStays(p) == \A v \in job[p].known : Validated(v) # {}
NotKnown(p) == pc[p] \in {"call", "add", "commit"} => job[p].version \notin job[p].known

CacheInv == \A p \in Requests : KnownStays(p) /\ NotKnown(p)

-----------------------------------------------------------------------------
(* Types. *)

LEMMA NoJobType == NoJob \in Job /\ \A r \in BOOLEAN : Failed(r) \in Outcome
BY ExtractionAssumption DEF NoJob, Job, Failed, Outcome, Times, Versions

\* A step of p that leaves the record, the attempts and the clock alone.
LEMMA LocalStep ==
  ASSUME TypeInv, NEW p \in Requests, NEW s \in Steps, NEW j \in Job,
         UNCHANGED <<open, attempts, clock>>,
         Goto(p, s), job' = [job EXCEPT ![p] = j],
         s \in {"find", "call", "add", "commit"} => j.version \in Versions
  PROVE  TypeInv'
<1>1. TypeOK' BY DEF TypeInv, TypeOK, Goto
<1>2. ASSUME NEW q \in Requests PROVE HasVersion(q)'
  BY DEF TypeInv, TypeOK, Goto, HasVersion
<1> QED BY <1>1, <1>2 DEF TypeInv

LEMMA LeaveStep ==
  ASSUME TypeInv, NEW p \in Requests, UNCHANGED <<open, attempts, clock>>, Leave(p)
  PROVE  TypeInv'
BY NoJobType, LocalStep DEF Leave, Steps

LEMMA TypeStep == TypeInv /\ [Next]_vars => TypeInv'
<1> SUFFICES ASSUME TypeInv, [Next]_vars PROVE TypeInv' OBVIOUS
<1> USE DEF TypeInv, TypeOK
<1>1. CASE NewVersion
  <2>1. open' \in 0..MaxVersion BY <1>1, ExtractionAssumption DEF NewVersion
  <2> QED BY <1>1, <2>1 DEF NewVersion, HasVersion
<1>2. CASE Tick
  <2>1. clock' \in Times BY <1>2, ExtractionAssumption DEF Tick, Times
  <2> QED BY <1>2, <2>1 DEF Tick, HasVersion
<1>3. ASSUME NEW p \in Requests, Ask(p) PROVE TypeInv'
  <2> DEFINE j == [job[p] EXCEPT !.known = {v \in Versions : Validated(v) # {}}]
  <2>1. j \in Job BY DEF Job
  <2>2. job' = [job EXCEPT ![p] = j] BY <1>3 DEF Ask
  <2> HIDE DEF j
  <2> QED BY <1>3, <2>1, <2>2, LocalStep DEF Ask, Steps
<1>4. ASSUME NEW p \in Requests, ReadContext(p) PROVE TypeInv'
  <2> DEFINE j == [job[p] EXCEPT !.version = open]
  <2>0. open \in Versions /\ open \in 0..MaxVersion
    BY <1>4, ExtractionAssumption DEF ReadContext, Versions
  <2>1. j \in Job /\ j.version \in Versions BY <2>0 DEF Job
  <2>2. job' = [job EXCEPT ![p] = j] BY <1>4 DEF ReadContext
  <2> HIDE DEF j
  <2> QED BY <1>4, <2>1, <2>2, LocalStep DEF ReadContext, Steps
<1>5. ASSUME NEW p \in Requests, CallModel(p) PROVE TypeInv'
  <2>1. job' = [job EXCEPT ![p] = job[p]] /\ job[p] \in Job BY <1>5 DEF CallModel
  <2>2. job[p].version \in Versions BY <1>5 DEF CallModel, HasVersion
  <2> QED BY <1>5, <2>1, <2>2, LocalStep DEF CallModel, Steps
<1>6. ASSUME NEW p \in Requests, ModelAnswers(p) \/ ModelFails(p) PROVE TypeInv'
  <2>1. PICK o \in Outcome : job' = [job EXCEPT ![p].outcome = o]
    BY <1>6, NoJobType DEF ModelAnswers, ModelFails, Outcome
  <2> DEFINE j == [job[p] EXCEPT !.outcome = o]
  <2>2. j \in Job BY DEF Job
  <2>3. j.version \in Versions BY <1>6 DEF ModelAnswers, ModelFails, HasVersion, Job
  <2>4. job' = [job EXCEPT ![p] = j] BY <2>1
  <2> HIDE DEF j
  <2> QED BY <1>6, <2>2, <2>3, <2>4, LocalStep DEF ModelAnswers, ModelFails, Steps
<1>7. ASSUME NEW p \in Requests, AddAttempt(p) PROVE TypeInv'
  <2> DEFINE j == [job[p] EXCEPT !.at = clock]
  <2>1. j \in Job BY DEF Job
  <2>2. j.version \in Versions BY <1>7 DEF AddAttempt, HasVersion, Job
  <2>3. job' = [job EXCEPT ![p] = j] BY <1>7 DEF AddAttempt
  <2> HIDE DEF j
  <2> QED BY <1>7, <2>1, <2>2, <2>3, LocalStep DEF AddAttempt, Steps
<1>8. ASSUME NEW p \in Requests, Commit(p) PROVE TypeInv'
  <2>1. Cardinality(attempts) \in Nat BY FS_CardinalityType
  <2>2. Row(p) \in Attempt
    BY <1>8, <2>1 DEF Commit, Row, Attempt, HasVersion, Job
  <2>3. attempts' \subseteq Attempt /\ IsFiniteSet(attempts')
    BY <1>8, <2>2, FS_AddElement DEF Commit
  <2>4. job' \in [Requests -> Job] /\ pc' \in [Requests -> Steps]
    BY <1>8, NoJobType DEF Commit, Leave, Goto, Steps
  <2>5. ASSUME NEW q \in Requests PROVE HasVersion(q)'
    BY <1>8 DEF Commit, Leave, Goto, HasVersion
  <2> QED BY <1>8, <2>3, <2>4, <2>5 DEF Commit
<1>9. ASSUME NEW p \in Requests, PoolTimeout(p) \/ NotFound(p) \/ ReuseValidated(p) \/ Abort(p)
      PROVE  TypeInv'
  BY <1>9, LeaveStep DEF PoolTimeout, NotFound, ReuseValidated, Abort
<1>10. CASE UNCHANGED vars BY <1>10 DEF vars, HasVersion
<1> QED BY <1>1, <1>2, <1>3, <1>4, <1>5, <1>6, <1>7, <1>8, <1>9, <1>10
        DEF Next, Faultless, Work

LEMMA TypeStart == Init => TypeInv
BY NoJobType, ExtractionAssumption, FS_EmptySet
DEF Init, TypeInv, TypeOK, HasVersion, Steps, Times

\* The attempts and the requests keep their types, and no request gets to the
\* model without a version (extract, get_current_context).
THEOREM ExtractionTyped == Spec => []TypeOK
<1>1. TypeInv => TypeOK BY DEF TypeInv
<1> QED BY TypeStart, TypeStep, <1>1, PTL DEF Spec
-----------------------------------------------------------------------------
(* Evidence. *)

LEMMA SupportStep == TypeInv /\ SupportInv /\ [Next]_vars => SupportInv'
<1> SUFFICES ASSUME TypeInv, SupportInv, [Next]_vars PROVE SupportInv' OBVIOUS
<1> USE DEF TypeInv, TypeOK, SupportInv
\* Another step than a commit that gives p no outcome to record.
<1>1. ASSUME attempts' = attempts,
             \A p \in Requests : \/ pc'[p] = pc[p] /\ job'[p] = job[p]
                                \/ pc'[p] \in {"idle", "connect", "find", "call"}
      PROVE  SupportInv'
  BY <1>1 DEF EvidenceIsSupported, SupportedRow
<1>2. CASE NewVersion \/ Tick \/ UNCHANGED vars
  BY <1>1, <1>2 DEF NewVersion, Tick, vars
<1>3. ASSUME NEW p \in Requests,
             \/ Ask(p) \/ PoolTimeout(p) \/ NotFound(p) \/ ReadContext(p)
             \/ ReuseValidated(p) \/ CallModel(p) \/ Abort(p)
      PROVE  SupportInv'
  BY <1>1, <1>3 DEF Ask, PoolTimeout, NotFound, ReadContext, ReuseValidated, CallModel,
                    Abort, Leave, Goto
<1>4. ASSUME NEW p \in Requests, ModelAnswers(p) PROVE SupportInv'
  <2>1. SupportedRow(p)'
    <3>1. PICK claims \in SUBSET Facts, wellFormed \in BOOLEAN :
            job' = [job EXCEPT ![p].outcome =
              IF wellFormed /\ claims \subseteq FactsOf[job[p].version]
              THEN [status |-> "validated", claims |-> claims, retryable |-> FALSE]
              ELSE [status |-> "rejected", claims |-> {}, retryable |-> FALSE]]
      BY <1>4 DEF ModelAnswers
    <3>2. job'[p].version = job[p].version BY <3>1 DEF Job
    <3>3. CASE wellFormed /\ claims \subseteq FactsOf[job[p].version]
      BY <3>1, <3>2, <3>3 DEF SupportedRow, Job
    <3>4. CASE ~(wellFormed /\ claims \subseteq FactsOf[job[p].version])
      BY <3>1, <3>4 DEF SupportedRow, Job
    <3> QED BY <3>3, <3>4
  <2>2. ASSUME NEW q \in Requests, q # p PROVE SupportedRow(q)'
    BY <1>4, <2>2 DEF ModelAnswers, Goto, SupportedRow
  <2>3. EvidenceIsSupported' BY <1>4 DEF ModelAnswers, EvidenceIsSupported
  <2> QED BY <2>1, <2>2, <2>3
<1>5. ASSUME NEW p \in Requests, ModelFails(p) \/ AddAttempt(p) PROVE SupportInv'
  <2>1. SupportedRow(p)'
    <3>1. CASE ModelFails(p)
      BY <3>1 DEF ModelFails, Failed, SupportedRow, Job
    <3>2. CASE AddAttempt(p)
      BY <3>2 DEF AddAttempt, SupportedRow, Job
    <3> QED BY <1>5, <3>1, <3>2
  <2>2. ASSUME NEW q \in Requests, q # p PROVE SupportedRow(q)'
    BY <1>5, <2>2 DEF ModelFails, AddAttempt, Goto, SupportedRow
  <2>3. EvidenceIsSupported' BY <1>5 DEF ModelFails, AddAttempt, EvidenceIsSupported
  <2> QED BY <2>1, <2>2, <2>3
<1>6. ASSUME NEW p \in Requests, Commit(p) PROVE SupportInv'
  <2>1. /\ Row(p).outcome = job[p].outcome /\ Row(p).version = job[p].version
        /\ SupportedRow(p)
    BY DEF Row
  <2>2. EvidenceIsSupported'
    BY <1>6, <2>1 DEF Commit, EvidenceIsSupported, SupportedRow
  <2>3. ASSUME NEW q \in Requests PROVE SupportedRow(q)'
    BY <1>6 DEF Commit, Leave, Goto, SupportedRow
  <2> QED BY <2>2, <2>3
<1> QED BY <1>2, <1>3, <1>4, <1>5, <1>6 DEF Next, Faultless, Work

\* A stored validated attempt quotes only what its own version says, however
\* many versions came while the model answered.
THEOREM EvidenceHolds == Spec => []EvidenceIsSupported
<1>1. Init => SupportInv
  BY DEF Init, SupportInv, EvidenceIsSupported, SupportedRow
<1>2. SupportInv => EvidenceIsSupported BY DEF SupportInv
<1> QED BY TypeStart, TypeStep, SupportStep, <1>1, <1>2, PTL DEF Spec

-----------------------------------------------------------------------------
(* The cache. *)

\* What was known stays known: attempts are never removed.
LEMMA AttemptsStay ==
  ASSUME [Next]_vars
  PROVE  attempts \subseteq attempts'
BY DEF Next, Faultless, Work, NewVersion, Tick, Ask, PoolTimeout, NotFound, ReadContext,
       ReuseValidated, CallModel, ModelAnswers, ModelFails, AddAttempt, Commit, Abort, vars

LEMMA CacheStep == TypeInv /\ CacheInv /\ [Next]_vars => CacheInv'
<1> SUFFICES ASSUME TypeInv, CacheInv, [Next]_vars PROVE CacheInv' OBVIOUS
<1> USE DEF TypeInv, TypeOK, CacheInv
<1>0. \A v \in Versions : Validated(v) # {} => Validated(v)' # {}
  BY AttemptsStay DEF Validated, AttemptsOf
<1>1. ASSUME \A p \in Requests : \/ pc'[p] = pc[p] /\ job'[p] = job[p]
                                \/ job'[p].known = {}
      PROVE  CacheInv'
  BY <1>0, <1>1 DEF KnownStays, NotKnown, Job
\* p goes on with what it knew.
<1>2. ASSUME NEW p \in Requests,
             \A q \in Requests \ {p} : pc'[q] = pc[q] /\ job'[q] = job[q],
             job'[p].known = job[p].known, NotKnown(p)'
      PROVE  CacheInv'
  <2>1. ASSUME NEW q \in Requests \ {p} PROVE KnownStays(q)' /\ NotKnown(q)'
    BY <1>0, <1>2, <2>1 DEF KnownStays, NotKnown, Job
  <2>2. KnownStays(p)' BY <1>0, <1>2 DEF KnownStays, Job
  <2> QED BY <1>2, <2>1, <2>2
<1>3. CASE NewVersion \/ Tick \/ UNCHANGED vars
  BY <1>1, <1>3 DEF NewVersion, Tick, vars
<1>4. ASSUME NEW p \in Requests,
             PoolTimeout(p) \/ NotFound(p) \/ ReuseValidated(p) \/ Commit(p) \/ Abort(p)
      PROVE  CacheInv'
  <2>1. Leave(p) BY <1>4 DEF PoolTimeout, NotFound, ReuseValidated, Commit, Abort
  <2> QED BY <1>1, <2>1 DEF Leave, Goto, NoJob
<1>5. ASSUME NEW p \in Requests, Ask(p) PROVE CacheInv'
  <2>1. job'[p].known = {v \in Versions : Validated(v) # {}} BY <1>5 DEF Ask, Job
  <2>2. KnownStays(p)' BY <1>0, <2>1 DEF KnownStays
  <2>3. NotKnown(p)' BY <1>5 DEF Ask, Goto, NotKnown
  <2>4. ASSUME NEW q \in Requests, q # p PROVE KnownStays(q)' /\ NotKnown(q)'
    BY <1>0, <1>5, <2>4 DEF Ask, Goto, KnownStays, NotKnown, Job
  <2> QED BY <2>2, <2>3, <2>4
<1>6. ASSUME NEW p \in Requests, ReadContext(p) PROVE CacheInv'
  <2>1. NotKnown(p)' BY <1>6 DEF ReadContext, Goto, NotKnown
  <2>2. job'[p].known = job[p].known BY <1>6 DEF ReadContext, Job
  <2> QED BY <1>2, <1>6, <2>1, <2>2 DEF ReadContext, Goto
<1>7. ASSUME NEW p \in Requests, CallModel(p) PROVE CacheInv'
  <2>1. job[p].version \notin job[p].known
    BY <1>7 DEF CallModel, IsCached, KnownStays
  <2>2. NotKnown(p)' BY <1>7, <2>1 DEF CallModel, NotKnown
  <2> QED BY <1>2, <1>7, <2>2 DEF CallModel, Goto
<1>8. ASSUME NEW p \in Requests, ModelAnswers(p) \/ ModelFails(p) PROVE CacheInv'
  <2>1. pc[p] = "call" /\ Goto(p, "add") BY <1>8 DEF ModelAnswers, ModelFails
  <2>2. PICK o : job' = [job EXCEPT ![p].outcome = o]
    BY <1>8 DEF ModelAnswers, ModelFails
  <2>3. job'[p].known = job[p].known /\ job'[p].version = job[p].version
    BY <2>2 DEF Job
  <2>4. NotKnown(p)' BY <2>1, <2>3 DEF NotKnown, Goto
  <2> QED BY <1>2, <2>1, <2>2, <2>3, <2>4 DEF Goto
<1>9. ASSUME NEW p \in Requests, AddAttempt(p) PROVE CacheInv'
  <2>1. pc[p] = "add" /\ Goto(p, "commit") /\ job' = [job EXCEPT ![p].at = clock]
    BY <1>9 DEF AddAttempt
  <2>2. job'[p].known = job[p].known /\ job'[p].version = job[p].version
    BY <2>1 DEF Job
  <2>3. NotKnown(p)' BY <2>1, <2>2 DEF NotKnown, Goto
  <2> QED BY <1>2, <2>1, <2>2, <2>3 DEF Goto
<1> QED BY <1>3, <1>4, <1>5, <1>6, <1>7, <1>8, <1>9 DEF Next, Faultless, Work

\* No request asks the model about a version that had a validated attempt when
\* the request came, under any interleaving of requests and new versions.
THEOREM CacheHolds == Spec => []CacheIsHonoured
<1>1. Init => CacheInv BY DEF Init, CacheInv, KnownStays, NotKnown, NoJob
<1>2. CacheInv => CacheIsHonoured BY DEF CacheInv, NotKnown, CacheIsHonoured
<1> QED BY TypeStart, TypeStep, CacheStep, <1>1, <1>2, PTL DEF Spec
=============================================================================
