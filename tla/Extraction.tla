----------------------------- MODULE Extraction -----------------------------
(***************************************************************************)
(* Evidence extraction: AIExtractionService (ai/service.py) behind         *)
(* POST .../evidence/extract (api.py), over AIExtractionRepository         *)
(* (persistence/ai_repository.py), with the model an external service.     *)
(*                                                                         *)
(* A request is one READ COMMITTED session.  It takes a connection of the  *)
(* API's pool with its first SELECT and keeps it until it ends, the        *)
(* model's answer included; meanwhile the record may get new versions and  *)
(* other requests may ask the model the same.                              *)
(*                                                                         *)
(* One record is enough, since requests for different records share        *)
(* nothing but the pool.  A version determines the evidence input and its  *)
(* hash; provider, model and prompt are those of the deployment.  The      *)
(* OAuth token is part of the call that succeeds or fails.                 *)
(***************************************************************************)
EXTENDS Integers, FiniteSets

CONSTANTS Requests,    \* threads that serve extract_evidence
          Facts,       \* what a claim may quote
          FactsOf,     \* the facts in the fields of each version
          MaxVersion,  \* bound: the versions of the record
          MaxAttempts, \* bound: the attempts
          MaxTime,     \* bound: the last instant the clock shows
          PoolSize     \* connections of the API's pool

Versions == 1..MaxVersion
Times == 0..MaxTime

ASSUME ExtractionAssumption ==
  /\ MaxVersion \in Nat /\ MaxAttempts \in Nat /\ MaxTime \in Nat
  /\ PoolSize \in Nat \ {0}
  /\ FactsOf \in [Versions -> SUBSET Facts]

VARIABLES
  open,      \* the open version of the record, 0 where there is none
  attempts,  \* ai_extraction_attempts
  clock,
  pc, job

vars == <<open, attempts, clock, pc, job>>

Outcome == [status : {"validated", "rejected", "failed"}, claims : SUBSET Facts,
            retryable : BOOLEAN]

Attempt == [id : Nat, version : Versions, outcome : Outcome, at : Times]

\* version: of the context that was read; outcome: what there is to record;
\* known, a ghost: the versions that had a validated attempt when the request
\* came.
Job == [version : 0..MaxVersion, outcome : Outcome, at : Times, known : SUBSET Versions]

Failed(retryable) == [status |-> "failed", claims |-> {}, retryable |-> retryable]
NoJob == [version |-> 0, outcome |-> Failed(FALSE), at |-> 0, known |-> {}]

Steps == {"idle", "connect", "find", "call", "add", "commit"}

TypeOK ==
  /\ open \in 0..MaxVersion
  /\ attempts \subseteq Attempt
  /\ clock \in Times
  /\ pc \in [Requests -> Steps]
  /\ job \in [Requests -> Job]

Init ==
  /\ open = 0
  /\ attempts = {}
  /\ clock = 0
  /\ pc = [p \in Requests |-> "idle"]
  /\ job = [p \in Requests |-> NoJob]

-----------------------------------------------------------------------------

Goto(p, step) == pc' = [pc EXCEPT ![p] = step]

\* The request is answered; its session is closed and its connection returned.
Leave(p) == Goto(p, "idle") /\ job' = [job EXCEPT ![p] = NoJob]

AttemptsOf(v) == {a \in attempts : a.version = v}
Validated(v) == {a \in AttemptsOf(v) : a.outcome.status = "validated"}

\* The requests under way.
Pending == {p \in Requests : pc[p] # "idle"}

Connected == {p \in Requests : pc[p] \notin {"idle", "connect"}}
PoolExhausted == Cardinality(Connected) >= PoolSize

-----------------------------------------------------------------------------
(* The record and the clock. *)

\* An ingestion run commits a version.
NewVersion ==
  /\ open < MaxVersion
  /\ open' = open + 1
  /\ UNCHANGED <<attempts, clock, pc, job>>

Tick ==
  /\ clock < MaxTime
  /\ clock' = clock + 1
  /\ UNCHANGED <<open, attempts, pc, job>>

-----------------------------------------------------------------------------
(* A request. *)

Ask(p) ==
  /\ pc[p] = "idle"
  /\ Cardinality(attempts) + Cardinality(Pending) < MaxAttempts
  /\ job' = [job EXCEPT ![p].known = {v \in Versions : Validated(v) # {}}]
  /\ Goto(p, "connect")
  /\ UNCHANGED <<open, attempts, clock>>

\* QueuePool's timeout: an internal error.
PoolTimeout(p) ==
  /\ pc[p] = "connect"
  /\ PoolExhausted
  /\ Leave(p)
  /\ UNCHANGED <<open, attempts, clock>>

\* "procurement record not found": 404.
NotFound(p) ==
  /\ pc[p] = "connect"
  /\ ~PoolExhausted
  /\ open = 0
  /\ Leave(p)
  /\ UNCHANGED <<open, attempts, clock>>

\* get_current_context: SELECT the open version.
ReadContext(p) ==
  /\ pc[p] = "connect"
  /\ ~PoolExhausted
  /\ open > 0
  /\ job' = [job EXCEPT ![p].version = open]
  /\ Goto(p, "find")
  /\ UNCHANGED <<open, attempts, clock>>

\* Mutant: only the latest attempt is looked at.
LatestIsValidated(v) == \E a \in Validated(v) : \A b \in AttemptsOf(v) : b.at <= a.at

\* find_validated: any attempt of the version that was read.
IsCached(v) == Validated(v) # {}

ReuseValidated(p) ==
  /\ pc[p] = "find"
  /\ IsCached(job[p].version)
  /\ Leave(p)
  /\ UNCHANGED <<open, attempts, clock>>

CallModel(p) ==
  /\ pc[p] = "find"
  /\ ~IsCached(job[p].version)
  /\ Goto(p, "call")
  /\ UNCHANGED <<open, attempts, clock, job>>

\* The answer is recorded as validated if it is well-formed and all it quotes is
\* in the fields that were sent, else as rejected.
ModelAnswers(p) ==
  /\ pc[p] = "call"
  /\ \E claims \in SUBSET Facts, wellFormed \in BOOLEAN :
       job' = [job EXCEPT ![p].outcome =
         IF wellFormed /\ claims \subseteq FactsOf[job[p].version]
         THEN [status |-> "validated", claims |-> claims, retryable |-> FALSE]
         ELSE [status |-> "rejected", claims |-> {}, retryable |-> FALSE]]
  /\ Goto(p, "add")
  /\ UNCHANGED <<open, attempts, clock>>

\* Mutant: no timeout, an error needs an answer.
ModelFailsLoudly(p) ==
  /\ FALSE
  /\ UNCHANGED vars

\* GigaChatError: a timeout, a status, an answer of another shape.
ModelFails(p) ==
  /\ pc[p] = "call"
  /\ \E retryable \in BOOLEAN : job' = [job EXCEPT ![p].outcome = Failed(retryable)]
  /\ Goto(p, "add")
  /\ UNCHANGED <<open, attempts, clock>>

\* add_attempt: created_at is now; the insert waits for nobody.
AddAttempt(p) ==
  /\ pc[p] = "add"
  /\ job' = [job EXCEPT ![p].at = clock]
  /\ Goto(p, "commit")
  /\ UNCHANGED <<open, attempts, clock>>

\* Mutant: the attempt goes to the version that is open by now.
RowOfOpen(p) ==
  [id |-> Cardinality(attempts) + 1, version |-> open,
   outcome |-> job[p].outcome, at |-> job[p].at]

\* The id is a uuid4, here a number; nothing depends on its order.
Row(p) ==
  [id |-> Cardinality(attempts) + 1, version |-> job[p].version,
   outcome |-> job[p].outcome, at |-> job[p].at]

Commit(p) ==
  /\ pc[p] = "commit"
  /\ attempts' = attempts \cup {Row(p)}
  /\ Leave(p)
  /\ UNCHANGED <<open, clock>>

\* A statement fails or the process dies: nothing is recorded of a call that was
\* made.  A commit whose acknowledgement is lost is a Commit to everybody else.
Abort(p) ==
  /\ pc[p] # "idle"
  /\ Leave(p)
  /\ UNCHANGED <<open, attempts, clock>>

\* What the code does by itself, timeouts included.
Work(p) ==
  \/ PoolTimeout(p) \/ NotFound(p) \/ ReadContext(p)
  \/ ReuseValidated(p) \/ CallModel(p) \/ ModelFails(p)
  \/ AddAttempt(p) \/ Commit(p)

Faultless ==
  \/ NewVersion \/ Tick
  \/ \E p \in Requests : Ask(p) \/ Work(p) \/ ModelAnswers(p)

Next == Faultless \/ \E p \in Requests : Abort(p)

Spec == Init /\ [][Next]_vars

\* The model need not answer: the HTTP client's timeout ends the call.
Fairness == \A p \in Requests : WF_vars(Work(p))

-----------------------------------------------------------------------------
(* Properties. *)

\* The model is not asked again about a version that had a validated attempt
\* when the request came, whatever was recorded after that attempt
\* (find_validated).
CacheIsHonoured ==
  \A p \in Requests : pc[p] \in {"call", "add", "commit"} => job[p].version \notin job[p].known

\* A validated attempt quotes nothing that is not in the version it is linked
\* to, although the record may get a version while the model answers (one
\* context for the prompt, the validation and the row).
EvidenceIsSupported ==
  \A a \in attempts :
    a.outcome.status = "validated" => a.outcome.claims \subseteq FactsOf[a.version]

\* Every request is answered, whoever holds the connections and whatever the
\* model does.
RequestsEnd == \A p \in Requests : pc[p] # "idle" ~> pc[p] = "idle"
=============================================================================
