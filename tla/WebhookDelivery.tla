-------------------------- MODULE WebhookDelivery --------------------------
(***************************************************************************)
(* The opt-in webhook: WebhookAlertDispatcher (alert_delivery.py) over the *)
(* alerts of AlertOutbox.  A cycle of the worker (worker.py) synchronizes  *)
(* all profiles and then dispatches, in ONE transaction: the alerts it has *)
(* just inserted and the attempts are uncommitted while it POSTs.          *)
(***************************************************************************)
EXTENDS AlertOutbox

CONSTANT MaxAttempts  \* alert_webhook_max_attempts

ASSUME WebhookAssumption == MaxAttempts \in Nat \ {0}

VARIABLES
  attempts,  \* alert_delivery_attempts
  phase,     \* of the worker's cycle
  queue,     \* the alerts that dispatch_pending has listed and not dispatched
  trial,     \* the uncommitted attempts of the worker
  posts      \* ghost: the requests that left the worker

webhook == <<attempts, phase, queue, trial, posts>>
allVars == <<vars, webhook>>

\* finished_at, http_status and error_code follow from the status.
Attempt == [alert : Nat, number : Nat, status : {"started", "delivered", "failed"},
            retryable : BOOLEAN]

\* nth: the how-manieth request of the alert.
Post == [alert : Nat, subject : Subject, nth : Nat]

WebhookTypeOK ==
  /\ TypeOK
  /\ attempts \subseteq Attempt /\ trial \subseteq Attempt
  /\ phase \in {"sync", "dispatch", "post"}
  /\ queue \subseteq [alert : Nat, subject : Subject]
  /\ posts \subseteq Post

WebhookInit ==
  /\ Init
  /\ attempts = {} /\ trial = {}
  /\ phase = "sync" /\ queue = {}
  /\ posts = {}

-----------------------------------------------------------------------------
(* dispatch_pending, after sync_all and before the commit. *)

\* list_all, in the worker's transaction.
ListAlerts ==
  /\ phase = "sync" /\ pc[Worker] = "commit"
  /\ phase' = "dispatch"
  /\ queue' = {[alert |-> a.id, subject |-> a.subject] : a \in alerts \cup staged[Worker]}
  /\ UNCHANGED <<vars, attempts, trial, posts>>

Oldest == CHOOSE a \in queue : \A b \in queue : a.alert <= b.alert

\* The attempts of an alert that the worker's transaction sees.
Tried(id) == {t \in attempts \cup trial : t.alert = id}

\* Mutant: an attempt that failed for good is repeated.
PendingUnlessDelivered(id) ==
  /\ \A t \in Tried(id) : t.status # "delivered"
  /\ Cardinality(Tried(id)) < MaxAttempts

\* Mutant: a failed attempt is never repeated.
PendingUntried(id) == Tried(id) = {}

\* The latest attempt may be repeated, and there are attempts left.
Pending(id) ==
  /\ \A t \in Tried(id) :
       (\A u \in Tried(id) : u.number <= t.number) => t.status # "delivered" /\ t.retryable
  /\ Cardinality(Tried(id)) < MaxAttempts

SkipAlert ==
  /\ phase = "dispatch" /\ queue # {}
  /\ ~Pending(Oldest.alert)
  /\ queue' = queue \ {Oldest}
  /\ UNCHANGED <<vars, attempts, phase, trial, posts>>

\* _deliver flushes a started attempt and sends the request.
SendPost ==
  /\ phase = "dispatch" /\ queue # {}
  /\ Pending(Oldest.alert)
  /\ trial' = trial \cup {[alert |-> Oldest.alert, status |-> "started", retryable |-> TRUE,
                           number |-> Cardinality(Tried(Oldest.alert)) + 1]}
  /\ posts' = posts \cup {[alert |-> Oldest.alert, subject |-> Oldest.subject,
                           nth |-> Cardinality({x \in posts : x.alert = Oldest.alert}) + 1]}
  /\ phase' = "post"
  /\ UNCHANGED <<vars, attempts, queue>>

\* The attempt at hand ends.
Finish(status, retryable) ==
  /\ phase = "post"
  /\ trial' = {IF t.status = "started" THEN [t EXCEPT !.status = status, !.retryable = retryable]
               ELSE t : t \in trial}
  /\ queue' = queue \ {Oldest}
  /\ phase' = "dispatch"
  /\ UNCHANGED <<vars, attempts, posts>>

\* 2xx, or 429 and 5xx, or another status.
Answer ==
  \/ Finish("delivered", FALSE)
  \/ \E retryable \in BOOLEAN : Finish("failed", retryable)

\* No answer: the receiver may have taken the request or not.
NoAnswer == Finish("failed", TRUE)

\* Mutant: the attempt is committed before its answer is there.
CommitBeforeAnswer ==
  /\ phase = "post"
  /\ Commit(Worker)
  /\ attempts' = attempts \cup trial
  /\ trial' = {} /\ queue' = {}
  /\ phase' = "sync"
  /\ UNCHANGED posts

\* The transaction of the cycle commits: alerts and attempts.
CommitCycle ==
  /\ phase = "dispatch" /\ queue = {}
  /\ Commit(Worker)
  /\ attempts' = attempts \cup trial
  /\ trial' = {}
  /\ phase' = "sync"
  /\ UNCHANGED <<queue, posts>>

\* It fails, or the worker dies: both are rolled back, the requests are not.
AbortCycle ==
  /\ Abort(Worker)
  /\ trial' = {} /\ queue' = {}
  /\ phase' = "sync"
  /\ UNCHANGED <<attempts, posts>>

Dispatch == ListAlerts \/ SkipAlert \/ SendPost \/ Answer \/ NoAnswer \/ CommitCycle

\* The keys the receiver has seen are not drawn again.
Burnt == {x.alert : x \in posts}

\* A step of AlertOutbox; the worker's commit is CommitCycle.
SyncStep(p) ==
  /\ Work(p, NewId(Burnt)) \/ (p # Worker /\ Commit(p))
  /\ UNCHANGED webhook

Outbox ==
  \/ Change /\ UNCHANGED webhook
  \/ \E p \in Syncers : Begin(p) /\ UNCHANGED webhook
  \/ \E p \in Syncers : SyncStep(p)

\* Nothing fails.  Reading alerts is left out: no other step looks at the mark.
WebhookFaultless == Outbox \/ Dispatch

WebhookFailure ==
  \/ AbortCycle
  \/ \E p \in Syncers \ {Worker} : Abort(p) /\ UNCHANGED webhook

WebhookNext ==
  \/ WebhookFaultless
  \/ (\E a \in alerts : MarkRead(a)) /\ UNCHANGED webhook
  \/ WebhookFailure

WebhookSpec == WebhookInit /\ [][WebhookNext]_allVars

\* The worker begins a cycle whenever the last one is over (so cycles that get past
\* the ingestion go on being there), goes on within it, and the HTTP client's timeout
\* ends every request.
WebhookFairness ==
  /\ WF_allVars(SyncAll(Worker) /\ UNCHANGED webhook)
  /\ WF_allVars(Dispatch)
  /\ \A p \in Syncers : WF_allVars(SyncStep(p))

-----------------------------------------------------------------------------
(* Properties. *)

\* What the database shows of an alert's delivery is a finished history: the
\* attempts are numbered from 1 without gap, at most max_attempts, each but the
\* last failed and could be repeated, and none is merely started; and the alert is
\* there (dispatch_pending's count and limit, the one transaction of the cycle).
AttemptsInOrder ==
  \A id \in {t.alert : t \in attempts} :
    LET tried == {t \in attempts : t.alert = id}
        n == Cardinality(tried) IN
    /\ \E a \in alerts : a.id = id
    /\ n <= MaxAttempts
    /\ {t.number : t \in tried} = 1..n
    /\ \A t \in tried : /\ t.status # "started"
                        /\ t.number < n => t.status = "failed" /\ t.retryable

\* Once the database says that an alert was delivered, refused for good or
\* tried max_attempts times, no request for it leaves the worker any more,
\* whatever failed before (the checks of dispatch_pending).
SettledIsFinal ==
  [][\A x \in posts' \ posts :
       LET tried == {t \in attempts : t.alert = x.alert} IN
       /\ \A t \in tried : t.status = "failed" /\ t.retryable
       /\ Cardinality(tried) < MaxAttempts]_allVars

\* One idempotency key for a profile version and a record version.  The code
\* does not keep this: the key is made from the alert's id, and the id of an
\* alert that was POSTed before its transaction rolled back is never seen again.
KeysAreStable ==
  \A x, y \in posts : x.subject = y.subject => x.alert = y.alert

\* A committed alert is delivered, refused for good, or tried max_attempts times, as
\* long as only finitely many transactions fail.
Settled(id) ==
  LET tried == {t \in attempts : t.alert = id} IN
  Cardinality(tried) = MaxAttempts \/ \E t \in tried : ~t.retryable

EveryAlertSettles ==
  \A x \in Subject :
    (x \in SubjectsOf(alerts)) ~> \E a \in alerts : a.subject = x /\ Settled(a.id)
=============================================================================
