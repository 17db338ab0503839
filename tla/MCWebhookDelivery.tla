------------------------- MODULE MCWebhookDelivery -------------------------
(* Instances of WebhookDelivery for TLC: finitely many transactions fail.  *)
EXTENDS WebhookDelivery, TLC

CONSTANTS s1, k1, k2, w, a1,
          MaxFailures  \* bound: how often a transaction fails

OneSlug == <<s1>>

\* Whatever is there is recommended, k1 first.
Everything == [x \in Subject |-> IF x.key = k1 THEN 2 ELSE 1]

VARIABLE failures  \* how often a transaction has failed

MCVars == <<allVars, failures>>

\* Reading alerts is left out: no other step looks at the mark.
MCNext ==
  \/ WebhookFaultless /\ UNCHANGED failures
  \/ WebhookFailure /\ failures < MaxFailures /\ failures' = failures + 1

MCInit == WebhookInit /\ failures = 0

MCSpec == MCInit /\ [][MCNext]_MCVars /\ WebhookFairness
=============================================================================
