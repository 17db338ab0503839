--------------------------- MODULE MCAlertOutbox ---------------------------
(* Instances of AlertOutbox for TLC. *)
EXTENDS AlertOutbox, TLC

CONSTANTS s1, k1, k2, w, a1

OneSlug == <<s1>>

\* The second version of k1 reverses the order of the two records; the second
\* version of k2 is no longer recommended.
Ranked == [x \in Subject |-> CASE x.key = k1 -> IF x.rv = 1 THEN 3 ELSE 1
                               [] x.key = k2 -> IF x.rv = 1 THEN 2 ELSE 0]
=============================================================================
