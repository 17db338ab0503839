---------------------------- MODULE MCExtraction ----------------------------
(* Instances of Extraction for TLC. *)
EXTENDS Extraction, TLC

CONSTANTS p1, p2, p3, x, y

\* The second version says something else.
TwoVersions == <<{x}, {y}>>

\* Nothing is left to do: no attempt may be added.
Exhausted ==
  /\ Pending = {}
  /\ Cardinality(attempts) = MaxAttempts
  /\ open = MaxVersion /\ clock = MaxTime
  /\ UNCHANGED vars

MCFairSpec == Init /\ [][Next \/ Exhausted]_vars /\ Fairness
=============================================================================
