----------------------------- MODULE MCBackfill -----------------------------
(* Instances of Backfill for TLC. *)
EXTENDS Backfill, TLC

CONSTANTS p1, p2, r0, r1, r2, d0, d1, d2, d3, k1, k2, f1, f2, f3, a1, a2, b1, o1, o2

\* d0 is in the store already.  d1 and d2 have two records in opposite order, d2
\* the names of d0 in opposite order; the parser rejects d3.
Names == d0 :> <<[key |-> k1, print |-> f1, names |-> <<a1, b1>>]>>
      @@ d1 :> <<[key |-> k1, print |-> f2, names |-> <<a1, a2>>],
                 [key |-> k2, print |-> f2, names |-> <<>>]>>
      @@ d2 :> <<[key |-> k2, print |-> f3, names |-> <<b1, a2>>],
                 [key |-> k1, print |-> f3, names |-> <<>>]>>
      @@ d3 :> <<>>

\* a1 and a2 are spellings of one organization.
Organization == a1 :> o1 @@ a2 :> o1 @@ b1 :> o2

\* Nothing is left to do: init has ended, every run id is used and nobody works.
Exhausted ==
  /\ backfilled
  /\ \A p \in Ingesters : pc[p] = "idle"
  /\ \A r \in RunIds : runs[r].status # "unused"
  /\ clock = MaxTime
  /\ UNCHANGED fillVars

MCBackfillSpec == BackfillInit /\ [][BackfillNext \/ Exhausted]_fillVars /\ BackfillFairness
=============================================================================
