---------------------------- MODULE MCIngestion ----------------------------
(* Instances of Ingestion for TLC. *)
EXTENDS Ingestion, TLC

CONSTANTS p1, p2, r1, r2, r3, d1, d2, d3, d4, d5, k1, k2, f1, f2, f3, a1, a2, a3, o1

\* d1 and d2 name the same two records in opposite order, with different
\* fingerprints, d3 and d4 one of them, d4 with a name that cannot be normalized; the
\* parser rejects d5.  a1 and a2 are spellings of one organization.
TwoRecords == d1 :> <<[key |-> k1, print |-> f1, names |-> <<a1>>],
                      [key |-> k2, print |-> f1, names |-> <<>>]>>
           @@ d2 :> <<[key |-> k2, print |-> f2, names |-> <<a2>>],
                      [key |-> k1, print |-> f2, names |-> <<>>]>>
           @@ d3 :> <<[key |-> k1, print |-> f3, names |-> <<a2>>]>>
           @@ d4 :> <<[key |-> k2, print |-> f3, names |-> <<a3>>]>>
           @@ d5 :> <<>>

Organization == a1 :> o1 @@ a2 :> o1 @@ a3 :> NoOrg

\* Nothing is left to do: every run id is used and nobody works.
Exhausted ==
  /\ \A p \in Ingesters : pc[p] = "idle"
  /\ \A r \in RunIds : runs[r].status # "unused"
  /\ clock = MaxTime
  /\ UNCHANGED vars

MCSpec == Init /\ [][Next \/ Exhausted]_vars

Symmetry == Permutations(Ingesters) \cup Permutations(RunIds)
=============================================================================
