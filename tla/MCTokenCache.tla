---------------------------- MODULE MCTokenCache ----------------------------
(* Instances of TokenCache for TLC. *)
EXTENDS TokenCache, TLC

CONSTANTS t1, t2, t3

\* The threads are alike.
Alike == Permutations({t1, t2, t3})
=============================================================================
