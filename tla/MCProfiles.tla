----------------------------- MODULE MCProfiles -----------------------------
(* Instances of Profiles for TLC. *)
EXTENDS Profiles, TLC

CONSTANTS c1, c2, s1, x1, x2

DemoProfile == s1 :> x1
=============================================================================
