------------------------------ MODULE Matching ------------------------------
(***************************************************************************)
(* TenderMatcher.match (domain/matching.py) with assess_geography          *)
(* (domain/geography.py): how a notice is scored and labelled for a        *)
(* company.  Scores are in twentieths.  What the text and the codes of the *)
(* notice share with the profile is part of the notice here: whether a     *)
(* classification prefix matches, how many positive keywords do, whether a *)
(* negative one does, and where the amounts lie.                           *)
(***************************************************************************)
EXTENDS Integers, FiniteSets

CONSTANTS Regions,     \* region codes
          MaxKeywords  \* the positive keywords of a profile

ASSUME MatchingAssumption == MaxKeywords \in Nat

Modes == {"onsite", "remote", "hybrid", "unknown"}

\* Where a company works.  A validator refuses an excluded service region.
Company ==
  {c \in [service : SUBSET Regions, excluded : SUBSET Regions, mode : Modes,
          nationwide : BOOLEAN, travel : BOOLEAN, contractors : BOOLEAN] :
     c.service \cap c.excluded = {}}

\* amount: no lot has one, none is accepted, or one is.
Notice == [code : BOOLEAN, keywords : 0..MaxKeywords, negative : BOOLEAN,
           regions : SUBSET Regions, mode : Modes,
           amount : {"unknown", "outside", "accepted"}]

Remote(c, n) == c.nationwide /\ c.mode \in {"remote", "hybrid"} /\ n.mode # "onsite"

\* Mutant: contractors are considered before the company's own reach.
GeographyBorrowedFirst(c, n) ==
  IF n.regions = {} THEN "unknown"
  ELSE IF n.regions \cap c.excluded # {} THEN "excluded"
  ELSE IF c.contractors THEN "contractor_coverage"
  ELSE IF n.regions \cap c.service # {} THEN "service_region"
  ELSE IF Remote(c, n) THEN "nationwide_remote"
  ELSE IF c.travel THEN "travel_coverage"
  ELSE "out_of_scope"

\* The first rule that holds.
Geography(c, n) ==
  IF n.regions = {} THEN "unknown"
  ELSE IF n.regions \cap c.excluded # {} THEN "excluded"
  ELSE IF n.regions \cap c.service # {} THEN "service_region"
  ELSE IF Remote(c, n) THEN "nationwide_remote"
  ELSE IF c.contractors THEN "contractor_coverage"
  ELSE IF c.travel THEN "travel_coverage"
  ELSE "out_of_scope"

OwnReach == {"service_region", "nationwide_remote"}
BorrowedReach == {"contractor_coverage", "travel_coverage"}
NoReach == {"excluded", "out_of_scope"}

CodePoints(n) == IF n.code THEN 11 ELSE 0

\* Mutant: more keywords than the cap count for nothing.
KeywordPointsUpToCap(n) == IF n.keywords > 3 THEN 0 ELSE 2 * n.keywords

KeywordPoints(n) == IF n.keywords > 3 THEN 6 ELSE 2 * n.keywords

\* Mutant: the contribution of another criterion.
GeographyPointsGenerous(c, n) ==
  IF Geography(c, n) \in OwnReach THEN 6
  ELSE IF Geography(c, n) \in BorrowedReach THEN 1 ELSE 0

GeographyPoints(c, n) ==
  IF Geography(c, n) \in OwnReach THEN 2
  ELSE IF Geography(c, n) \in BorrowedReach THEN 1 ELSE 0

BudgetPoints(n) == IF n.amount = "accepted" THEN 1 ELSE 0

Score(c, n) == CodePoints(n) + KeywordPoints(n) + GeographyPoints(c, n) + BudgetPoints(n)

Blocked(c, n) == n.negative \/ Geography(c, n) \in NoReach

\* passed: the deadline is not after the clock of the matcher.
Decision(c, n, passed) ==
  IF passed THEN "expired"
  ELSE IF Blocked(c, n) \/ Score(c, n) < 6 THEN "not_relevant"
  ELSE IF Score(c, n) >= 11 /\ Geography(c, n) \in OwnReach THEN "recommended"
  ELSE "review"

-----------------------------------------------------------------------------
(* What is better than what. *)

Worth(d) == IF d = "recommended" THEN 2 ELSE IF d = "review" THEN 1 ELSE 0

\* d serves whatever c does, at least as well.
WiderReach(c, d) ==
  /\ c.service \subseteq d.service /\ d.excluded \subseteq c.excluded
  /\ c.nationwide => d.nationwide
  /\ d.mode = c.mode \/ d.mode \in {"remote", "hybrid"}
  /\ c.contractors => d.contractors
  /\ c.travel => d.travel

\* m is of the same place as n, and all that speaks for n speaks for m.
MoreEvidence(n, m) ==
  /\ m.regions = n.regions /\ m.mode = n.mode
  /\ n.code => m.code
  /\ n.keywords <= m.keywords
  /\ m.negative => n.negative
  /\ n.amount = "accepted" => m.amount = "accepted"

\* The notice is of the company's trade, in a known place that it serves itself.
Fits(c, n) ==
  /\ n.code /\ ~n.negative
  /\ n.regions # {} /\ n.regions \cap c.excluded = {}
  /\ n.regions \cap c.service # {} \/ Remote(c, n)
=============================================================================
