---------------------------- MODULE MCDashboard ----------------------------
(* Instances of Dashboard for TLC. *)
EXTENDS Dashboard

CONSTANTS k1, k2, r1, rub, usd

Strong == [code |-> TRUE, keywords |-> 1, negative |-> FALSE, regions |-> {r1},
           mode |-> "unknown", amount |-> "accepted"]
Weak == [Strong EXCEPT !.code = FALSE, !.keywords = 3]

Open == [product |-> TRUE, kind |-> "notice", lifecycle |-> "active",
         deadline |-> 1, notice |-> Strong,
         lots |-> <<[amount |-> 1, currency |-> rub]>>]

\* k1 is changed into a planned purchase without a deadline; k2 is first outside
\* the product, then an award.
Said == [x \in Keys \X Versions |->
           CASE x = <<k1, 1>> -> Open
             [] x = <<k1, 2>> -> [Open EXCEPT !.lifecycle = "planned", !.notice = Weak,
                                              !.deadline = NoDeadline]
             [] x = <<k2, 1>> -> [Open EXCEPT !.product = FALSE]
             [] OTHER         -> [Open EXCEPT !.kind = "award", !.lifecycle = "closed",
                                              !.lots = @ \o @]]

\* The second version of the profile gives up the region.
Companies == [v \in 1..MaxProfile |->
                [service |-> IF v = 1 THEN {r1} ELSE {}, excluded |-> {}, mode |-> "onsite",
                 nationwide |-> FALSE, travel |-> FALSE, contractors |-> FALSE]]
=============================================================================
