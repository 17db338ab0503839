--------------------------- MODULE MCWorkerCycle ---------------------------
(* Instances of WorkerCycle for TLC. *)
EXTENDS WorkerCycle, TLC

CONSTANTS k1, k2, k3

Good(k) == [key |-> k, titled |-> TRUE, link |-> "registry", described |-> TRUE,
            price |-> "number", currency |-> TRUE, date |-> TRUE, valid |-> TRUE]

\* The price of k3 is published with its first update; k2 is published without a
\* timezone first.
PriceLate == [x \in Keys \X (1..MaxChanges) |->
                CASE x = <<k3, 1>> -> [Good(k3) EXCEPT !.price = "missing"]
                  [] x = <<k2, 1>> -> [Good(k2) EXCEPT !.date = FALSE]
                  [] OTHER         -> Good(x[1])]

Item(k) == [key |-> k, kind |-> "notification", complete |-> TRUE, dates |-> TRUE,
            codes |-> "good", price |-> "number", currency |-> TRUE, mode |-> TRUE,
            valid |-> TRUE]

\* Two members with the purchases k1 and k2; one purchase twice; a price without
\* a currency.
Uploads == {[safe |-> TRUE, members |-> <<<<Item(k1)>>, <<[Item(k2) EXCEPT !.price = "missing"]>>>>],
            [safe |-> TRUE, members |-> <<<<Item(k1)>>, <<Item(k1)>>>>],
            [safe |-> TRUE, members |-> <<<<Item(k1), [Item(k2) EXCEPT !.currency = FALSE]>>>>]}
=============================================================================
