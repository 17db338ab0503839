------------------------------ MODULE Outcomes ------------------------------
(***************************************************************************)
(* build_award_outcome (outcomes.py): the total of an award from its lots. *)
(* A lot has an amount and a currency, or neither.                         *)
(***************************************************************************)
EXTENDS Integers, Sequences, FiniteSets

CONSTANTS Currencies,
          Unknown,    \* the amount, and the currency, that a lot does not have
          MaxAmount,  \* bound: the amount of a lot
          MaxLots     \* bound: the lots of an award

Lot == [amount : 0..MaxAmount, currency : Currencies]
         \cup [amount : {Unknown}, currency : {Unknown}]

ASSUME OutcomesAssumption == MaxAmount \in Nat /\ MaxLots \in Nat /\ Unknown \notin Int

\* An award has a lot at least.
LotLists == UNION {[1..n -> Lot] : n \in 1..MaxLots}

Known(lots) == {i \in DOMAIN lots : lots[i].amount # Unknown}

\* Mutant: what is known is the total.
AmountStatusOfKnown(lots) ==
  IF Known(lots) = {} THEN "unknown"
  ELSE IF Cardinality({lots[i].currency : i \in Known(lots)}) # 1 THEN "conflicting"
  ELSE "found"

AmountStatus(lots) ==
  IF Known(lots) = {} THEN "unknown"
  ELSE IF Cardinality(Known(lots)) # Len(lots) THEN "partial"
  ELSE IF Cardinality({lots[i].currency : i \in Known(lots)}) # 1 THEN "conflicting"
  ELSE "found"

\* The sums of what is known of the first n lots.
Sums(lots) ==
  LET sum[n \in 0..Len(lots)] ==
        IF n = 0 THEN 0
        ELSE sum[n - 1] + (IF n \in Known(lots) THEN lots[n].amount ELSE 0)
  IN sum

Total(lots) == IF AmountStatus(lots) = "found" THEN Sums(lots)[Len(lots)] ELSE Unknown
=============================================================================
