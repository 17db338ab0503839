----------------------------- MODULE ProfileLog -----------------------------
(***************************************************************************)
(* What the versioned company profiles promise, whatever the interleaving  *)
(* of the requests: every slug owns an append-only list of payloads,       *)
(* version n being the n-th, and a caller who was told that version n is   *)
(* saved finds its own payload there for ever.  Seeding appends to several *)
(* slugs in one step.                                                      *)
(***************************************************************************)
EXTENDS Naturals, Sequences

CONSTANTS Slugs, Payloads

VARIABLES log,   \* Slugs -> the payloads of versions 1, 2, ...
          acked  \* the versions whose callers were told "saved"

Version == [slug : Slugs, version : Nat, payload : Payloads]

Init == log = [s \in Slugs |-> <<>>] /\ acked = {}

\* The versions that appending batch (a function from slugs) adds.
Added(batch) ==
  {[slug |-> s, version |-> Len(log[s]) + 1, payload |-> batch[s]] : s \in DOMAIN batch}

\* The caller may die, or lose the answer, once the versions are saved.
Save(batch) ==
  /\ log' = [s \in Slugs |-> IF s \in DOMAIN batch THEN Append(log[s], batch[s]) ELSE log[s]]
  /\ acked' \in {acked, acked \cup Added(batch)}

Next == \E touched \in SUBSET Slugs : \E batch \in [touched -> Payloads] : Save(batch)

Spec == Init /\ [][Next]_<<log, acked>>
=============================================================================
