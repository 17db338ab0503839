--------------------------- MODULE VersionHistory ---------------------------
(***************************************************************************)
(* What the procurement store promises, record by record: the in-memory    *)
(* class VersionHistory of domain/history.py, which its own docstring      *)
(* calls the executable specification PostgreSQL persistence must          *)
(* preserve.  A natural key owns a list of versions; applying a record     *)
(* appends a version, or leaves the list alone when the canonical          *)
(* fingerprint is the current one.  A transaction of the store applies     *)
(* several records, of distinct keys, at one instant.                      *)
(***************************************************************************)
EXTENDS Integers, Sequences

CONSTANTS Keys,     \* natural keys, source:source_record_id
          Prints,   \* canonical fingerprints
          NoTime,   \* valid_to of the version that is still current (None)
          MaxTime   \* bound: the last instant of the clock

VARIABLE history    \* Keys -> the sequence of versions of the record

Times == 0..MaxTime

Version == [version : Nat, print : Prints, from : Times, to : Times \cup {NoTime}]

Init == history = [k \in Keys |-> <<>>]

\* The current version is the last of the list (versions[-1]).
Current(h) == h[Len(h)]

\* apply() raises ValueError exactly when this is false: the new version would
\* not start strictly after the current one.
Accepts(h, print, at) ==
  \/ h = <<>>
  \/ Current(h).print = print
  \/ Current(h).from < at

Fresh(n, print, at) == [version |-> n, print |-> print, from |-> at, to |-> NoTime]

\* The list after apply(): CREATED, UNCHANGED or UPDATED.
After(h, print, at) ==
  IF h = <<>> THEN <<Fresh(1, print, at)>>
  ELSE IF Current(h).print = print THEN h
  ELSE Append([h EXCEPT ![Len(h)].to = at],
              Fresh(Current(h).version + 1, print, at))

Apply(batch, at) ==
  /\ \A k \in DOMAIN batch : Accepts(history[k], batch[k], at)
  /\ history' = [k \in Keys |-> IF k \in DOMAIN batch
                                THEN After(history[k], batch[k], at)
                                ELSE history[k]]

Next == \E touched \in SUBSET Keys, at \in Times :
          \E batch \in [touched -> Prints] : Apply(batch, at)

Spec == Init /\ [][Next]_history
=============================================================================
