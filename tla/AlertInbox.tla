----------------------------- MODULE AlertInbox -----------------------------
(***************************************************************************)
(* What the in-app alerts promise (docs/DATA.md): one entry for a profile  *)
(* version and a record version, made once, its snapshot never rewritten;  *)
(* reading an alert changes the read mark alone.                           *)
(***************************************************************************)
CONSTANTS Subjects,  \* a profile version and a record version
          Snapshots  \* what an alert shows

VARIABLE inbox

Entry == [subject : Subjects, snapshot : Snapshots, read : BOOLEAN]

Init == inbox = {}

\* One synchronization makes all its alerts visible at once.
Deliver ==
  /\ inbox \subseteq inbox' /\ inbox' \subseteq Entry
  /\ \A e \in inbox' \ inbox :
       /\ ~e.read
       /\ \A f \in inbox' \ {e} : f.subject # e.subject

Read ==
  \E e \in inbox : inbox' = (inbox \ {e}) \cup {[e EXCEPT !.read = TRUE]}

Next == Deliver \/ Read

Spec == Init /\ [][Next]_inbox
=============================================================================
