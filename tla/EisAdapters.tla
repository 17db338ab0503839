---------------------------- MODULE EisAdapters ----------------------------
(***************************************************************************)
(* The two parsers of EIS, parse_eis_rss (sources/eis_rss.py) and          *)
(* parse_eis_package (sources/eis.py), with the validators of Lot and      *)
(* ProcurementRecord (domain/models.py): whether a payload gives all its   *)
(* records ("records"), is rejected with a SourceContractError             *)
(* ("rejected"), or ends in another exception ("raised").  A parser goes   *)
(* through its input in order, and the first thing that is bad decides.    *)
(***************************************************************************)
EXTENDS Integers, Sequences, FiniteSetsExt

CONSTANT Keys  \* natural keys

\* refused: a number that Lot does not take, as one below zero.
Prices == {"missing", "number", "refused", "malformed"}

\* The first of the outcomes that is not "record".
FirstBad(outcomes) ==
  LET bad == {i \in DOMAIN outcomes : outcomes[i] # "record"}
  IN IF bad = {} THEN "records" ELSE outcomes[Min(bad)]

-----------------------------------------------------------------------------
(* The feed. *)

\* titled: there are a title and a link; link: "unparsable" if urlparse raises
\* ValueError, "foreign" if it is not to the official registry; described: there is a
\* description; currency: one of _CURRENCY_CODES; date: pubDate is absent or has a
\* timezone; valid: what the other validators check, as the length of the link.
Entry == [key : Keys, titled : BOOLEAN, link : {"registry", "foreign", "unparsable"},
          described : BOOLEAN, price : Prices, currency : BOOLEAN,
          date : BOOLEAN, valid : BOOLEAN]

\* seen: the keys of the entries before; they come from the links.  A price without a
\* currency is dropped; a currency without a price is kept, and Lot refuses it
\* (pydantic's ValidationError).
EntryOutcome(e, seen) ==
  IF ~e.titled \/ e.link = "foreign" THEN "rejected"
  ELSE IF e.link = "unparsable" THEN "raised"
  ELSE IF e.key \in seen \/ ~e.described \/ e.price = "malformed" \/ ~e.date THEN "rejected"
  ELSE IF (e.currency /\ e.price # "number") \/ ~e.valid THEN "raised"
  ELSE "record"

\* items[:limit]
FeedOutcome(entries, limit) ==
  FirstBad([i \in (1..limit) \cap DOMAIN entries |->
              EntryOutcome(entries[i], {entries[j].key : j \in 1..(i - 1)})])

-----------------------------------------------------------------------------
(* A package: a sequence of XML members, each a sequence of elements. *)

\* complete: the required texts are there; dates: those that are there are well-formed;
\* codes: the first classification that is not good, "refused" if the validators of
\* ClassificationCode do not take it; mode: deliveryMode is absent or known; valid:
\* what the validators of ProcurementRecord check, as the region.
Element == [key : Keys, kind : {"notification", "contract"}, complete : BOOLEAN,
            dates : BOOLEAN, codes : {"good", "incomplete", "refused"},
            price : Prices, currency : BOOLEAN, mode : BOOLEAN, valid : BOOLEAN]

\* A notification's dates are looked at before its classifications and its prices
\* after them, a contract's the other way round.  The currency is read with the price;
\* a price without one is refused by Lot, before deliveryMode is looked at.  A contract
\* has none.
ElementOutcome(e) ==
  LET notice == e.kind = "notification"
      priced == e.price # "malformed"
      first == IF notice THEN e.dates ELSE priced
      second == IF notice THEN priced ELSE e.dates
  IN IF ~e.complete \/ ~first \/ e.codes = "incomplete" THEN "rejected"
     ELSE IF e.codes = "refused" THEN "raised"
     ELSE IF ~second THEN "rejected"
     ELSE IF e.price = "refused" \/ (e.price = "number" /\ ~e.currency) THEN "raised"
     ELSE IF notice /\ ~e.mode THEN "rejected"
     ELSE IF ~e.valid THEN "raised" ELSE "record"

\* parse_eis_legacy_xml: the notifications, then the contracts.
MemberOutcome(member) ==
  LET notification(e) == e.kind = "notification"
      contract(e) == e.kind = "contract"
      parsed == SelectSeq(member, notification) \o SelectSeq(member, contract)
  IN IF member = <<>> THEN "rejected"
     ELSE FirstBad([i \in DOMAIN parsed |-> ElementOutcome(parsed[i])])

KeysOf(member) == {member[i].key : i \in DOMAIN member}

\* A member is parsed before its keys are compared with those before it.
\* safe: the paths, sizes and counts of _read_safe_xml_members; the limit of 500
\* records is left out.
PackageOutcome(safe, members) ==
  LET repeats(m) == \/ Cardinality(KeysOf(members[m])) < Len(members[m])
                    \/ \E n \in 1..(m - 1) : KeysOf(members[m]) \cap KeysOf(members[n]) # {}
      outcome(m) == CASE MemberOutcome(members[m]) # "records" -> MemberOutcome(members[m])
                      [] repeats(m)                            -> "rejected"
                      [] OTHER                                 -> "record"
  IN IF ~safe \/ members = <<>> THEN "rejected"
     ELSE FirstBad([m \in DOMAIN members |-> outcome(m)])
=============================================================================
