---------------------------- MODULE WorkerProofs ----------------------------
(***************************************************************************)
(* What the parsers of EIS guarantee of the records of a payload, for any  *)
(* feed and any package, and what the order and the cut of the feed do for *)
(* the worker: as long as few purchases change between two pages, nothing  *)
(* falls off before it is stored.                                          *)
(***************************************************************************)
EXTENDS WorkerCycle, FiniteSetTheorems, TLAPS

-----------------------------------------------------------------------------
(* The parsers. *)

\* A set of natural numbers has a least one.
LEMMA MinExists ==
  ASSUME NEW T, T \subseteq Nat, T # {}
  PROVE  Min(T) \in T
<1>1. PICK x \in T : \A y \in T : ~(<<y, x>> \in OpToRel(<, Nat))
  BY WFMin, NatLessThanWellFounded, Zenon
<1>2. \A y \in T : ~(y < x) BY <1>1, Zenon DEF OpToRel
<1>3. \E z \in T : \A y \in T : z <= y BY <1>2
<1> QED BY <1>3 DEF Min

LEMMA SeqFacts ==
  ASSUME NEW S, NEW s \in Seq(S)
  PROVE  Len(s) \in Nat /\ DOMAIN s = 1..Len(s)
OBVIOUS

LEMMA UpTo ==
  ASSUME NEW n \in Nat PROVE IsFiniteSet(1..n) /\ Cardinality(1..n) = n
BY FS_Interval

\* A parser that gives its records found nothing bad.
LEMMA NothingBad ==
  ASSUME NEW outcomes, DOMAIN outcomes \subseteq Nat, FirstBad(outcomes) = "records",
         \A i \in DOMAIN outcomes : outcomes[i] # "records"
  PROVE  \A i \in DOMAIN outcomes : outcomes[i] = "record"
<1> DEFINE bad == {i \in DOMAIN outcomes : outcomes[i] # "record"}
<1>1. bad \subseteq Nat OBVIOUS
<1>2. bad # {} => Min(bad) \in bad
  <2> HIDE DEF bad
  <2> QED BY <1>1, MinExists
<1>3. bad = {} BY <1>2 DEF FirstBad
<1> QED BY <1>3

\* The records of a feed have distinct keys, so that the order in which they are
\* applied says nothing: parse_eis_rss rejects a purchase that it saw before.
THEOREM FeedKeysDistinct ==
  ASSUME NEW entries \in Seq(Entry), NEW limit \in Nat, FeedOutcome(entries, limit) = "records",
         NEW i \in (1..limit) \cap DOMAIN entries, NEW j \in (1..limit) \cap DOMAIN entries,
         entries[i].key = entries[j].key
  PROVE  i = j
<1> DEFINE read == (1..limit) \cap DOMAIN entries
           before(a) == {entries[b].key : b \in 1..(a - 1)}
           outcomes == [a \in read |-> EntryOutcome(entries[a], before(a))]
<1>1. \A a \in read : outcomes[a] = "record"
  <2>1. DOMAIN outcomes = read /\ read \subseteq Nat OBVIOUS
  <2>2. \A a \in read : outcomes[a] # "records" BY DEF EntryOutcome
  <2>3. FirstBad(outcomes) = "records" BY DEF FeedOutcome
  <2> HIDE DEF outcomes, read
  <2> QED BY <2>1, <2>2, <2>3, NothingBad
<1>2. \A a \in read : entries[a].key \notin before(a)
  <2> SUFFICES ASSUME NEW a \in read, entries[a].key \in before(a) PROVE FALSE OBVIOUS
  <2>1. EntryOutcome(entries[a], before(a)) = "record" BY <1>1
  <2> HIDE DEF before
  <2> QED BY <2>1 DEF EntryOutcome
<1>3. i < j => entries[j].key \in before(j) OBVIOUS
<1>4. j < i => entries[i].key \in before(i) OBVIOUS
<1> QED BY <1>2, <1>3, <1>4

\* So do the records of a package, over all its members: parse_eis_package rejects a
\* key that a member has twice or that a member before it has.
THEOREM PackageKeysDistinct ==
  ASSUME NEW members \in Seq(Seq(Element)), NEW safe \in BOOLEAN,
         PackageOutcome(safe, members) = "records",
         NEW m \in DOMAIN members, NEW n \in DOMAIN members,
         NEW i \in DOMAIN members[m], NEW j \in DOMAIN members[n],
         members[m][i].key = members[n][j].key
  PROVE  m = n /\ i = j
<1> DEFINE repeats(a) ==
             \/ Cardinality(KeysOf(members[a])) < Len(members[a])
             \/ \E b \in 1..(a - 1) : KeysOf(members[a]) \cap KeysOf(members[b]) # {}
           outcome(a) == CASE MemberOutcome(members[a]) # "records" -> MemberOutcome(members[a])
                           [] repeats(a)                            -> "rejected"
                           [] OTHER                                 -> "record"
           outcomes == [a \in DOMAIN members |-> outcome(a)]
<1>1. \A a \in DOMAIN members : outcome(a) = "record"
  <2>1. DOMAIN outcomes = DOMAIN members /\ DOMAIN members \subseteq Nat OBVIOUS
  <2>2. \A a \in DOMAIN members : outcomes[a] # "records" OBVIOUS
  <2>3. FirstBad(outcomes) = "records" BY DEF PackageOutcome
  <2>4. \A a \in DOMAIN members : outcomes[a] = outcome(a) OBVIOUS
  <2> HIDE DEF outcomes, outcome
  <2> QED BY <2>1, <2>2, <2>3, <2>4, NothingBad
<1>2. \A a \in DOMAIN members : ~repeats(a)
  <2> SUFFICES ASSUME NEW a \in DOMAIN members, repeats(a) PROVE FALSE OBVIOUS
  <2>1. outcome(a) = "record" BY <1>1
  <2> HIDE DEF repeats
  <2> QED BY <2>1
<1>3. /\ members[m][i].key \in KeysOf(members[m]) /\ members[n][j].key \in KeysOf(members[n])
      /\ m \in Nat /\ n \in Nat /\ m >= 1 /\ n >= 1
  BY DEF KeysOf
<1>4. ~(n < m) /\ ~(m < n)
  <2>1. ASSUME n < m PROVE FALSE
    <3>1. n \in 1..(m - 1) /\ KeysOf(members[m]) \cap KeysOf(members[n]) # {} BY <1>3, <2>1
    <3> QED BY <1>2, <3>1
  <2>2. ASSUME m < n PROVE FALSE
    <3>1. m \in 1..(n - 1) /\ KeysOf(members[n]) \cap KeysOf(members[m]) # {} BY <1>3, <2>2
    <3> QED BY <1>2, <3>1
  <2> QED BY <2>1, <2>2
<1>5. m = n BY <1>3, <1>4
\* As many keys as elements.
<1>6. i = j
  <2> DEFINE all == 1..Len(members[m])
             f == [a \in all |-> members[m][a].key]
  <2>0. members[m] \in Seq(Element) OBVIOUS
  <2>1. Len(members[m]) \in Nat /\ DOMAIN members[m] = all BY <2>0, SeqFacts
  <2>2. IsFiniteSet(all) /\ Cardinality(all) = Len(members[m])
    BY <2>1, UpTo
  <2>3. f \in Surjection(all, KeysOf(members[m])) BY <2>1 DEF Surjection, KeysOf
  <2>4. ~(Cardinality(KeysOf(members[m])) < Len(members[m])) BY <1>2
  <2>5. IsFiniteSet(KeysOf(members[m])) /\ Cardinality(KeysOf(members[m])) <= Len(members[m])
    <3> HIDE DEF f, all
    <3> QED BY <2>2, <2>3, FS_Surjection
  <2>6. Cardinality(KeysOf(members[m])) = Len(members[m])
    BY <2>1, <2>4, <2>5, FS_CardinalityType
  <2>7. f \in Injection(all, KeysOf(members[m]))
    <3> HIDE DEF f, all
    <3> QED BY <2>2, <2>3, <2>6, FS_Surjection
  <2>8. i \in all /\ j \in all /\ f[i] = f[j] BY <1>5, <2>1
  <2> HIDE DEF f, all
  <2> QED BY <2>7, <2>8 DEF Injection, IsInjective
<1> QED BY <1>5, <1>6

-----------------------------------------------------------------------------
(* The feed. *)

\* The first n purchases of a feed.
First(s, n) == {s[i] : i \in 1..n}

FeedOK == feed \in Seq(Keys) /\ IsInjective(feed)

\* A purchase that is moved to the front.
LEMMA MovedFacts ==
  ASSUME FeedOK, NEW k \in Keys
  PROVE  /\ Place(k) \in 1..(Len(feed) + 1)
         /\ Place(k) <= Len(feed) => feed[Place(k)] = k
         /\ Place(k) = Len(feed) + 1 => \A i \in 1..Len(feed) : feed[i] # k
         /\ MovedToFront(k) \in Seq(Keys)
         /\ Len(MovedToFront(k)) = IF Place(k) <= Len(feed) THEN Len(feed) ELSE Len(feed) + 1
         /\ \A i \in 1..Len(MovedToFront(k)) :
              MovedToFront(k)[i] = IF i = 1 THEN k
                                   ELSE IF i <= Place(k) THEN feed[i - 1] ELSE feed[i]
<1>1. Len(feed) \in Nat /\ DOMAIN feed = 1..Len(feed) /\ \A i \in 1..Len(feed) : feed[i] \in Keys
  BY DEF FeedOK
<1>2. /\ Place(k) \in 1..(Len(feed) + 1)
      /\ Place(k) <= Len(feed) => feed[Place(k)] = k
      /\ Place(k) = Len(feed) + 1 => \A i \in 1..Len(feed) : feed[i] # k
  <2>1. CASE \E i \in DOMAIN feed : feed[i] = k
    <3>1. Place(k) \in DOMAIN feed /\ feed[Place(k)] = k BY <2>1 DEF Place
    <3> QED BY <1>1, <3>1
  <2>2. CASE ~ \E i \in DOMAIN feed : feed[i] = k
    <3>1. Place(k) = Len(feed) + 1 BY <2>2 DEF Place
    <3> QED BY <1>1, <2>2, <3>1
  <2> QED BY <2>1, <2>2
<1> DEFINE n == IF Place(k) <= Len(feed) THEN Len(feed) ELSE Len(feed) + 1
           at(i) == IF i = 1 THEN k ELSE IF i <= Place(k) THEN feed[i - 1] ELSE feed[i]
<1>3. n \in Nat /\ DOMAIN feed \cup {Place(k)} = 1..n BY <1>1, <1>2
<1>4. MovedToFront(k) = [i \in 1..n |-> at(i)] BY <1>3 DEF MovedToFront
<1>5. \A i \in 1..n : at(i) \in Keys
  <2> SUFFICES ASSUME NEW i \in 1..n PROVE at(i) \in Keys OBVIOUS
  <2>1. CASE i = 1 BY <2>1
  <2>2. CASE i # 1 /\ i <= Place(k)
    <3>1. i - 1 \in 1..Len(feed) BY <1>1, <1>2, <1>3, <2>2
    <3> QED BY <1>1, <2>2, <3>1
  <2>3. CASE i # 1 /\ ~(i <= Place(k))
    <3>1. i \in 1..Len(feed) BY <1>1, <1>2, <1>3, <2>3
    <3> QED BY <1>1, <2>3, <3>1
  <2> QED BY <2>1, <2>2, <2>3
<1>6. MovedToFront(k) \in Seq(Keys) /\ Len(MovedToFront(k)) = n
      /\ \A i \in 1..n : MovedToFront(k)[i] = at(i)
  <2> HIDE DEF n, at
  <2> QED BY <1>3, <1>4, <1>5
<1> QED BY <1>2, <1>6

\* It stays a list without repetition.
LEMMA MovedInjective ==
  ASSUME FeedOK, NEW k \in Keys
  PROVE  IsInjective(MovedToFront(k))
<1> DEFINE moved == MovedToFront(k)
<1>1. /\ moved \in Seq(Keys) /\ Len(feed) \in Nat /\ Place(k) \in 1..(Len(feed) + 1)
      /\ Place(k) <= Len(feed) => feed[Place(k)] = k
      /\ Place(k) = Len(feed) + 1 => \A i \in 1..Len(feed) : feed[i] # k
      /\ Len(moved) = IF Place(k) <= Len(feed) THEN Len(feed) ELSE Len(feed) + 1
      /\ \A i \in 1..Len(moved) :
           moved[i] = IF i = 1 THEN k ELSE IF i <= Place(k) THEN feed[i - 1] ELSE feed[i]
  BY MovedFacts DEF FeedOK
<1>2. \A i, j \in 1..Len(feed) : feed[i] = feed[j] => i = j
  BY DEF FeedOK, IsInjective
<1>3. DOMAIN moved = 1..Len(moved) /\ Len(moved) \in Nat BY <1>1
<1> HIDE DEF moved
\* Where each one was before.
<1> DEFINE was(i) == IF i = 1 THEN Place(k) ELSE IF i <= Place(k) THEN i - 1 ELSE i
<1>4. \A i \in 1..Len(moved) :
        /\ was(i) \in 1..(Len(feed) + 1)
        /\ was(i) <= Len(feed) => moved[i] = feed[was(i)]
        /\ was(i) = Len(feed) + 1 => i = 1
  BY <1>1, <1>3
<1>5. \A i, j \in 1..Len(moved) : was(i) = was(j) => i = j
  BY <1>1, <1>3
<1>6. ASSUME NEW i \in 1..Len(moved), NEW j \in 1..Len(moved), moved[i] = moved[j]
      PROVE  was(i) = was(j)
  <2>1. CASE was(i) <= Len(feed) /\ was(j) <= Len(feed)
    <3>1. was(i) \in 1..Len(feed) /\ was(j) \in 1..Len(feed) BY <1>1, <1>4, <2>1
    <3> HIDE DEF was
    <3> QED BY <1>2, <1>4, <1>6, <2>1, <3>1
  <2>2. CASE ~(was(i) <= Len(feed)) \/ ~(was(j) <= Len(feed))
    <3>1. was(i) = Len(feed) + 1 \/ was(j) = Len(feed) + 1
      <4>1. was(i) \in 1..(Len(feed) + 1) /\ was(j) \in 1..(Len(feed) + 1) BY <1>4
      <4> HIDE DEF was
      <4> QED BY <1>1, <2>2, <4>1
    <3>2. i = 1 \/ j = 1 BY <1>4, <3>1
    <3>3. Place(k) = Len(feed) + 1 /\ moved[1] = k BY <1>1, <3>1, <3>2
    <3>4. \A a \in 1..Len(moved) : a # 1 => was(a) \in 1..Len(feed) /\ moved[a] = feed[was(a)]
      BY <1>1, <1>3, <3>3
    <3>5. \A a \in 1..Len(moved) : a # 1 => moved[a] # k
      <4> HIDE DEF was
      <4> QED BY <1>1, <3>3, <3>4
    <3>6. i = 1 /\ j = 1 BY <1>6, <3>2, <3>3, <3>5
    <3> QED BY <3>6
  <2> QED BY <2>1, <2>2
<1>7. \A i, j \in DOMAIN moved : moved[i] = moved[j] => i = j
  <2> HIDE DEF was
  <2> QED BY <1>3, <1>5, <1>6
<1> QED BY <1>7 DEF IsInjective, moved

\* The first purchases and the one that is moved to the front are the first then.
LEMMA FirstMoved ==
  ASSUME FeedOK, NEW k \in Keys, NEW n \in 0..Len(feed)
  PROVE  \E m \in 0..Len(MovedToFront(k)) :
           First(MovedToFront(k), m) = First(feed, n) \cup {k}
<1> DEFINE moved == MovedToFront(k)
           m == IF Place(k) <= n THEN n ELSE n + 1
<1>0. Len(feed) \in Nat BY DEF FeedOK
<1>1. /\ moved \in Seq(Keys) /\ Len(feed) \in Nat /\ Place(k) \in 1..(Len(feed) + 1)
      /\ Place(k) <= Len(feed) => feed[Place(k)] = k
      /\ Len(moved) = IF Place(k) <= Len(feed) THEN Len(feed) ELSE Len(feed) + 1
      /\ \A i \in 1..Len(moved) :
           moved[i] = IF i = 1 THEN k ELSE IF i <= Place(k) THEN feed[i - 1] ELSE feed[i]
  <2> HIDE DEF m
  <2> QED BY MovedFacts, <1>0
<1> HIDE DEF moved
<1>2. m \in 0..Len(moved) /\ m >= 1 BY <1>1
<1>3. moved[1] = k /\ 1 \in 1..m BY <1>1, <1>2
<1>4. ASSUME NEW i \in 1..n PROVE feed[i] = k \/ \E j \in 1..m : moved[j] = feed[i]
  <2>1. CASE i < Place(k)
    <3>1. i + 1 \in 1..Len(moved) /\ i + 1 \in 1..m BY <1>1, <1>2, <2>1
    <3>2. moved[i + 1] = feed[i] BY <1>1, <2>1, <3>1
    <3> QED BY <3>1, <3>2
  <2>2. CASE i = Place(k) BY <1>1, <2>2
  <2>3. CASE i > Place(k)
    <3>1. i \in 1..Len(moved) /\ i \in 1..m BY <1>1, <1>2, <2>3
    <3>2. moved[i] = feed[i] BY <1>1, <2>3, <3>1
    <3> QED BY <3>1, <3>2
  <2> QED BY <1>1, <2>1, <2>2, <2>3
<1>5. ASSUME NEW j \in 1..m PROVE moved[j] = k \/ \E i \in 1..n : moved[j] = feed[i]
  <2>1. j \in 1..Len(moved) BY <1>2
  <2>2. CASE j = 1 BY <1>3, <2>2
  <2>3. CASE j # 1 /\ j <= Place(k)
    <3>1. j - 1 \in 1..n /\ moved[j] = feed[j - 1] BY <1>1, <2>1, <2>3
    <3> QED BY <3>1
  <2>4. CASE j # 1 /\ ~(j <= Place(k))
    <3>1. j \in 1..n /\ moved[j] = feed[j] BY <1>1, <2>1, <2>4
    <3> QED BY <3>1
  <2> QED BY <2>2, <2>3, <2>4
<1>6. First(moved, m) = First(feed, n) \cup {k}
  <2> HIDE DEF m
  <2> QED BY <1>3, <1>4, <1>5 DEF First
<1> QED BY <1>2, <1>6 DEF moved

\* The first n of a list without repetition are n.
LEMMA FirstCount ==
  ASSUME NEW s \in Seq(Keys), IsInjective(s), NEW n \in 0..Len(s)
  PROVE  IsFiniteSet(First(s, n)) /\ Cardinality(First(s, n)) = n
<1> DEFINE f == [i \in 1..n |-> s[i]]
<1>1. n \in Nat /\ \A i, j \in 1..n : s[i] = s[j] => i = j
  BY DEF IsInjective
<1>2. f \in Surjection(1..n, First(s, n)) BY DEF Surjection, First
<1>3. f \in Injection(1..n, First(s, n)) BY <1>1 DEF Injection, IsInjective, First
<1>4. IsFiniteSet(1..n) /\ Cardinality(1..n) = n BY <1>1, UpTo
<1> HIDE DEF f
<1> QED BY <1>2, <1>3, <1>4, FS_Surjection

\* Those that were published since the worker's page come before all others in the
\* feed, at most Limit of them; every other is stored or was written by hand.  What
\* a page that is being stored misses of them comes first too: it was published
\* after the page was read.
Unread == {k \in recent : seen[k] # rev[k]}

RevisionsOK ==
  /\ \A i \in DOMAIN feed : rev[feed[i]] > 0
  /\ \A k \in Keys : rev[k] + budget.changes <= MaxChanges
  /\ \A k \in Keys : seen[k] <= rev[k]

RecentFirst == \E n \in 0..Len(feed) : n <= Limit /\ recent = First(feed, n)

OthersStored == \A k \in Keys \ recent : store[k] = rev[k] \/ k \in touched

UnreadFirst ==
  pc = "ingest" =>
    /\ \E m \in 0..Len(feed) : Unread = First(feed, m)
    /\ \A k \in Keys \ recent : seen[k] \in {0, rev[k]}

ReachInv == WorkerTypeOK /\ RevisionsOK /\ RecentFirst /\ OthersStored /\ UnreadFirst

-----------------------------------------------------------------------------
(* The steps. *)

LEMMA Bounds ==
  Limit \in Nat /\ Limit > 0 /\ MaxChanges \in Nat /\ MaxManual \in Nat /\ MaxDeaths \in Nat
<1>1. Limit \in Nat \ {0} /\ MaxChanges \in Nat /\ MaxManual \in Nat /\ MaxDeaths \in Nat
  BY WorkerAssumption, Zenon
<1> QED BY <1>1

LEMMA InWindow ==
  ASSUME FeedOK, NEW n \in 0..Len(feed), n <= Limit
  PROVE  First(feed, n) \subseteq Window(Limit)
<1>1. Len(feed) \in Nat /\ DOMAIN feed = 1..Len(feed) BY DEF FeedOK
<1>2. \A i \in 1..n : i \in (1..Limit) \cap DOMAIN feed BY <1>1, Bounds
<1> QED BY <1>2 DEF First, Window

LEMMA PageFacts ==
  ASSUME WorkerTypeOK, NEW limit
  PROVE  /\ PageOf(limit) \in [Keys -> Revisions]
         /\ \A k \in Keys : PageOf(limit)[k] \in {0, rev[k]}
         /\ \A k \in Window(limit) \cap Keys : PageOf(limit)[k] = rev[k]
BY Bounds DEF WorkerTypeOK, PageOf, Revisions

LEMMA AppliedFacts ==
  ASSUME WorkerTypeOK, NEW page \in [Keys -> Revisions]
  PROVE  /\ Applied(page) \in [Keys -> Revisions \cup {Uploaded}]
         /\ \A k \in Keys : Applied(page)[k] = IF page[k] > 0 THEN page[k] ELSE store[k]
         /\ OnPage(page) \subseteq Keys
         /\ \A k \in Keys : k \in OnPage(page) <=> page[k] > 0
BY DEF WorkerTypeOK, Applied, OnPage

LEMMA InitReach == Init => ReachInv
<1> SUFFICES ASSUME Init PROVE ReachInv OBVIOUS
<1>1. NoPage \in [Keys -> Revisions] /\ \A k \in Keys : NoPage[k] = 0
  BY Bounds DEF NoPage, Revisions
<1>2. feed = <<>> /\ feed \in Seq(Keys) /\ DOMAIN feed = {} /\ Len(feed) = 0 BY DEF Init
<1>3. WorkerTypeOK
  BY <1>1, <1>2, Bounds DEF Init, WorkerTypeOK, IsInjective
<1>4. RevisionsOK BY <1>1, <1>2, Bounds DEF Init, RevisionsOK
<1>5. RecentFirst
  <2>1. recent = First(feed, 0) BY DEF Init, First
  <2> QED BY <1>2, <2>1, Bounds DEF RecentFirst
<1>6. OthersStored /\ UnreadFirst BY <1>1 DEF Init, OthersStored, UnreadFirst
<1> QED BY <1>3, <1>4, <1>5, <1>6 DEF ReachInv

LEMMA PublishReach ==
  ASSUME ReachInv, NEW k \in Keys, Publish(k), FewPublished'
  PROVE  ReachInv'
<1> USE DEF ReachInv
<1>1. FeedOK /\ feed' = MovedToFront(k) BY DEF WorkerTypeOK, FeedOK, Publish
<1>2. FeedOK' BY <1>1, MovedFacts, MovedInjective DEF FeedOK
<1>3. /\ rev \in [Keys -> Revisions] /\ rev[k] \in Nat
      /\ budget.changes \in Nat /\ budget.changes > 0 /\ rev[k] + budget.changes <= MaxChanges
      /\ budget'.changes = budget.changes - 1 /\ budget' \in [changes : Nat, manual : Nat, deaths : Nat]
  <2>1. rev \in [Keys -> Revisions] /\ rev[k] \in Nat
    BY DEF WorkerTypeOK, Revisions
  <2>2. budget \in [changes : Nat, manual : Nat, deaths : Nat] BY DEF WorkerTypeOK
  <2>3. budget.changes > 0 /\ budget' = [budget EXCEPT !.changes = @ - 1] BY DEF Publish
  <2>4. rev[k] + budget.changes <= MaxChanges BY DEF RevisionsOK
  <2> QED BY <2>1, <2>2, <2>3, <2>4
<1>4. /\ rev' \in [Keys -> Revisions] /\ rev'[k] = rev[k] + 1
      /\ \A x \in Keys : x # k => rev'[x] = rev[x]
  BY <1>3, Bounds DEF Publish, Revisions
<1>5. WorkerTypeOK'
  <2>1. recent' \subseteq Keys BY DEF WorkerTypeOK, Publish
  <2> QED BY <1>2, <1>3, <1>4, <2>1
       DEF WorkerTypeOK, FeedOK, Publish, data, worker
<1>6. RevisionsOK'
  <2>1. \A i \in DOMAIN feed' : rev'[feed'[i]] > 0
    <3> SUFFICES ASSUME NEW i \in DOMAIN feed' PROVE rev'[feed'[i]] > 0 OBVIOUS
    <3>1. i \in 1..Len(feed') /\ Len(feed) \in Nat /\ DOMAIN feed = 1..Len(feed)
      BY <1>1, <1>2 DEF FeedOK
    <3>2. feed'[i] = k \/ \E j \in DOMAIN feed : feed'[i] = feed[j]
      <4>1. CASE i = 1 BY <1>1, <3>1, <4>1, MovedFacts
      <4>2. CASE i # 1 /\ i <= Place(k)
        <5>1. Place(k) \in 1..(Len(feed) + 1) /\ feed'[i] = feed[i - 1]
          BY <1>1, <3>1, <4>2, MovedFacts
        <5>2. i - 1 \in DOMAIN feed BY <3>1, <4>2, <5>1
        <5> QED BY <5>1, <5>2
      <4>3. CASE i # 1 /\ ~(i <= Place(k))
        <5>1. /\ Place(k) \in 1..(Len(feed) + 1) /\ feed'[i] = feed[i]
              /\ Len(feed') = IF Place(k) <= Len(feed) THEN Len(feed) ELSE Len(feed) + 1
          BY <1>1, <3>1, <4>3, MovedFacts
        <5>2. i \in DOMAIN feed BY <3>1, <4>3, <5>1
        <5> QED BY <5>1, <5>2
      <4> QED BY <4>1, <4>2, <4>3
    <3>3. CASE feed'[i] = k BY <1>3, <1>4, <3>3
    <3>4. CASE feed'[i] # k
      <4>1. PICK j \in DOMAIN feed : feed'[i] = feed[j] BY <3>2, <3>4
      <4>2. feed[j] \in Keys BY <1>1, <3>1 DEF FeedOK
      <4> QED BY <1>4, <3>4, <4>1, <4>2 DEF RevisionsOK
    <3> QED BY <3>3, <3>4
  <2>2. \A x \in Keys : rev'[x] + budget'.changes <= MaxChanges
    <3> SUFFICES ASSUME NEW x \in Keys PROVE rev'[x] + budget'.changes <= MaxChanges OBVIOUS
    <3>1. rev[x] \in Nat /\ rev[x] + budget.changes <= MaxChanges
      BY <1>3 DEF RevisionsOK, Revisions
    <3> QED BY <1>3, <1>4, <3>1, Bounds
  <2>3. \A x \in Keys : seen'[x] <= rev'[x]
    <3> SUFFICES ASSUME NEW x \in Keys PROVE seen'[x] <= rev'[x] OBVIOUS
    <3>1. seen'[x] = seen[x] /\ seen[x] \in Nat /\ rev[x] \in Nat /\ seen[x] <= rev[x]
      BY <1>3 DEF RevisionsOK, WorkerTypeOK, Revisions, Publish, worker
    <3> QED BY <1>4, <3>1
  <2> QED BY <2>1, <2>2, <2>3 DEF RevisionsOK
<1>7. RecentFirst'
  <2>1. PICK n \in 0..Len(feed) : recent = First(feed, n) BY DEF RecentFirst
  <2>2. PICK m \in 0..Len(feed') : First(feed', m) = First(feed, n) \cup {k}
    BY <1>1, FirstMoved
  <2>3. recent' = First(feed', m) BY <2>1, <2>2 DEF Publish
  <2>4. Cardinality(First(feed', m)) = m
    <3>1. feed' \in Seq(Keys) /\ IsInjective(feed') BY <1>2 DEF FeedOK
    <3> QED BY <3>1, FirstCount
  <2>5. m <= Limit BY <2>3, <2>4 DEF FewPublished
  <2> QED BY <2>3, <2>5 DEF RecentFirst
<1>8. OthersStored' BY <1>4 DEF OthersStored, Publish, data
<1>9. UnreadFirst'
  <2> SUFFICES ASSUME pc' = "ingest"
               PROVE  /\ \E m \in 0..Len(feed') : Unread' = First(feed', m)
                      /\ \A x \in Keys \ recent' : seen'[x] \in {0, rev'[x]}
    BY DEF UnreadFirst
  <2>1. pc = "ingest" /\ seen' = seen BY DEF Publish, worker
  <2>2. PICK n \in 0..Len(feed) : Unread = First(feed, n) BY <2>1 DEF UnreadFirst
  <2>3. PICK m \in 0..Len(feed') : First(feed', m) = First(feed, n) \cup {k}
    BY <1>1, FirstMoved
  <2>4. seen'[k] # rev'[k]
    <3>1. seen[k] \in Nat /\ seen[k] <= rev[k]
      BY DEF RevisionsOK, WorkerTypeOK, Revisions
    <3> QED BY <1>3, <1>4, <2>1, <3>1
  <2>5. recent' = recent \cup {k} /\ recent \subseteq Keys BY DEF Publish, WorkerTypeOK
  <2>6. Unread' = Unread \cup {k}
    BY <1>4, <2>1, <2>4, <2>5 DEF Unread
  <2>7. \A x \in Keys \ recent' : seen'[x] \in {0, rev'[x]}
    BY <1>4, <2>1, <2>5 DEF UnreadFirst
  <2> QED BY <2>2, <2>3, <2>6, <2>7
<1> QED BY <1>5, <1>6, <1>7, <1>8, <1>9

\* A page is stored by hand, or a package: the purchases it writes are marked.
LEMMA WrittenByHand ==
  ASSUME ReachInv, UNCHANGED <<feed, rev, recent, seen, stopped, alerted, profiles>>,
         pc' = pc, budget'.changes = budget.changes,
         budget' \in [changes : Nat, manual : Nat, deaths : Nat], manual' \in [Keys -> Revisions],
         store' \in [Keys -> Revisions \cup {Uploaded}], touched' \subseteq Keys,
         \A k \in Keys : k \notin touched' => store'[k] = store[k] /\ k \notin touched
  PROVE  ReachInv'
<1>1. WorkerTypeOK' BY DEF ReachInv, WorkerTypeOK
<1>2. RevisionsOK' /\ RecentFirst' BY DEF ReachInv, RevisionsOK, RecentFirst
<1>3. OthersStored' BY DEF ReachInv, OthersStored
<1>4. UnreadFirst' BY DEF ReachInv, UnreadFirst, Unread
<1> QED BY <1>1, <1>2, <1>3, <1>4 DEF ReachInv

LEMMA ManualReach ==
  ASSUME ReachInv, (\E limit \in 1..Len(feed) : ManualFetch(limit)) \/ ManualIngest \/ ManualFails
  PROVE  ReachInv'
<1> USE DEF source, worker, data
<1>0. WorkerTypeOK BY DEF ReachInv
<1>1. NoPage \in [Keys -> Revisions] BY Bounds DEF NoPage, Revisions
<1>2. ASSUME NEW limit \in 1..Len(feed), ManualFetch(limit) PROVE ReachInv'
  <2>1. manual' \in [Keys -> Revisions] BY <1>0, <1>2, PageFacts DEF ManualFetch
  <2>2. budget'.changes = budget.changes /\ budget' \in [changes : Nat, manual : Nat, deaths : Nat]
    BY <1>0, <1>2 DEF WorkerTypeOK, ManualFetch
  <2> QED BY <1>0, <1>2, <2>1, <2>2, WrittenByHand DEF ManualFetch, WorkerTypeOK
<1>3. CASE ManualIngest
  <2>1. manual \in [Keys -> Revisions] BY <1>0 DEF WorkerTypeOK
  <2>2. /\ store' \in [Keys -> Revisions \cup {Uploaded}] /\ touched' \subseteq Keys
        /\ \A k \in Keys : k \notin touched' => store'[k] = store[k] /\ k \notin touched
    BY <1>0, <1>3, <2>1, AppliedFacts DEF ManualIngest, WorkerTypeOK
  <2> QED BY <1>0, <1>1, <1>3, <2>2, WrittenByHand DEF ManualIngest, WorkerTypeOK
<1>4. CASE ManualFails
  BY <1>0, <1>1, <1>4, WrittenByHand DEF ManualFails, WorkerTypeOK
<1> QED BY <1>2, <1>3, <1>4

LEMMA UploadReach ==
  ASSUME ReachInv, NEW p \in Packages, Upload(p)
  PROVE  ReachInv'
<1> USE DEF source, worker, data
<1>0. WorkerTypeOK BY DEF ReachInv
<1> DEFINE found == IF PackageOutcome(p.safe, p.members) = "records"
                    THEN UNION {KeysOf(p.members[m]) : m \in DOMAIN p.members} ELSE {}
<1>1. store' = [k \in Keys |-> IF k \in found THEN Uploaded ELSE store[k]] /\ touched' = touched \cup found
  BY DEF Upload
<1>2. budget'.changes = budget.changes /\ budget' \in [changes : Nat, manual : Nat, deaths : Nat]
  BY <1>0 DEF WorkerTypeOK, Upload
<1>3. found \subseteq Keys
  <2>1. p \in [safe : BOOLEAN, members : Seq(Seq(Element))] BY WorkerAssumption, Zenon
  <2>2. p.members \in Seq(Seq(Element)) BY <2>1, Zenon
  <2>3. \A m \in DOMAIN p.members : p.members[m] \in Seq(Element)
    <3> DEFINE ms == p.members
               S == Seq(Element)
    <3>1. ms \in Seq(S) BY <2>2
    <3> HIDE DEF ms, S
    <3>2. \A m \in DOMAIN ms : ms[m] \in S BY <3>1
    <3> QED BY <3>2 DEF ms, S
  <2>4. ASSUME NEW s \in Seq(Element) PROVE KeysOf(s) \subseteq Keys
    <3>1. \A i \in DOMAIN s : s[i] \in Element OBVIOUS
    <3>2. \A e \in Element : e.key \in Keys BY DEF Element
    <3> QED BY <3>1, <3>2 DEF KeysOf
  <2> QED BY <2>3, <2>4, Zenon
<1> HIDE DEF found
<1>4. /\ store' \in [Keys -> Revisions \cup {Uploaded}] /\ touched' \subseteq Keys
      /\ \A k \in Keys : k \notin touched' => store'[k] = store[k] /\ k \notin touched
  BY <1>0, <1>1, <1>3 DEF WorkerTypeOK
<1>5. UNCHANGED <<feed, rev, recent, seen, stopped, alerted, profiles>> /\ pc' = pc
      /\ manual' = manual
  BY DEF Upload
<1> QED BY <1>0, <1>2, <1>4, <1>5, WrittenByHand DEF WorkerTypeOK

LEMMA FetchReach ==
  ASSUME ReachInv, Fetch
  PROVE  ReachInv'
<1> USE DEF source, data
<1>1. WorkerTypeOK /\ FeedOK BY DEF ReachInv, WorkerTypeOK, FeedOK
<1>2. /\ seen' \in [Keys -> Revisions]
      /\ \A k \in Keys : seen'[k] \in {0, rev[k]}
      /\ \A k \in Window(Limit) \cap Keys : seen'[k] = rev[k]
  BY <1>1, PageFacts DEF Fetch
<1>3. WorkerTypeOK' BY <1>1, <1>2 DEF WorkerTypeOK, Fetch
<1>4. RevisionsOK'
  <2>1. \A k \in Keys : rev[k] \in Nat BY <1>1 DEF WorkerTypeOK, Revisions
  <2>2. \A k \in Keys : seen'[k] <= rev'[k] BY <1>2, <2>1 DEF Fetch
  <2> QED BY <2>2 DEF RevisionsOK, ReachInv, Fetch
<1>5. RecentFirst' /\ OthersStored' BY DEF ReachInv, RecentFirst, OthersStored, Fetch
<1>6. UnreadFirst'
  <2>1. PICK n \in 0..Len(feed) : n <= Limit /\ recent = First(feed, n)
    BY DEF ReachInv, RecentFirst
  <2>2. recent \subseteq Window(Limit) \cap Keys
    BY <1>1, <2>1, InWindow DEF WorkerTypeOK
  <2>3. Unread' = {} BY <1>2, <2>2 DEF Unread, Fetch
  <2>4. First(feed', 0) = {} BY DEF First
  <2>5. 0 \in 0..Len(feed') BY <1>3 DEF WorkerTypeOK
  <2>6. \A k \in Keys \ recent' : seen'[k] \in {0, rev'[k]} BY <1>2 DEF Fetch
  <2> QED BY <2>3, <2>4, <2>5, <2>6 DEF UnreadFirst
<1> QED BY <1>3, <1>4, <1>5, <1>6 DEF ReachInv

\* What the page missed is what comes first in the feed.
LEMMA IngestReach ==
  ASSUME ReachInv, Ingest
  PROVE  ReachInv'
<1> USE DEF Goto
<1>1. WorkerTypeOK /\ FeedOK /\ seen \in [Keys -> Revisions]
  BY DEF ReachInv, WorkerTypeOK, FeedOK
<1>2. /\ store' \in [Keys -> Revisions \cup {Uploaded}]
      /\ \A k \in Keys : store'[k] = IF seen[k] > 0 THEN seen[k] ELSE store[k]
      /\ \A k \in Keys : k \in touched' <=> k \in touched /\ ~(seen[k] > 0)
      /\ touched' \subseteq Keys
  BY <1>1, AppliedFacts DEF Ingest, WorkerTypeOK
<1>3. recent' = Unread /\ recent' \subseteq recent BY DEF Ingest, Unread
<1>4. WorkerTypeOK' BY <1>1, <1>2, <1>3 DEF WorkerTypeOK, Ingest
<1>5. RevisionsOK' BY DEF ReachInv, RevisionsOK, Ingest
<1>6. PICK n \in 0..Len(feed) : n <= Limit /\ recent = First(feed, n)
  BY DEF ReachInv, RecentFirst
<1>7. PICK m \in 0..Len(feed) : Unread = First(feed, m)
  BY DEF ReachInv, UnreadFirst, Ingest
<1>8. RecentFirst'
  <2>1. feed \in Seq(Keys) /\ IsInjective(feed) BY <1>1 DEF FeedOK
  <2>2. /\ IsFiniteSet(First(feed, n)) /\ Cardinality(First(feed, n)) = n
        /\ IsFiniteSet(First(feed, m)) /\ Cardinality(First(feed, m)) = m
    BY <2>1, FirstCount
  <2>3. m <= n BY <1>3, <1>6, <1>7, <2>2, FS_Subset
  <2>4. m <= Limit BY <1>6, <2>3, Bounds
  <2> QED BY <1>3, <1>7, <2>4 DEF RecentFirst, Ingest
<1>9. OthersStored'
  <2> SUFFICES ASSUME NEW k \in Keys \ recent'
               PROVE  store'[k] = rev[k] \/ k \in touched'
    BY DEF OthersStored, Ingest
  <2>0. seen[k] \in Nat BY <1>1 DEF Revisions
  <2>1. CASE k \in recent
    <3>1. rev[k] = seen[k] BY <1>3, <2>1 DEF Unread
    <3>2. rev[k] > 0
      <4>1. PICK i \in 1..n : k = feed[i] BY <1>6, <2>1 DEF First
      <4>2. i \in DOMAIN feed BY <1>1 DEF FeedOK
      <4> QED BY <4>1, <4>2 DEF ReachInv, RevisionsOK
    <3> QED BY <1>2, <3>1, <3>2
  <2>2. CASE k \notin recent
    <3>1. seen[k] \in {0, rev[k]} BY <2>2 DEF ReachInv, UnreadFirst, Ingest
    <3>2. CASE seen[k] > 0 BY <1>2, <3>1, <3>2
    <3>3. CASE ~(seen[k] > 0) BY <1>2, <2>2, <3>3 DEF ReachInv, OthersStored
    <3> QED BY <3>2, <3>3
  <2> QED BY <2>1, <2>2
<1>10. UnreadFirst' BY DEF UnreadFirst, Ingest
<1> QED BY <1>4, <1>5, <1>8, <1>9, <1>10 DEF ReachInv

\* Steps that neither publish, read nor write.
LEMMA QuietReach ==
  ASSUME ReachInv, UNCHANGED <<feed, rev, recent, store, touched, seen, manual>>,
         alerted' \in [Keys -> Revisions \cup {Uploaded}], profiles' \in BOOLEAN, stopped' \in BOOLEAN,
         pc' \in {"off", "head", "cycle", "fetch", "alerts", "wait", "ended"} \/ pc' = pc,
         budget' \in [changes : Nat, manual : Nat, deaths : Nat], budget'.changes = budget.changes
  PROVE  ReachInv'
<1>1. WorkerTypeOK' BY DEF ReachInv, WorkerTypeOK
<1>2. RevisionsOK' /\ RecentFirst' /\ OthersStored'
  BY DEF ReachInv, RevisionsOK, RecentFirst, OthersStored
<1>3. UnreadFirst' BY DEF ReachInv, UnreadFirst, Unread
<1> QED BY <1>1, <1>2, <1>3 DEF ReachInv

LEMMA NextReach ==
  ASSUME ReachInv, [Next]_vars, FewPublished'
  PROVE  ReachInv'
<1> USE DEF Goto, source, worker, data
<1>0. WorkerTypeOK BY DEF ReachInv
<1>1. ASSUME NEW k \in Keys, Publish(k) PROVE ReachInv' BY <1>1, PublishReach
<1>2. ASSUME NEW p \in Packages, Upload(p) PROVE ReachInv' BY <1>2, UploadReach
<1>3. CASE CreateProfile BY <1>0, <1>3, QuietReach DEF CreateProfile, WorkerTypeOK
<1>4. CASE (\E limit \in 1..Len(feed) : ManualFetch(limit)) \/ ManualIngest \/ ManualFails
  BY <1>4, ManualReach
<1>5. CASE Start \/ LoopHead \/ ReadProfiles \/ FetchRaises
  BY <1>0, <1>5, QuietReach DEF Start, LoopHead, ReadProfiles, FetchRaises, WorkerTypeOK
<1>6. CASE Fetch BY <1>6, FetchReach
<1>7. CASE FetchRejected \/ FetchFails \/ Wait \/ EndDead
  BY <1>0, <1>7, QuietReach DEF FetchRejected, FetchFails, Wait, EndDead, WorkerTypeOK
<1>8. CASE Ingest BY <1>8, IngestReach
<1>9. CASE SyncAlerts BY <1>0, <1>9, QuietReach DEF SyncAlerts, WorkerTypeOK
<1>10. CASE Die
  <2>1. budget' \in [changes : Nat, manual : Nat, deaths : Nat] /\ budget'.changes = budget.changes
    BY <1>0, <1>10 DEF Die, WorkerTypeOK
  <2> QED BY <1>0, <1>10, <2>1, QuietReach DEF Die, WorkerTypeOK
<1>11. CASE Stop BY <1>0, <1>11, QuietReach DEF Stop, WorkerTypeOK
<1>12. CASE UNCHANGED vars BY <1>0, <1>12, QuietReach DEF vars, WorkerTypeOK
<1> QED
  BY <1>1, <1>2, <1>3, <1>4, <1>5, <1>6, <1>7, <1>8, <1>9, <1>10, <1>11, <1>12
  DEF Next, Environment, Step, Lawful

-----------------------------------------------------------------------------
(* The theorem. *)

\* As long as the source changes at most Limit purchases between two pages that the
\* worker stores, none falls off the page before it is stored, whatever was published
\* between the reading of the worker's page and its storing, run by hand or killed:
\* what is not stored as it was last published is on the page that is read next, or was
\* written by hand since the worker's last page (_parse_run in live_ingestion.py,
\* items[:limit] in parse_eis_rss, the sort order of fetch_eis's query).
THEOREM NothingFallsOff == Spec => StaysInReach
<1>1. Init => ReachInv BY InitReach
<1>2. ReachInv /\ [Next]_vars /\ FewPublished' => ReachInv' BY NextReach
<1>3. ReachInv => InReach
  <2> SUFFICES ASSUME ReachInv PROVE InReach OBVIOUS
  <2>1. FeedOK BY DEF ReachInv, WorkerTypeOK, FeedOK
  <2>2. PICK n \in 0..Len(feed) : n <= Limit /\ recent = First(feed, n)
    BY DEF ReachInv, RecentFirst
  <2>3. recent \subseteq Window(Limit) BY <2>1, <2>2, InWindow
  <2> QED BY <2>3 DEF ReachInv, OthersStored, InReach
<1> QED BY <1>1, <1>2, <1>3, PTL DEF Spec, StaysInReach
=============================================================================
