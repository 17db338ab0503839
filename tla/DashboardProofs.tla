-------------------------- MODULE DashboardProofs --------------------------
(***************************************************************************)
(* What a page may rely on, for any number of records, runs and versions:  *)
(* the reads of a handler come from different instants, and the order of   *)
(* its SELECTs makes up for it.  What match and assess_geography guarantee *)
(* of their arguments holds of what the page shows.                        *)
(***************************************************************************)
EXTENDS Dashboard, TLAPS, FiniteSetTheorems

-----------------------------------------------------------------------------
(* What match and assess_geography guarantee, for any regions, companies and notices. *)

Codes == {"unknown", "excluded", "out_of_scope"} \cup OwnReach \cup BorrowedReach

\* How far the reach of a code goes.
Rank(code) ==
  IF code \in OwnReach THEN 3
  ELSE IF code \in BorrowedReach THEN 2
  ELSE IF code = "unknown" THEN 1 ELSE 0

\* assess_geography on what matters to the score: the first rule that holds.
LEMMA RankOfGeography ==
  ASSUME NEW c \in Company, NEW n \in Notice, n.regions # {}
  PROVE  Rank(Geography(c, n)) =
           IF n.regions \cap c.excluded # {} THEN 0
           ELSE IF n.regions \cap c.service # {} \/ Remote(c, n) THEN 3
           ELSE IF c.contractors \/ c.travel THEN 2 ELSE 0
BY DEF Rank, Geography, OwnReach, BorrowedReach

\* The company itself reaches no less far when its reach widens.
LEMMA RankWidens ==
  ASSUME NEW c \in Company, NEW d \in Company, NEW n \in Notice, WiderReach(c, d)
  PROVE  Rank(Geography(c, n)) <= Rank(Geography(d, n))
<1>1. CASE n.regions = {}
  BY <1>1 DEF Geography, Rank, OwnReach, BorrowedReach
<1>2. CASE n.regions # {}
  <2>1. Remote(c, n) => Remote(d, n)
    BY DEF WiderReach, Remote
  <2>2. /\ n.regions \cap d.excluded # {} => n.regions \cap c.excluded # {}
        /\ n.regions \cap c.service # {} => n.regions \cap d.service # {}
        /\ c.contractors \/ c.travel => d.contractors \/ d.travel
    BY DEF WiderReach
  <2> QED
    BY <1>2, <2>1, <2>2, RankOfGeography
<1> QED
  BY <1>1, <1>2

\* The contributions other than that of the geography.
Matter(n) == CodePoints(n) + KeywordPoints(n) + BudgetPoints(n)

\* The worth of a notice that has not expired, by the rank of its code.
WorthAt(negative, rank, matter) ==
  LET score == matter + (IF rank = 3 THEN 2 ELSE IF rank = 2 THEN 1 ELSE 0)
  IN IF negative \/ rank = 0 \/ score < 6 THEN 0
     ELSE IF score >= 11 /\ rank = 3 THEN 2 ELSE 1

LEMMA WorthAtMonotone ==
  ASSUME NEW p \in BOOLEAN, NEW q \in BOOLEAN, q => p,
         NEW i \in 0..3, NEW j \in 0..3, i <= j,
         NEW x \in Int, NEW y \in Int, x <= y
  PROVE  WorthAt(p, i, x) <= WorthAt(q, j, y)
BY DEF WorthAt

\* The decision of a notice that has not expired depends on the code only through
\* its rank.
LEMMA DecisionByRank ==
  ASSUME NEW c \in Company, NEW n \in Notice
  PROVE  /\ Matter(n) \in Int
         /\ Worth(Decision(c, n, FALSE)) =
              WorthAt(n.negative, Rank(Geography(c, n)), Matter(n))
<1>1. Geography(c, n) \in Codes
  BY DEF Geography, Codes, OwnReach, BorrowedReach
<1>2. CodePoints(n) \in Int /\ KeywordPoints(n) \in Int /\ BudgetPoints(n) \in Int
  BY MatchingAssumption DEF CodePoints, KeywordPoints, BudgetPoints, Notice
<1>3. GeographyPoints(c, n) = LET r == Rank(Geography(c, n))
                              IN IF r = 3 THEN 2 ELSE IF r = 2 THEN 1 ELSE 0
  BY DEF GeographyPoints, Rank, OwnReach, BorrowedReach
<1>4. /\ Geography(c, n) \in OwnReach <=> Rank(Geography(c, n)) = 3
      /\ Geography(c, n) \in NoReach <=> Rank(Geography(c, n)) = 0
  BY <1>1 DEF Rank, Codes, OwnReach, BorrowedReach, NoReach
<1> HIDE DEF Rank
<1> QED
  BY <1>2, <1>3, <1>4 DEF Decision, Score, Blocked, Worth, WorthAt, Matter

\* A company that widens its reach is not shown any notice as less relevant.
THEOREM WiderReachMonotone ==
  ASSUME NEW c \in Company, NEW d \in Company, NEW n \in Notice, WiderReach(c, d)
  PROVE  Worth(Decision(c, n, FALSE)) <= Worth(Decision(d, n, FALSE))
<1>1. Rank(Geography(c, n)) \in 0..3 /\ Rank(Geography(d, n)) \in 0..3
  BY DEF Rank
<1>2. n.negative \in BOOLEAN
  BY DEF Notice
<1>3. Rank(Geography(c, n)) <= Rank(Geography(d, n))
  BY RankWidens
<1>4. Matter(n) \in Int
  BY DecisionByRank
<1>5. WorthAt(n.negative, Rank(Geography(c, n)), Matter(n))
        <= WorthAt(n.negative, Rank(Geography(d, n)), Matter(n))
  BY <1>1, <1>2, <1>3, <1>4, WorthAtMonotone
<1>6. /\ Worth(Decision(c, n, FALSE)) = WorthAt(n.negative, Rank(Geography(c, n)), Matter(n))
      /\ Worth(Decision(d, n, FALSE)) = WorthAt(n.negative, Rank(Geography(d, n)), Matter(n))
  BY DecisionByRank
<1> QED
  BY <1>5, <1>6

\* More of what speaks for a notice never makes it less relevant.
THEOREM EvidenceMonotone ==
  ASSUME NEW c \in Company, NEW n \in Notice, NEW m \in Notice, MoreEvidence(n, m)
  PROVE  Worth(Decision(c, n, FALSE)) <= Worth(Decision(c, m, FALSE))
<1>1. Geography(c, m) = Geography(c, n) /\ Rank(Geography(c, n)) \in 0..3
  BY DEF MoreEvidence, Geography, Remote, Rank
<1>2. /\ CodePoints(n) <= CodePoints(m) /\ KeywordPoints(n) <= KeywordPoints(m)
      /\ BudgetPoints(n) <= BudgetPoints(m)
  BY MatchingAssumption DEF CodePoints, KeywordPoints, BudgetPoints, Notice, MoreEvidence
<1>3. Matter(n) <= Matter(m)
  BY <1>2, MatchingAssumption DEF Matter, CodePoints, KeywordPoints, BudgetPoints, Notice
<1>4. n.negative \in BOOLEAN /\ m.negative \in BOOLEAN /\ (m.negative => n.negative)
  BY DEF Notice, MoreEvidence
<1>5. Matter(n) \in Int /\ Matter(m) \in Int
  BY DecisionByRank
<1>6. WorthAt(n.negative, Rank(Geography(c, n)), Matter(n))
        <= WorthAt(m.negative, Rank(Geography(c, n)), Matter(m))
  BY <1>1, <1>3, <1>4, <1>5, WorthAtMonotone
<1>7. /\ Worth(Decision(c, n, FALSE)) = WorthAt(n.negative, Rank(Geography(c, n)), Matter(n))
      /\ Worth(Decision(c, m, FALSE)) = WorthAt(m.negative, Rank(Geography(c, m)), Matter(m))
  BY DecisionByRank
<1> QED
  BY <1>1, <1>6, <1>7

\* What is recommended is classified as the company's trade, in a known place
\* that it serves itself, and has no negative keyword.
THEOREM RecommendedFits ==
  ASSUME NEW c \in Company, NEW n \in Notice, NEW passed \in BOOLEAN,
         Decision(c, n, passed) = "recommended"
  PROVE  Fits(c, n)
<1>1. /\ ~Blocked(c, n) /\ Score(c, n) >= 11 /\ Geography(c, n) \in OwnReach
  BY DEF Decision
<1>2. /\ n.regions # {} /\ n.regions \cap c.excluded = {}
      /\ n.regions \cap c.service # {} \/ Remote(c, n)
  BY <1>1 DEF Geography, OwnReach
<1>3. KeywordPoints(n) <= 6 /\ GeographyPoints(c, n) <= 2 /\ BudgetPoints(n) <= 1
      /\ KeywordPoints(n) \in Int /\ GeographyPoints(c, n) \in Int /\ BudgetPoints(n) \in Int
  BY MatchingAssumption DEF KeywordPoints, GeographyPoints, BudgetPoints, Notice
<1>4. n.code
  BY <1>1, <1>3 DEF Score, CodePoints
<1> QED
  BY <1>1, <1>2, <1>4 DEF Blocked, Fits

-----------------------------------------------------------------------------
(* The total of an award, for any number of lots. *)

\* The sums of the first m lots.
AreSums(lots, m, sum) ==
  sum = [n \in 0..m |-> IF n = 0 THEN 0
                        ELSE sum[n - 1] + (IF n \in Known(lots) THEN lots[n].amount ELSE 0)]

\* Every set of natural numbers has a least one: what takes the place of induction.
LEMMA LeastOf ==
  ASSUME NEW T, T \subseteq Nat, T # {}
  PROVE  \E x \in T : \A y \in T : x <= y
<1>1. PICK x \in T : \A y \in T : ~(<<y, x>> \in OpToRel(<, Nat))
  BY WFMin, NatLessThanWellFounded, Zenon
<1>2. \A y \in T : ~(y < x) BY <1>1, Zenon DEF OpToRel
<1> QED BY <1>2

\* Two lists that begin with the same lots have the same sums of them.
LEMMA SumsAgree ==
  ASSUME NEW s, NEW t, NEW m \in Nat, NEW n \in Nat, m <= n,
         NEW f, NEW g, AreSums(s, m, f), AreSums(t, n, g),
         \A i \in 1..m : (i \in Known(s) <=> i \in Known(t)) /\ s[i] = t[i]
  PROVE  \A i \in 0..m : f[i] = g[i]
<1> DEFINE Bad == {i \in 0..m : f[i] # g[i]}
<1>1. SUFFICES ASSUME Bad # {} PROVE FALSE OBVIOUS
<1>2. PICK x \in Bad : \A y \in Bad : x <= y
  <2>1. Bad \subseteq Nat OBVIOUS
  <2> HIDE DEF Bad
  <2> QED BY <1>1, <2>1, LeastOf
<1>3. x \in 0..m /\ f[x] # g[x] OBVIOUS
<1>4. /\ f[x] = IF x = 0 THEN 0
                ELSE f[x - 1] + (IF x \in Known(s) THEN s[x].amount ELSE 0)
      /\ g[x] = IF x = 0 THEN 0
                ELSE g[x - 1] + (IF x \in Known(t) THEN t[x].amount ELSE 0)
  <2>1. x \in 0..n BY <1>3
  <2> QED BY <1>3, <2>1 DEF AreSums
<1>5. x # 0 BY <1>3, <1>4
<1>6. x - 1 \in 0..m /\ x \in 1..m /\ ~(x <= x - 1) BY <1>3, <1>5
<1>7. f[x - 1] = g[x - 1] BY <1>2, <1>6
<1> QED BY <1>3, <1>4, <1>5, <1>6, <1>7

\* The recursive definition of the sums has a solution.
LEMMA SumsExist ==
  ASSUME NEW lots, NEW m \in Nat
  PROVE  \E sum : AreSums(lots, m, sum)
<1> DEFINE Bad == {n \in Nat : ~ \E sum : AreSums(lots, n, sum)}
<1>1. SUFFICES ASSUME Bad # {} PROVE FALSE OBVIOUS
<1>2. PICK x \in Bad : \A y \in Bad : x <= y
  <2>1. Bad \subseteq Nat OBVIOUS
  <2> HIDE DEF Bad
  <2> QED BY <1>1, <2>1, LeastOf
<1>3. x \in Nat OBVIOUS
<1>4. x # 0
  <2>1. AreSums(lots, 0, [n \in {0} |-> 0]) 
    <3>1. 0..0 = {0} OBVIOUS
    <3> QED BY <3>1 DEF AreSums
  <2> QED BY <2>1
<1>5. PICK f : AreSums(lots, x - 1, f)
  <2>1. x - 1 \in Nat /\ ~(x <= x - 1) BY <1>3, <1>4
  <2> QED BY <1>2, <2>1
<1> DEFINE last == f[x - 1] + (IF x \in Known(lots) THEN lots[x].amount ELSE 0)
           g == [n \in 0..x |-> IF n = x THEN last ELSE f[n]]
<1>6. AreSums(lots, x, g)
  <2>1. ASSUME NEW n \in 0..x
        PROVE  g[n] = IF n = 0 THEN 0
                      ELSE g[n - 1] + (IF n \in Known(lots) THEN lots[n].amount ELSE 0)
    <3>1. CASE n = x
      <4>1. n # 0 /\ n - 1 \in 0..x /\ n - 1 # x BY <1>3, <1>4, <3>1
      <4>2. g[n] = last /\ g[n - 1] = f[n - 1] BY <3>1, <4>1
      <4> QED BY <3>1, <4>1, <4>2
    <3>2. CASE n # x
      <4>1. n \in 0..(x - 1) /\ g[n] = f[n] BY <1>3, <3>2
      <4>2. f[n] = IF n = 0 THEN 0
                   ELSE f[n - 1] + (IF n \in Known(lots) THEN lots[n].amount ELSE 0)
        BY <1>5, <4>1 DEF AreSums
      <4>3. n # 0 => n - 1 \in 0..x /\ n - 1 # x /\ g[n - 1] = f[n - 1] BY <1>3, <4>1
      <4> QED BY <4>1, <4>2, <4>3
    <3> QED BY <3>1, <3>2
  <2>2. g = [n \in 0..x |-> g[n]] OBVIOUS
  <2> HIDE DEF g
  <2> QED BY <2>1, <2>2 DEF AreSums
<1> QED BY <1>3, <1>6

\* The sums are what their definition says.
LEMMA SumsAreSums ==
  ASSUME NEW lots, Len(lots) \in Nat PROVE AreSums(lots, Len(lots), Sums(lots))
<1>1. \E sum : AreSums(lots, Len(lots), sum) BY SumsExist
<1> QED BY <1>1 DEF AreSums, Sums

\* The sums are numbers.
LEMMA SumsAreNumbers ==
  ASSUME NEW lots \in Seq(Lot), NEW i \in 0..Len(lots)
  PROVE  Sums(lots)[i] \in Nat
<1> DEFINE Bad == {n \in 0..Len(lots) : Sums(lots)[n] \notin Nat}
<1>1. SUFFICES ASSUME Bad # {} PROVE FALSE OBVIOUS
<1>2. PICK x \in Bad : \A y \in Bad : x <= y
  <2>1. Bad \subseteq Nat OBVIOUS
  <2> HIDE DEF Bad
  <2> QED BY <1>1, <2>1, LeastOf
<1>3. x \in 0..Len(lots) /\ Sums(lots)[x] \notin Nat /\ Len(lots) \in Nat OBVIOUS
<1>4. Sums(lots)[x] = IF x = 0 THEN 0
                      ELSE Sums(lots)[x - 1] + (IF x \in Known(lots) THEN lots[x].amount ELSE 0)
  BY <1>3, SumsAreSums DEF AreSums
<1>5. x # 0 BY <1>3, <1>4
<1>6. x - 1 \in 0..Len(lots) /\ ~(x <= x - 1) BY <1>3, <1>5
<1>7. Sums(lots)[x - 1] \in Nat BY <1>2, <1>6
<1>8. (IF x \in Known(lots) THEN lots[x].amount ELSE 0) \in Nat
  <2>1. CASE x \in Known(lots)
    <3>1. lots[x] \in Lot /\ lots[x].amount # Unknown BY <2>1 DEF Known
    <3>2. lots[x].amount \in 0..MaxAmount BY <3>1 DEF Lot
    <3> QED BY <2>1, <3>2, OutcomesAssumption
  <2> QED BY <2>1
<1> QED BY <1>3, <1>4, <1>5, <1>7, <1>8

\* What is known of a list with one lot more.
LEMMA KnownOfAppend ==
  ASSUME NEW lots \in Seq(Lot), NEW lot \in Lot
  PROVE  \A i \in 1..Len(lots) :
           /\ Append(lots, lot)[i] = lots[i]
           /\ i \in Known(Append(lots, lot)) <=> i \in Known(lots)
<1>1. /\ Append(lots, lot) \in Seq(Lot) /\ Len(Append(lots, lot)) = Len(lots) + 1
      /\ \A i \in 1..Len(lots) : Append(lots, lot)[i] = lots[i]
  OBVIOUS
<1>2. DOMAIN lots = 1..Len(lots) /\ DOMAIN Append(lots, lot) = 1..(Len(lots) + 1)
  BY <1>1
<1>3. Len(lots) \in Nat OBVIOUS
<1> QED BY <1>1, <1>2, <1>3 DEF Known

\* The lot that is added is added to the sums.
LEMMA SumsOfAppend ==
  ASSUME NEW lots \in Seq(Lot), NEW lot \in Lot, lot.amount # Unknown
  PROVE  Sums(Append(lots, lot))[Len(lots) + 1] = Sums(lots)[Len(lots)] + lot.amount
<1> DEFINE more == Append(lots, lot)
<1>1. /\ Len(lots) \in Nat /\ more \in Seq(Lot) /\ Len(more) = Len(lots) + 1
      /\ more[Len(lots) + 1] = lot
  OBVIOUS
<1> HIDE DEF more
<1>2. AreSums(lots, Len(lots), Sums(lots)) /\ AreSums(more, Len(lots) + 1, Sums(more))
  BY <1>1, SumsAreSums
<1>3. \A i \in 1..Len(lots) : (i \in Known(lots) <=> i \in Known(more)) /\ lots[i] = more[i]
  BY KnownOfAppend DEF more
<1>4. Sums(lots)[Len(lots)] = Sums(more)[Len(lots)]
  <2>1. Len(lots) + 1 \in Nat /\ Len(lots) <= Len(lots) + 1 BY <1>1
  <2>2. \A i \in 0..Len(lots) : Sums(lots)[i] = Sums(more)[i]
    BY <1>1, <1>2, <1>3, <2>1, SumsAgree
  <2>3. Len(lots) \in 0..Len(lots) BY <1>1
  <2> QED BY <2>2, <2>3
<1>5. Len(lots) + 1 \in Known(more)
  BY <1>1 DEF Known
<1>6. Sums(more)[Len(lots) + 1] = Sums(more)[Len(lots)] + lot.amount
  BY <1>1, <1>2, <1>5 DEF AreSums
<1> QED BY <1>4, <1>6 DEF more

\* When build_award_outcome finds a total: every lot has an amount, and all have
\* the currency of the first.
LEMMA FoundMeans ==
  ASSUME NEW lots \in Seq(Lot), Len(lots) # 0
  PROVE  AmountStatus(lots) = "found" <=>
           \A i \in 1..Len(lots) :
             lots[i].amount # Unknown /\ lots[i].currency = lots[1].currency
<1> DEFINE all == 1..Len(lots)
           money == {lots[i].currency : i \in Known(lots)}
<1>1. Len(lots) \in Nat /\ Len(lots) > 0 /\ DOMAIN lots = all /\ 1 \in all OBVIOUS
<1>2. IsFiniteSet(all) /\ Cardinality(all) = Len(lots)
  BY <1>1, FS_Interval
<1>3. Known(lots) \subseteq all BY <1>1 DEF Known
<1>4. Cardinality(Known(lots)) = Len(lots) <=> Known(lots) = all
  BY <1>2, <1>3, FS_Subset
<1>5. IsFiniteSet(money)
  <2> DEFINE f == [i \in Known(lots) |-> lots[i].currency]
  <2>1. IsFiniteSet(Known(lots)) BY <1>2, <1>3, FS_Subset
  <2>2. f \in Surjection(Known(lots), money) BY DEF Surjection
  <2> HIDE DEF f, money
  <2> QED BY <2>1, <2>2, FS_Surjection
<1>6. Cardinality(money) = 1 <=> \E c : money = {c}
  <2> HIDE DEF money
  <2> QED BY <1>5, FS_Singleton
<1>7. AmountStatus(lots) = "found" <=> Known(lots) = all /\ \E c : money = {c}
  <2>1. Known(lots) = all => Known(lots) # {} BY <1>1
  <2> QED BY <1>4, <1>6, <2>1 DEF AmountStatus
<1>8. Known(lots) = all <=> \A i \in all : lots[i].amount # Unknown
  BY <1>1 DEF Known
<1>9. ASSUME Known(lots) = all
      PROVE  (\E c : money = {c}) <=> \A i \in all : lots[i].currency = lots[1].currency
  <2>1. lots[1].currency \in money BY <1>1, <1>9
  <2>2. \A i \in all : lots[i].currency \in money BY <1>9
  <2>3. \A c \in money : \E i \in all : c = lots[i].currency BY <1>9
  <2> HIDE DEF money, all
  <2>4. ASSUME NEW c, money = {c}, NEW i \in all
        PROVE  lots[i].currency = lots[1].currency
    BY <2>1, <2>2, <2>4
  <2>5. ASSUME \A i \in all : lots[i].currency = lots[1].currency
        PROVE  money = {lots[1].currency}
    BY <2>1, <2>3, <2>5
  <2> QED BY <2>4, <2>5
<1> QED BY <1>7, <1>8, <1>9

\* One lot more.
LEMMA TotalOfAppend ==
  ASSUME NEW lots \in LotLists, NEW lot \in Lot
  PROVE  Total(Append(lots, lot)) =
           IF Total(lots) # Unknown /\ lot.amount # Unknown /\ lot.currency = lots[1].currency
           THEN Total(lots) + lot.amount ELSE Unknown
<1> DEFINE more == Append(lots, lot)
<1>1. lots \in Seq(Lot) /\ Len(lots) \in Nat /\ Len(lots) # 0
  <2>1. PICK n \in 1..MaxLots : lots \in [1..n -> Lot] BY DEF LotLists
  <2>2. n \in Nat /\ n # 0 BY OutcomesAssumption
  <2>3. lots \in Seq(Lot) /\ Len(lots) = n BY <2>1, <2>2
  <2> QED BY <2>2, <2>3
<1>2. /\ more \in Seq(Lot) /\ Len(more) = Len(lots) + 1 /\ Len(more) # 0
      /\ more[Len(lots) + 1] = lot
  BY <1>1
<1>3. \A i \in 1..Len(lots) : more[i] = lots[i] BY <1>1, KnownOfAppend
<1> HIDE DEF more
<1>4. 1..Len(more) = 1..Len(lots) \cup {Len(lots) + 1} /\ 1 \in 1..Len(lots) BY <1>1, <1>2
<1>5. AmountStatus(more) = "found" <=>
        AmountStatus(lots) = "found" /\ lot.amount # Unknown /\ lot.currency = lots[1].currency
  <2>1. AmountStatus(more) = "found" <=>
          \A i \in 1..Len(more) :
            more[i].amount # Unknown /\ more[i].currency = more[1].currency
    BY <1>2, FoundMeans
  <2>2. AmountStatus(lots) = "found" <=>
          \A i \in 1..Len(lots) :
            lots[i].amount # Unknown /\ lots[i].currency = lots[1].currency
    BY <1>1, FoundMeans
  <2>3. more[1] = lots[1] BY <1>3, <1>4
  <2> QED BY <1>2, <1>3, <1>4, <2>1, <2>2, <2>3
<1>6. Total(lots) # Unknown <=> AmountStatus(lots) = "found"
  <2>1. Sums(lots)[Len(lots)] \in Nat BY <1>1, SumsAreNumbers
  <2>2. Sums(lots)[Len(lots)] # Unknown BY <2>1, OutcomesAssumption
  <2> QED BY <2>2 DEF Total
<1>7. lot.amount # Unknown =>
        Sums(more)[Len(more)] = Sums(lots)[Len(lots)] + lot.amount
  BY <1>1, <1>2, SumsOfAppend DEF more
<1>8. CASE AmountStatus(more) = "found"
  BY <1>5, <1>6, <1>7, <1>8 DEF Total, more
<1>9. CASE AmountStatus(more) # "found"
  BY <1>5, <1>6, <1>9 DEF Total, more
<1> QED BY <1>8, <1>9

-----------------------------------------------------------------------------
(* What a page relies on. *)

\* The step has been done on the page that is being built, or was answered.
Past(step) == \E i \in 1..(page.at - 1) : Plan(page.kind)[i] = step

PlaceOK ==
  /\ page.status = "open" => page.at \in 1..Len(Plan(page.kind))
  /\ page.status = "ok" => page.at = Len(Plan(page.kind)) + 1

\* What is committed: a version was written by a run that ended.
WorldOK ==
  /\ Len(runs) <= MaxRuns
  /\ \A k \in Keys :
       /\ Len(versions[k]) <= MaxVersion
       /\ \A i \in 1..Len(versions[k]) :
            versions[k][i] \in 1..Len(runs) /\ runs[versions[k][i]] # "running"

\* The records were read at some time before, and so was the profile.
RecordsOK == \A k \in Keys : page.records[k] <= Len(versions[k])

ProfileOK ==
  /\ page.listed <= profile /\ page.selected <= profile
  /\ page.kind = "dashboard" /\ Past("selected") => page.listed <= page.selected
  /\ page.kind = "dashboard" /\ Past("history") => page.selected <= page.history

DetailOK ==
  page.kind = "detail" /\ Past("records") /\ page.status \in {"open", "ok"}
    => page.wanted \subseteq ProductKeys

\* Before the ranking there are no labels and no cards.
Unranked ==
  /\ page.cards = {} /\ page.pending = {} /\ page.nearest = {} /\ page.context = 0
  /\ \A k \in Keys : page.decided[k] = Undecided /\ page.evidence[k] = 0

\* After it, what was ranked is labelled as match does at some time before.
Matched ==
  /\ Ranked \cup page.cards \subseteq ProductKeys
  /\ page.kind = "detail" => page.cards \subseteq page.wanted
  /\ page.pending \subseteq page.cards
  /\ \A k \in Keys \ Ranked : page.decided[k] = Undecided
  /\ \A k \in Ranked : \E now \in 0..clock :
       page.decided[k] = Decision(Reader, Says(k).notice, Passed(k, now))

RankOK == IF Past("rank") THEN Matched ELSE Unranked

LineagesOK ==
  Past("lineages") =>
    /\ \A k \in Keys \ ProductKeys : page.lineages[k] = 0
    /\ \A k \in ProductKeys :
         (page.kind = "detail" => k \in page.wanted) => page.records[k] <= page.lineages[k]

EvidenceOK ==
  /\ \A k \in Keys : page.evidence[k] # 0 => page.records[k] <= page.evidence[k]
  /\ page.context # 0 => page.pending # {} /\ page.records[Card] <= page.context

AnalyticsOK ==
  /\ AheadIsNotExpired
  /\ page.counts.new + page.counts.changed = page.counts.current

FreshnessOK ==
  page.kind = "dashboard" /\ Past("freshness") =>
    \A k \in ProductKeys :
      runs[versions[k][page.records[k]]] = "succeeded"
        => versions[k][page.records[k]] <= page.success

PageOK ==
  /\ PlaceOK /\ RecordsOK /\ ProfileOK /\ DetailOK /\ RankOK
  /\ LineagesOK /\ EvidenceOK /\ AnalyticsOK /\ FreshnessOK

PagesInv == DashboardTypeOK /\ WorldOK /\ PageOK /\ NoPageFails

-----------------------------------------------------------------------------
(* The order of the reads. *)

\* The reads that follow the ranking.
Late == {"lineages", "evidence", "awards", "analytics", "history", "freshness"}

\* What has been read when a step of a handler runs, and what has not.
Before(step) ==
  /\ ~Past(step)
  /\ step \in {"profiles", "selected", "records", "rank"} =>
       ~Past("rank") /\ ~Past("evidence") /\ ~Past("analytics") /\ ~Past("history")
  /\ step = "profiles" => ~Past("selected")
  /\ step = "records" => ~Past("lineages") /\ ~Past("freshness")
  /\ step = "rank" => Past("records") /\ Past("selected")
  /\ step \in Late => Past("rank")
  /\ step = "evidence" => (page.kind = "dashboard" => Past("lineages"))
  /\ step = "analytics" => Past("lineages") /\ page.kind \in {"dashboard", "analytics"}
  /\ step = "history" => Past("selected")

LEMMA Order ==
  ASSUME page.kind \in Kinds, PlaceOK, NEW step, At(step)
  PROVE  Before(step)
<1>0. page.at \in 1..Len(Plan(page.kind)) /\ step = Plan(page.kind)[page.at]
  BY DEF PlaceOK, At
<1>1. CASE page.kind = "dashboard"
  <2>1. page.at \in 1..10 BY <1>0, <1>1 DEF Plan
  <2> QED BY <1>0, <1>1, <2>1 DEF Plan, Before, Past, Late
<1>2. CASE page.kind = "detail"
  <2>1. page.at \in 1..7 BY <1>0, <1>2 DEF Plan
  <2> QED BY <1>0, <1>2, <2>1 DEF Plan, Before, Past, Late
<1>3. CASE page.kind = "analytics"
  <2>1. page.at \in 1..6 BY <1>0, <1>3 DEF Plan
  <2> QED BY <1>0, <1>3, <2>1 DEF Plan, Before, Past, Late
<1>4. CASE page.kind = "recommendations"
  <2>1. page.at \in 1..3 BY <1>0, <1>4 DEF Plan
  <2> QED BY <1>0, <1>4, <2>1 DEF Plan, Before, Past, Late
<1> QED BY <1>1, <1>2, <1>3, <1>4 DEF Kinds

\* A page that was answered has gone through its plan.
LEMMA AllPast ==
  ASSUME page.kind \in Kinds, PlaceOK, page.status = "ok"
  PROVE  /\ Past("records") /\ Past("selected") /\ Past("rank")
         /\ page.kind \in {"dashboard", "detail"} => Past("lineages") /\ Past("evidence")
         /\ page.kind = "dashboard" => Past("history") /\ Past("freshness")
<1>1. page.at = Len(Plan(page.kind)) + 1 BY DEF PlaceOK
<1>2. CASE page.kind = "dashboard"
  <2>1. page.at = 11 BY <1>1, <1>2 DEF Plan
  <2>2. \A i \in 1..10 : Past(Plan(page.kind)[i]) BY <2>1 DEF Past
  <2> QED BY <1>2, <2>2 DEF Plan
<1>3. CASE page.kind = "detail"
  <2>1. page.at = 8 BY <1>1, <1>3 DEF Plan
  <2>2. \A i \in 1..7 : Past(Plan(page.kind)[i]) BY <2>1 DEF Past
  <2> QED BY <1>3, <2>2 DEF Plan
<1>4. CASE page.kind = "analytics"
  <2>1. page.at = 7 BY <1>1, <1>4 DEF Plan
  <2>2. \A i \in 1..6 : Past(Plan(page.kind)[i]) BY <2>1 DEF Past
  <2> QED BY <1>4, <2>2 DEF Plan
<1>5. CASE page.kind = "recommendations"
  <2>1. page.at = 4 BY <1>1, <1>5 DEF Plan
  <2>2. \A i \in 1..3 : Past(Plan(page.kind)[i]) BY <2>1 DEF Past
  <2> QED BY <1>5, <2>2 DEF Plan
<1> QED BY <1>2, <1>3, <1>4, <1>5 DEF Kinds

\* Each plan has a step at least.
LEMMA PlanLength ==
  ASSUME NEW kind \in Kinds PROVE Len(Plan(kind)) \in Nat \ {0}
<1>1. CASE kind = "dashboard" BY <1>1 DEF Plan
<1>2. CASE kind = "detail" BY <1>2 DEF Plan
<1>3. CASE kind = "analytics" BY <1>3 DEF Plan
<1>4. CASE kind = "recommendations" BY <1>4 DEF Plan
<1> QED BY <1>1, <1>2, <1>3, <1>4 DEF Kinds

\* The last run of a set of runs exists.
LEMMA LastExists ==
  ASSUME NEW m \in Nat, NEW good \in SUBSET (1..m), good # {}
  PROVE  \E r \in good : \A q \in good : q <= r
<1> DEFINE upTo == {r..m : r \in good}
           R == StrictSubsetOrdering(Nat)
<1>1. \A r \in good : r \in Nat /\ r <= m /\ r..m \in FiniteSubsetsOf(Nat)
  BY FS_Interval DEF FiniteSubsetsOf
<1>2. upTo \subseteq FiniteSubsetsOf(Nat) /\ upTo # {} BY <1>1
<1>3. IsWellFoundedOn(R, FiniteSubsetsOf(Nat)) BY FS_StrictSubsetOrderingWellFounded
<1>4. PICK x \in upTo : \A y \in upTo : ~ (<<y, x>> \in R)
  <2> HIDE DEF R, upTo
  <2> QED BY <1>2, <1>3, WFMin
<1>5. PICK r \in good : x = r..m BY <1>4
<1>6. ASSUME NEW q \in good, q > r PROVE FALSE
  <2>1. q..m \subseteq r..m /\ q..m # r..m /\ r..m \subseteq Nat
    <3>1. r \in r..m /\ r \notin q..m BY <1>1, <1>6
    <3>2. q..m \subseteq r..m /\ r..m \subseteq Nat BY <1>1, <1>6
    <3> QED BY <3>1, <3>2
  <2>2. <<q..m, r..m>> \in R BY <2>1 DEF StrictSubsetOrdering
  <2> QED BY <1>4, <1>5, <2>2
<1> QED BY <1>1, <1>6

-----------------------------------------------------------------------------
(* What the others commit. *)

\* Nothing that was committed is taken back, and the clock does not go back.
Onward ==
  /\ clock <= clock' /\ profile <= profile'
  /\ \A k \in Keys :
       /\ Len(versions[k]) <= Len(versions'[k])
       /\ \A i \in 1..Len(versions[k]) : versions'[k][i] = versions[k][i]
  /\ \A r \in 1..Len(runs) : runs'[r] = "succeeded" => runs[r] # "failed"

LEMMA AppendFacts ==
  ASSUME NEW S, NEW s \in Seq(S), NEW e \in S
  PROVE  /\ Append(s, e) \in Seq(S) /\ Len(Append(s, e)) = Len(s) + 1
         /\ \A i \in 1..Len(s) : Append(s, e)[i] = s[i]
         /\ Append(s, e)[Len(s) + 1] = e
OBVIOUS

LEMMA WorldGoesOn ==
  ASSUME DashboardTypeOK, WorldOK, World
  PROVE  DashboardTypeOK' /\ WorldOK' /\ Onward /\ page' = page
<1> DEFINE Status == {"running", "succeeded", "failed"}
<1>0. /\ MaxVersion \in Nat /\ MaxProfile \in Nat /\ MaxRuns \in Nat /\ MaxClock \in Nat
      /\ clock \in Nat /\ profile \in Nat
      /\ runs \in Seq(Status) /\ \A k \in Keys : versions[k] \in Seq(1..MaxRuns)
  BY DashboardAssumption DEF DashboardTypeOK, Clocks
<1>1. CASE Tick
  BY <1>0, <1>1 DEF Tick, DashboardTypeOK, WorldOK, Onward, Clocks
<1>2. CASE SaveProfile
  BY <1>0, <1>2 DEF SaveProfile, DashboardTypeOK, WorldOK, Onward
<1>3. CASE StartRun
  <2>1. /\ runs' \in Seq(Status) /\ Len(runs') = Len(runs) + 1 /\ Len(runs) \in Nat
        /\ \A i \in 1..Len(runs) : runs'[i] = runs[i]
    BY <1>0, <1>3, AppendFacts DEF StartRun
  <2>2. UNCHANGED <<clock, versions, attempted, profile, page>> /\ Len(runs) < MaxRuns
    BY <1>3 DEF StartRun
  <2> QED BY <1>0, <2>1, <2>2 DEF DashboardTypeOK, WorldOK, Onward
<1>4. ASSUME NEW r \in DOMAIN runs, FailRun(r)
      PROVE  DashboardTypeOK' /\ WorldOK' /\ Onward /\ page' = page
  <2>1. /\ runs' \in Seq(Status) /\ Len(runs') = Len(runs)
        /\ \A i \in 1..Len(runs) : runs'[i] = IF i = r THEN "failed" ELSE runs[i]
    BY <1>0, <1>4 DEF FailRun
  <2>2. UNCHANGED <<clock, versions, attempted, profile, page>> BY <1>4 DEF FailRun
  <2> QED BY <1>0, <2>1, <2>2 DEF DashboardTypeOK, WorldOK, Onward
<1>5. ASSUME NEW r \in DOMAIN runs, NEW changed \in SUBSET Keys, SucceedRun(r, changed)
      PROVE  DashboardTypeOK' /\ WorldOK' /\ Onward /\ page' = page
  <2>1. /\ runs' \in Seq(Status) /\ Len(runs') = Len(runs) /\ runs'[r] = "succeeded"
        /\ runs[r] = "running" /\ \A i \in 1..Len(runs) : i # r => runs'[i] = runs[i]
    BY <1>0, <1>5 DEF SucceedRun
  <2>2. r \in 1..Len(runs) /\ r \in 1..MaxRuns BY <1>0 DEF WorldOK
  <2>3. UNCHANGED <<clock, attempted, profile, page>> BY <1>5 DEF SucceedRun
  <2>4. ASSUME NEW k \in Keys
        PROVE  /\ versions'[k] \in Seq(1..MaxRuns)
               /\ Len(versions[k]) <= Len(versions'[k]) /\ Len(versions'[k]) <= MaxVersion
               /\ \A i \in 1..Len(versions[k]) : versions'[k][i] = versions[k][i]
               /\ \A i \in 1..Len(versions'[k]) :
                    versions'[k][i] = r \/ i \in 1..Len(versions[k])
    <3>1. CASE k \in changed
      <4>1. versions'[k] = Append(versions[k], r) /\ Len(versions[k]) < MaxVersion
        BY <1>5, <3>1 DEF SucceedRun
      <4>2. Len(versions[k]) \in Nat BY <1>0
      <4> QED BY <1>0, <2>2, <4>1, <4>2, AppendFacts
    <3>2. CASE k \notin changed
      <4>1. versions'[k] = versions[k] BY <1>5, <3>2 DEF SucceedRun
      <4> QED BY <1>0, <4>1 DEF WorldOK
    <3> QED BY <3>1, <3>2
  <2>5. versions' \in [Keys -> Seq(1..MaxRuns)]
    <3>1. versions' = [k \in Keys |-> versions'[k]] BY <1>5 DEF SucceedRun
    <3> QED BY <2>4, <3>1
  <2>6. WorldOK'
    <3>1. Len(runs') <= MaxRuns BY <2>1 DEF WorldOK
    <3>2. ASSUME NEW k \in Keys, NEW i \in 1..Len(versions'[k])
          PROVE  versions'[k][i] \in 1..Len(runs') /\ runs'[versions'[k][i]] # "running"
      <4>1. CASE versions'[k][i] = r BY <2>1, <2>2, <4>1
      <4>2. CASE versions'[k][i] # r
        <5>1. i \in 1..Len(versions[k]) /\ versions'[k][i] = versions[k][i]
          BY <2>4, <4>2
        <5> QED BY <2>1, <5>1 DEF WorldOK
      <4> QED BY <4>1, <4>2
    <3>3. \A k \in Keys : Len(versions'[k]) <= MaxVersion BY <2>4
    <3> QED BY <3>1, <3>2, <3>3 DEF WorldOK
  <2>7. DashboardTypeOK' BY <2>1, <2>3, <2>5 DEF DashboardTypeOK
  <2>8. Onward
    <3>1. clock <= clock' /\ profile <= profile' BY <1>0, <2>3
    <3>2. \A k \in Keys :
            /\ Len(versions[k]) <= Len(versions'[k])
            /\ \A i \in 1..Len(versions[k]) : versions'[k][i] = versions[k][i]
      BY <2>4
    <3>3. \A i \in 1..Len(runs) : runs'[i] = "succeeded" => runs[i] # "failed" BY <2>1
    <3> QED BY <3>1, <3>2, <3>3 DEF Onward
  <2> QED BY <2>3, <2>6, <2>7, <2>8
<1>6. ASSUME NEW k \in Keys, NEW v \in 1..Len(versions[k]), Extract(k, v)
      PROVE  DashboardTypeOK' /\ WorldOK' /\ Onward /\ page' = page
  <2>1. v \in Versions
    <3>1. Len(versions[k]) \in Nat /\ Len(versions[k]) <= MaxVersion BY <1>0 DEF WorldOK
    <3> QED BY <1>0, <3>1 DEF Versions
  <2>2. attempted' \in [Keys -> SUBSET Versions]
    BY <1>6, <2>1 DEF Extract, DashboardTypeOK
  <2> QED BY <1>0, <1>6, <2>2 DEF Extract, DashboardTypeOK, WorldOK, Onward
<1> QED BY <1>1, <1>2, <1>3, <1>4, <1>5, <1>6 DEF World

\* What a page has read stays true of what is committed later.
LEMMA PageStays ==
  ASSUME PagesInv, DashboardTypeOK', Onward, page' = page
  PROVE  PageOK' /\ NoPageFails'
<1>1. /\ clock \in Nat /\ clock' \in Nat /\ clock <= clock'
      /\ page.listed \in Nat /\ page.selected \in Nat
      /\ profile \in Nat /\ profile' \in Nat /\ profile <= profile'
  BY DashboardAssumption DEF PagesInv, DashboardTypeOK, Onward, Clocks, Page
<1>2. ASSUME NEW k \in Keys
      PROVE  /\ page.records[k] \in Nat
             /\ Len(versions[k]) \in Nat /\ Len(versions'[k]) \in Nat
             /\ page.records[k] <= Len(versions[k])
             /\ Len(versions[k]) <= Len(versions'[k])
             /\ \A i \in 1..Len(versions[k]) : versions'[k][i] = versions[k][i]
  <2>1. versions[k] \in Seq(1..MaxRuns) /\ versions'[k] \in Seq(1..MaxRuns)
    BY DEF PagesInv, DashboardTypeOK
  <2>2. page.records[k] \in 0..MaxVersion BY DEF PagesInv, DashboardTypeOK, Page
  <2>3. Len(versions[k]) \in Nat /\ Len(versions'[k]) \in Nat BY <2>1
  <2>4. page.records[k] \in Nat BY <2>2, DashboardAssumption
  <2>5. page.records[k] <= Len(versions[k]) BY DEF PagesInv, PageOK, RecordsOK
  <2>6. /\ Len(versions[k]) <= Len(versions'[k])
        /\ \A i \in 1..Len(versions[k]) : versions'[k][i] = versions[k][i]
    BY DEF Onward
  <2> QED BY <2>3, <2>4, <2>5, <2>6
<1>3. \A step : Past(step)' <=> Past(step) BY DEF Past
<1>4. PlaceOK' /\ NoPageFails' /\ DetailOK' /\ LineagesOK' /\ EvidenceOK' /\ AnalyticsOK'
  BY <1>3 DEF PagesInv, PageOK, PlaceOK, NoPageFails, DetailOK, LineagesOK, EvidenceOK,
     AnalyticsOK, AheadIsNotExpired, ProductKeys, Card
<1>5. RecordsOK' BY <1>2 DEF RecordsOK
<1>6. ProfileOK' BY <1>1, <1>3 DEF PagesInv, PageOK, ProfileOK
<1>7. RankOK'
  <2>1. CASE ~Past("rank") BY <1>3, <2>1 DEF PagesInv, PageOK, RankOK, Unranked
  <2>2. CASE Past("rank")
    <3>1. Ranked' = Ranked /\ ProductKeys' = ProductKeys /\ Reader' = Reader
      BY DEF Ranked, ProductKeys, Opportunities, Says, Reader
    <3>2. \A k \in Keys : Says(k)' = Says(k) BY DEF Says
    <3>3. Matched BY <2>2 DEF PagesInv, PageOK, RankOK
    <3>4. ASSUME NEW k \in Ranked
          PROVE  \E now \in 0..clock' :
                   page'.decided[k] = Decision(Reader, Says(k).notice, Passed(k, now))'
      <4>1. PICK now \in 0..clock :
              page.decided[k] = Decision(Reader, Says(k).notice, Passed(k, now))
        BY <3>3 DEF Matched
      <4>2. now \in 0..clock' BY <1>1
      <4>3. Passed(k, now)' = Passed(k, now) BY DEF Passed, Says
      <4>4. Says(k)' = Says(k) BY DEF Says
      <4> QED BY <3>1, <4>1, <4>2, <4>3, <4>4
    <3>5. Matched' BY <3>1, <3>3, <3>4 DEF Matched
    <3> QED BY <1>3, <2>2, <3>5 DEF RankOK
  <2> QED BY <2>1, <2>2
<1>8. FreshnessOK'
  <2> SUFFICES ASSUME page.kind = "dashboard", Past("freshness"), NEW k \in ProductKeys,
                      runs'[versions'[k][page.records[k]]] = "succeeded"
               PROVE  versions'[k][page.records[k]] <= page.success
    BY <1>3 DEF FreshnessOK, ProductKeys
  <2>1. k \in Keys /\ page.records[k] \in 1..Len(versions[k])
    BY <1>2 DEF ProductKeys
  <2>2. PICK writer : writer = versions[k][page.records[k]] OBVIOUS
  <2>3. versions'[k][page.records[k]] = writer BY <1>2, <2>1, <2>2
  <2>4. writer \in 1..Len(runs) /\ runs[writer] # "running"
    BY <2>1, <2>2 DEF PagesInv, WorldOK
  <2>5. runs[writer] # "failed" BY <2>3, <2>4 DEF Onward
  <2>6. runs[writer] = "succeeded"
    <3>1. runs \in Seq({"running", "succeeded", "failed"}) BY DEF PagesInv, DashboardTypeOK
    <3> QED BY <2>4, <2>5, <3>1
  <2> QED BY <2>2, <2>3, <2>6 DEF PagesInv, PageOK, FreshnessOK
<1> QED BY <1>4, <1>5, <1>6, <1>7, <1>8 DEF PageOK

-----------------------------------------------------------------------------
(* A request. *)

WorldTyped ==
  /\ clock \in Clocks /\ profile \in 0..MaxProfile
  /\ versions \in [Keys -> Seq(1..MaxRuns)] /\ attempted \in [Keys -> SUBSET Versions]
  /\ runs \in Seq({"running", "succeeded", "failed"})

\* No page yet, or one of which nothing is read.
NothingRead ==
  \E status \in {"idle", "open"}, kind \in Kinds, wanted \in SUBSET Keys :
    page = Blank(status, kind, wanted)

LEMMA BlankPage ==
  WorldTyped /\ WorldOK /\ NothingRead => PagesInv
<1> SUFFICES ASSUME WorldTyped, WorldOK,
                    NEW status \in {"idle", "open"}, NEW kind \in Kinds,
                    NEW wanted \in SUBSET Keys, page = Blank(status, kind, wanted)
             PROVE  PagesInv
  BY DEF NothingRead
<1>0. /\ MaxVersion \in Nat /\ MaxProfile \in Nat /\ MaxRuns \in Nat /\ profile \in Nat
      /\ \A k \in Keys : versions[k] \in Seq(1..MaxRuns)
  BY DashboardAssumption DEF WorldTyped
<1>1. None \in [Keys -> 0..MaxVersion] BY <1>0 DEF None
<1>2. [k \in Keys |-> Undecided] \in [Keys -> Decisions] BY DEF Decisions
<1>3. page \in Page BY <1>0, <1>1, <1>2 DEF Blank, Page
<1>4. DashboardTypeOK BY <1>3 DEF DashboardTypeOK, WorldTyped
<1>5. \A step : ~Past(step)
  <2>1. page.at = 1 BY DEF Blank
  <2> QED BY <2>1 DEF Past
<1>6. PlaceOK
  <2>1. Len(Plan(kind)) \in Nat \ {0} BY PlanLength
  <2> QED BY <2>1 DEF PlaceOK, Blank
<1>7. RecordsOK
  <2>1. \A k \in Keys : page.records[k] = 0 BY DEF Blank, None
  <2>2. \A k \in Keys : Len(versions[k]) \in Nat BY <1>0
  <2> QED BY <2>1, <2>2 DEF RecordsOK
<1>8. ProfileOK BY <1>0, <1>5 DEF ProfileOK, Blank
<1>9. DetailOK /\ LineagesOK /\ FreshnessOK BY <1>5 DEF DetailOK, LineagesOK, FreshnessOK
<1>10. Unranked BY DEF Unranked, Blank, None
<1>11. RankOK BY <1>5, <1>10 DEF RankOK
<1>12. EvidenceOK BY DEF EvidenceOK, Blank, None
<1>13. AnalyticsOK BY DEF AnalyticsOK, AheadIsNotExpired, Blank
<1>14. NoPageFails BY DEF NoPageFails, Blank
<1> QED BY <1>4, <1>6, <1>7, <1>8, <1>9, <1>11, <1>12, <1>13, <1>14 DEF PageOK, PagesInv

LEMMA BlankPageNext == (WorldTyped /\ WorldOK /\ NothingRead => PagesInv)'
BY BlankPage, PTL

LEMMA InitPages == Init => PagesInv
<1> SUFFICES ASSUME Init PROVE PagesInv OBVIOUS
<1>0. MaxVersion \in Nat /\ MaxProfile \in Nat /\ MaxRuns \in Nat /\ MaxClock \in Nat
  BY DashboardAssumption
<1>1. WorldTyped BY <1>0 DEF Init, WorldTyped, Clocks
<1>2. WorldOK BY <1>0 DEF Init, WorldOK
<1>3. NothingRead BY DEF Init, NoPage, NothingRead, Kinds
<1> QED BY <1>1, <1>2, <1>3, BlankPage

LEMMA BlankStep ==
  ASSUME PagesInv, Leave \/ \E kind \in Kinds, wanted \in SUBSET Keys : Request(kind, wanted)
  PROVE  PagesInv'
<1>1. WorldTyped /\ WorldOK BY DEF PagesInv, DashboardTypeOK, WorldTyped
<1>2. UNCHANGED world BY DEF Leave, Request
<1>3. WorldTyped' /\ WorldOK' BY <1>1, <1>2 DEF world, WorldTyped, WorldOK
<1>4. NothingRead' BY DEF Leave, Request, NoPage, NothingRead, Kinds
<1> QED BY <1>3, <1>4, BlankPageNext

\* What a step of the plan leaves of the page: it is one step further.
Further(read) ==
  /\ page'.at = read.at + 1
  /\ page'.status = IF read.status = "open" /\ read.at = Len(Plan(read.kind))
                    THEN "ok" ELSE read.status
  /\ page'.kind = read.kind /\ page'.wanted = read.wanted
  /\ page'.listed = read.listed /\ page'.selected = read.selected
  /\ page'.records = read.records /\ page'.decided = read.decided
  /\ page'.cards = read.cards /\ page'.pending = read.pending
  /\ page'.context = read.context /\ page'.evidence = read.evidence
  /\ page'.lineages = read.lineages /\ page'.awards = read.awards
  /\ page'.nearest = read.nearest /\ page'.counts = read.counts
  /\ page'.history = read.history /\ page'.success = read.success

LEMMA DonePage ==
  ASSUME NEW read \in Page, Done(read)
  PROVE  page' \in Page /\ Further(read)
<1>1. Further(read) BY DEF Done, Page, Further
<1>2. page' \in Page
  <2>1. PICK status : status = IF read.status = "open" /\ read.at = Len(Plan(read.kind))
                               THEN "ok" ELSE read.status
    OBVIOUS
  <2>2. status \in {"idle", "open", "ok", "missing", "error"} BY <2>1 DEF Page
  <2>3. PICK at : at = read.at + 1 OBVIOUS
  <2>4. at \in Nat BY <2>3 DEF Page
  <2>5. page' = [read EXCEPT !.at = at, !.status = status] BY <2>1, <2>3 DEF Done
  <2> QED BY <2>2, <2>4, <2>5 DEF Page
<1> QED BY <1>1, <1>2

\* Where the page is after a step of its plan.
LEMMA DonePlace ==
  ASSUME PagesInv, NEW step, At(step), NEW read \in Page, Done(read),
         read.at = page.at, read.kind = page.kind, read.status \in {"open", "missing"}
  PROVE  /\ PlaceOK' /\ NoPageFails'
         /\ \A x : Past(x)' <=> Past(x) \/ x = step
<1>0. page.kind \in Kinds BY DEF Page, PagesInv, DashboardTypeOK
<1>a. Further(read) BY DonePage
<1>1. page'.at = page.at + 1 /\ page'.kind = page.kind
      /\ page'.status = IF read.status = "open" /\ page.at = Len(Plan(page.kind))
                        THEN "ok" ELSE read.status
  BY <1>a DEF Further
<1>2. Len(Plan(page.kind)) \in Nat BY <1>0, PlanLength
<1>3. page.at \in 1..Len(Plan(page.kind)) /\ Plan(page.kind)[page.at] = step
  BY DEF PagesInv, PageOK, PlaceOK, At
<1>4. PlaceOK' BY <1>1, <1>2, <1>3 DEF PlaceOK
<1>5. NoPageFails' BY <1>1 DEF NoPageFails
<1>6. ASSUME NEW x PROVE Past(x)' <=> Past(x) \/ x = step
  BY <1>1, <1>2, <1>3 DEF Past
<1> QED BY <1>4, <1>5, <1>6

\* Before the ranking, a step leaves the labels and the cards alone.
LEMMA EarlyKeeps ==
  ASSUME PagesInv, UNCHANGED world, ~Past("rank"), ~Past("rank")',
         page'.decided = page.decided, page'.cards = page.cards,
         page'.pending = page.pending, page'.context = page.context,
         page'.evidence = page.evidence, page'.nearest = page.nearest,
         page'.counts = page.counts
  PROVE  RankOK' /\ EvidenceOK' /\ AnalyticsOK'
<1>1. Unranked BY DEF PagesInv, PageOK, RankOK
<1>2. Unranked' BY <1>1 DEF Unranked
<1>3. RankOK' BY <1>2 DEF RankOK
<1>4. EvidenceOK' BY <1>1 DEF Unranked, EvidenceOK
<1>5. AnalyticsOK'
  BY <1>1 DEF Unranked, AnalyticsOK, AheadIsNotExpired, PagesInv, PageOK
<1> QED BY <1>3, <1>4, <1>5

\* The page is about the same records as before, in the same versions.
SameRecords ==
  /\ UNCHANGED world
  /\ page'.kind = page.kind /\ page'.wanted = page.wanted
  /\ page'.records = page.records /\ page'.listed = page.listed
  /\ page'.status \in {"open", "ok"} => page.status \in {"open", "ok"}

\* After the ranking, each part stays true that a step does not write.
LEMMA LateKeeps ==
  ASSUME PagesInv, SameRecords, Past("rank"),
         \A x \in {"records", "selected", "rank"} : Past(x)' <=> Past(x),
         page'.selected = page.selected, page'.decided = page.decided,
         page'.cards = page.cards, page'.pending \subseteq page.pending
  PROVE  /\ RecordsOK' /\ DetailOK' /\ RankOK'
         /\ page'.history = page.history /\ (Past("history")' <=> Past("history"))
              => ProfileOK'
         /\ page'.lineages = page.lineages /\ (Past("lineages")' <=> Past("lineages"))
              => LineagesOK'
         /\ page'.evidence = page.evidence /\ page'.pending = page.pending
              /\ page'.context = page.context => EvidenceOK'
         /\ page'.nearest = page.nearest /\ page'.counts = page.counts => AnalyticsOK'
         /\ page'.success = page.success /\ (Past("freshness")' <=> Past("freshness"))
              => FreshnessOK'
<1> USE DEF SameRecords
<1>1. PageOK BY DEF PagesInv
<1>2. ProductKeys' = ProductKeys /\ \A k : Says(k)' = Says(k) BY DEF ProductKeys, Says
<1>3. Ranked' = Ranked /\ Reader' = Reader
  BY <1>2 DEF Ranked, Opportunities, Reader
<1>4. RecordsOK' /\ DetailOK' BY <1>1, <1>2 DEF PageOK, RecordsOK, DetailOK, world
<1>5. RankOK'
  <2>1. Matched BY <1>1 DEF PageOK, RankOK
  <2>2. clock' = clock BY DEF world
  <2>3. \A k, now : Passed(k, now)' = Passed(k, now) BY <1>2 DEF Passed
  <2>4. Matched' BY <1>2, <1>3, <2>1, <2>2, <2>3 DEF Matched
  <2> QED BY <2>4 DEF RankOK
<1>6. page'.history = page.history /\ (Past("history")' <=> Past("history")) => ProfileOK'
  BY <1>1 DEF PageOK, ProfileOK, world
<1>7. page'.lineages = page.lineages /\ (Past("lineages")' <=> Past("lineages"))
        => LineagesOK'
  BY <1>1, <1>2 DEF PageOK, LineagesOK
<1>8. page'.evidence = page.evidence /\ page'.pending = page.pending
        /\ page'.context = page.context => EvidenceOK'
  BY <1>1 DEF PageOK, EvidenceOK, Card
<1>9. page'.nearest = page.nearest /\ page'.counts = page.counts => AnalyticsOK'
  BY <1>1 DEF PageOK, AnalyticsOK, AheadIsNotExpired
<1>10. page'.success = page.success /\ (Past("freshness")' <=> Past("freshness"))
         => FreshnessOK'
  BY <1>1, <1>2 DEF PageOK, FreshnessOK, world
<1> QED BY <1>4, <1>5, <1>6, <1>7, <1>8, <1>9, <1>10

\* The world of a reading step is the one it reads.
LEMMA SameWorld ==
  ASSUME PagesInv, UNCHANGED world, page' \in Page
  PROVE  DashboardTypeOK' /\ WorldOK'
BY DEF PagesInv, DashboardTypeOK, WorldOK, world

-----------------------------------------------------------------------------
(* The steps that read before the ranking. *)

LEMMA StepListProfiles == PagesInv /\ ListProfiles => PagesInv'
<1> SUFFICES ASSUME PagesInv, ListProfiles PROVE PagesInv' OBVIOUS
<1>0. page \in Page /\ page.kind \in Kinds /\ PageOK /\ profile \in 0..MaxProfile
      /\ page.status = "open" /\ UNCHANGED world
  BY DEF PagesInv, DashboardTypeOK, Page, ListProfiles, At
<1>1. At("profiles") /\ Before("profiles") BY <1>0, Order DEF ListProfiles, PageOK
<1>2. PICK read : read = [page EXCEPT !.listed = profile] OBVIOUS
<1>3. read \in Page /\ Done(read) BY <1>0, <1>2 DEF Page, ListProfiles
<1>4. page' \in Page /\ Further(read) BY <1>3, DonePage
<1>5. /\ PlaceOK' /\ NoPageFails'
      /\ \A x : Past(x)' <=> Past(x) \/ x = "profiles"
  <2>1. read.at = page.at /\ read.kind = page.kind /\ read.status = "open"
    BY <1>0, <1>2 DEF Page
  <2> QED BY <1>1, <1>3, <2>1, DonePlace
<1>6. /\ page'.kind = page.kind /\ page'.wanted = page.wanted
      /\ page'.listed = profile /\ page'.selected = page.selected
      /\ page'.records = page.records /\ page'.decided = page.decided
      /\ page'.cards = page.cards /\ page'.pending = page.pending
      /\ page'.context = page.context /\ page'.evidence = page.evidence
      /\ page'.lineages = page.lineages /\ page'.nearest = page.nearest
      /\ page'.counts = page.counts /\ page'.history = page.history
      /\ page'.success = page.success
  BY <1>0, <1>2, <1>4 DEF Page, Further
<1>7. RankOK' /\ EvidenceOK' /\ AnalyticsOK'
  BY <1>0, <1>1, <1>5, <1>6, EarlyKeeps DEF Before
<1>8. ProductKeys' = ProductKeys BY <1>6 DEF ProductKeys
<1>9. RecordsOK' /\ DetailOK' /\ LineagesOK' /\ FreshnessOK'
  BY <1>0, <1>5, <1>6, <1>8
     DEF PageOK, RecordsOK, DetailOK, LineagesOK, FreshnessOK, world
<1>10. ProfileOK'
  BY <1>0, <1>1, <1>5, <1>6 DEF PageOK, ProfileOK, world, Before
<1> QED BY <1>0, <1>4, <1>5, <1>7, <1>9, <1>10, SameWorld DEF PagesInv, PageOK

LEMMA StepGetProfile == PagesInv /\ GetProfile => PagesInv'
<1> SUFFICES ASSUME PagesInv, GetProfile PROVE PagesInv' OBVIOUS
<1>0. page \in Page /\ page.kind \in Kinds /\ PageOK /\ profile \in 0..MaxProfile
      /\ page.status = "open" /\ UNCHANGED world
  BY DEF PagesInv, DashboardTypeOK, Page, GetProfile, At
<1>1. At("selected") /\ Before("selected") BY <1>0, Order DEF GetProfile, PageOK
<1>2. PICK given \in BOOLEAN :
        LET found == IF given THEN profile ELSE 0
            strict == page.kind \in {"analytics", "recommendations"} IN
        Done([page EXCEPT !.selected = IF found = 0 THEN page.listed ELSE found,
                          !.status = IF strict /\ found = 0 THEN "missing" ELSE "open"])
  BY DEF GetProfile
<1>3. PICK found : found = IF given THEN profile ELSE 0 OBVIOUS
<1>4. PICK selected : selected = IF found = 0 THEN page.listed ELSE found OBVIOUS
<1>5. PICK status : status = IF page.kind \in {"analytics", "recommendations"} /\ found = 0
                             THEN "missing" ELSE "open"
  OBVIOUS
<1>6. /\ selected \in 0..MaxProfile /\ page.listed \in 0..MaxProfile /\ MaxProfile \in Nat
      /\ page.listed <= profile /\ selected <= profile /\ page.listed <= selected
      /\ status \in {"open", "missing"}
  <2>1. page.listed \in 0..MaxProfile /\ page.listed <= profile /\ MaxProfile \in Nat
    BY <1>0, DashboardAssumption DEF Page, PageOK, ProfileOK
  <2> QED BY <1>0, <1>3, <1>4, <1>5, <2>1
<1>7. PICK read : read = [page EXCEPT !.selected = selected, !.status = status] OBVIOUS
<1>8. read \in Page /\ Done(read)
  <2>1. read \in Page BY <1>0, <1>6, <1>7 DEF Page
  <2>2. Done(read) BY <1>2, <1>3, <1>4, <1>5, <1>7
  <2> QED BY <2>1, <2>2
<1>9. page' \in Page /\ Further(read) BY <1>8, DonePage
<1>10. /\ PlaceOK' /\ NoPageFails'
       /\ \A x : Past(x)' <=> Past(x) \/ x = "selected"
  <2>1. read.at = page.at /\ read.kind = page.kind /\ read.status = status
    BY <1>0, <1>7 DEF Page
  <2> QED BY <1>1, <1>6, <1>8, <2>1, DonePlace
<1>11. /\ page'.kind = page.kind /\ page'.wanted = page.wanted
       /\ page'.listed = page.listed /\ page'.selected = selected
       /\ page'.records = page.records /\ page'.decided = page.decided
       /\ page'.cards = page.cards /\ page'.pending = page.pending
       /\ page'.context = page.context /\ page'.evidence = page.evidence
       /\ page'.lineages = page.lineages /\ page'.nearest = page.nearest
       /\ page'.counts = page.counts /\ page'.history = page.history
       /\ page'.success = page.success
  BY <1>0, <1>7, <1>9 DEF Page, Further
<1>12. RankOK' /\ EvidenceOK' /\ AnalyticsOK'
  BY <1>0, <1>1, <1>10, <1>11, EarlyKeeps DEF Before
<1>13. ProductKeys' = ProductKeys BY <1>11 DEF ProductKeys
<1>14. RecordsOK' /\ DetailOK' /\ LineagesOK' /\ FreshnessOK'
  BY <1>0, <1>10, <1>11, <1>13
     DEF PageOK, RecordsOK, DetailOK, LineagesOK, FreshnessOK, world
<1>15. ProfileOK'
  BY <1>0, <1>1, <1>6, <1>10, <1>11 DEF ProfileOK, world, Before
<1> QED BY <1>0, <1>9, <1>10, <1>12, <1>14, <1>15, SameWorld DEF PagesInv, PageOK

LEMMA CurrentIsThere ==
  ASSUME PagesInv, NEW k \in Keys
  PROVE  CurrentRecords[k] \in 0..MaxVersion /\ CurrentRecords[k] <= Len(versions[k])
<1>1. versions[k] \in Seq(1..MaxRuns) /\ Len(versions[k]) <= MaxVersion /\ MaxVersion \in Nat
  BY DashboardAssumption DEF PagesInv, DashboardTypeOK, WorldOK
<1>2. Len(versions[k]) \in 0..MaxVersion BY <1>1
<1> QED BY <1>1, <1>2 DEF CurrentRecords

LEMMA StepReadRecords == PagesInv /\ ReadRecords => PagesInv'
<1> SUFFICES ASSUME PagesInv, ReadRecords PROVE PagesInv' OBVIOUS
<1>0. page \in Page /\ page.kind \in Kinds /\ PageOK
      /\ page.status = "open" /\ UNCHANGED world
  BY DEF PagesInv, DashboardTypeOK, Page, ReadRecords, At
<1>1. At("records") /\ Before("records") BY <1>0, Order DEF ReadRecords, PageOK
<1>2. PICK status : status = IF page.kind = "detail" /\ \E k \in page.wanted : CurrentRecords[k] = 0
                             THEN "missing" ELSE "open"
  OBVIOUS
<1>3. status \in {"open", "missing"} BY <1>2
<1>4. \A k \in Keys : /\ CurrentRecords[k] \in 0..MaxVersion
                      /\ CurrentRecords[k] <= Len(versions[k])
  BY CurrentIsThere
<1>5. CurrentRecords \in [Keys -> 0..MaxVersion]
  <2>1. CurrentRecords = [k \in Keys |-> CurrentRecords[k]] BY DEF CurrentRecords
  <2> QED BY <1>4, <2>1
<1>6. PICK read : read = [page EXCEPT !.records = CurrentRecords, !.status = status] OBVIOUS
<1>7. read \in Page /\ Done(read)
  <2>1. read \in Page
    <3>1. PICK r : r = CurrentRecords OBVIOUS
    <3> QED BY <1>0, <1>3, <1>5, <1>6, <3>1 DEF Page
  <2>2. Done(read) BY <1>2, <1>6 DEF ReadRecords
  <2> QED BY <2>1, <2>2
<1>8. page' \in Page /\ Further(read) BY <1>7, DonePage
<1>9. /\ PlaceOK' /\ NoPageFails'
      /\ \A x : Past(x)' <=> Past(x) \/ x = "records"
  <2>1. read.at = page.at /\ read.kind = page.kind /\ read.status = status
    BY <1>0, <1>6 DEF Page
  <2> QED BY <1>1, <1>3, <1>7, <2>1, DonePlace
<1>10. /\ page'.kind = page.kind /\ page'.wanted = page.wanted
       /\ page'.listed = page.listed /\ page'.selected = page.selected
       /\ page'.records = CurrentRecords /\ page'.decided = page.decided
       /\ page'.cards = page.cards /\ page'.pending = page.pending
       /\ page'.context = page.context /\ page'.evidence = page.evidence
       /\ page'.nearest = page.nearest /\ page'.counts = page.counts
       /\ page'.history = page.history
       /\ page'.status \in {"open", "ok"} => status = "open"
  BY <1>0, <1>3, <1>6, <1>8 DEF Page, Further
<1>11. RankOK' /\ EvidenceOK' /\ AnalyticsOK'
  BY <1>0, <1>1, <1>9, <1>10, EarlyKeeps DEF Before
<1>12. RecordsOK' BY <1>0, <1>4, <1>10 DEF RecordsOK, world
<1>13. ProfileOK' BY <1>0, <1>9, <1>10 DEF PageOK, ProfileOK, world
<1>14. DetailOK'
  <2> SUFFICES ASSUME page.kind = "detail", status = "open", NEW k \in page.wanted
               PROVE  k \in Keys /\ CurrentRecords[k] > 0
    BY <1>10 DEF DetailOK, ProductKeys
  <2>1. k \in Keys BY <1>0 DEF Page
  <2>2. CurrentRecords[k] # 0 /\ CurrentRecords[k] \in 0..MaxVersion BY <1>2, <1>4, <2>1
  <2> QED BY <2>1, <2>2, DashboardAssumption
<1>15. LineagesOK' /\ FreshnessOK'
  BY <1>1, <1>9 DEF Before, LineagesOK, FreshnessOK
<1> QED BY <1>0, <1>8, <1>9, <1>11, <1>12, <1>13, <1>14, <1>15, SameWorld
        DEF PagesInv, PageOK

LEMMA LabelType ==
  ASSUME NEW c, NEW n, NEW passed
  PROVE  Decision(c, n, passed) \in Decisions \ {Undecided}
BY DEF Decision, Decisions, Undecided

LEMMA StepRankRecords == PagesInv /\ RankRecords => PagesInv'
<1> SUFFICES ASSUME PagesInv, RankRecords PROVE PagesInv' OBVIOUS
<1> DEFINE label(k) == Decision(CompanyOf[page.selected], Says(k).notice, Passed(k, clock))
<1>a. clock \in 0..clock BY DashboardAssumption DEF PagesInv, DashboardTypeOK, Clocks
<1>0. /\ page \in Page /\ page.kind \in Kinds /\ page.wanted \subseteq Keys /\ PageOK
      /\ page.status = "open" /\ UNCHANGED world
  BY DEF PagesInv, DashboardTypeOK, Page, RankRecords, At
<1>1. At("rank") /\ Before("rank") BY <1>0, Order DEF RankRecords, PageOK
<1>2. PICK decided : decided = [k \in Keys |-> IF k \in Ranked THEN label(k) ELSE Undecided]
  OBVIOUS
<1>3. PICK shown \in DecisionFilters :
        LET cards == CASE page.kind = "detail"    -> page.wanted
                       [] page.kind = "dashboard" ->
                            {k \in Ranked \cap page.wanted : label(k) \in shown}
                       [] OTHER                   -> {}
        IN Done([page EXCEPT !.decided = decided, !.cards = cards, !.pending = cards])
  BY <1>2 DEF RankRecords
<1> HIDE DEF label
<1>4. PICK cards : cards = CASE page.kind = "detail"    -> page.wanted
                             [] page.kind = "dashboard" ->
                                  {k \in Ranked \cap page.wanted : label(k) \in shown}
                             [] OTHER                   -> {}
  OBVIOUS
<1>5. /\ Ranked \subseteq ProductKeys /\ cards \subseteq ProductKeys
      /\ page.kind = "detail" => cards \subseteq page.wanted
  <2>1. page.kind = "detail" => page.wanted \subseteq ProductKeys
    BY <1>0, <1>1 DEF PageOK, DetailOK, Before
  <2>2. Ranked \subseteq ProductKeys BY <2>1 DEF Ranked, Opportunities
  <2>3. cards \subseteq Ranked \/ (page.kind = "detail" /\ cards = page.wanted)
    BY <1>0, <1>4 DEF Kinds
  <2>4. page.kind = "detail" => cards = page.wanted BY <1>4
  <2> QED BY <2>1, <2>2, <2>3, <2>4
<1>6. decided \in [Keys -> Decisions]
  BY <1>2, LabelType DEF label, Decisions
<1>7. PICK read : read = [page EXCEPT !.decided = decided, !.cards = cards, !.pending = cards]
  OBVIOUS
<1>8. read \in Page /\ Done(read)
  <2>1. cards \subseteq Keys BY <1>5 DEF ProductKeys
  <2>2. read \in Page BY <1>0, <1>6, <1>7, <2>1 DEF Page
  <2>3. Done(read) BY <1>3, <1>4, <1>7
  <2> QED BY <2>2, <2>3
<1>9. page' \in Page /\ Further(read) BY <1>8, DonePage
<1>10. /\ PlaceOK' /\ NoPageFails'
       /\ \A x : Past(x)' <=> Past(x) \/ x = "rank"
  <2>1. read.at = page.at /\ read.kind = page.kind /\ read.status = "open"
    BY <1>0, <1>7 DEF Page
  <2> QED BY <1>1, <1>8, <2>1, DonePlace
<1>11. /\ page'.kind = page.kind /\ page'.wanted = page.wanted
       /\ page'.listed = page.listed /\ page'.selected = page.selected
       /\ page'.records = page.records /\ page'.decided = decided
       /\ page'.cards = cards /\ page'.pending = cards
       /\ page'.context = page.context /\ page'.evidence = page.evidence
       /\ page'.lineages = page.lineages /\ page'.nearest = page.nearest
       /\ page'.counts = page.counts /\ page'.history = page.history
       /\ page'.success = page.success
  BY <1>0, <1>7, <1>9 DEF Page, Further
<1>12. Unranked BY <1>0, <1>1 DEF PageOK, RankOK, Before
<1>13. ProductKeys' = ProductKeys /\ Ranked' = Ranked /\ Reader' = CompanyOf[page.selected]
       /\ \A k : Says(k)' = Says(k)
  BY <1>11 DEF ProductKeys, Ranked, Opportunities, Says, Reader
<1>14. RankOK'
  <2>1. ASSUME NEW k \in Ranked
        PROVE  \E now \in 0..clock' :
                 page'.decided[k] = Decision(Reader, Says(k).notice, Passed(k, now))'
    <3>1. k \in Keys /\ decided[k] = label(k) BY <1>2, <1>5 DEF ProductKeys
    <3>2. clock' = clock /\ Passed(k, clock)' = Passed(k, clock)
      BY <1>0, <1>13 DEF world, Passed
    <3> QED BY <1>a, <1>11, <1>13, <3>1, <3>2 DEF label
  <2>2. \A k \in Keys \ Ranked : page'.decided[k] = Undecided BY <1>2, <1>11
  <2>3. Matched' BY <1>5, <1>11, <1>13, <2>1, <2>2 DEF Matched
  <2> QED BY <1>10, <2>3 DEF RankOK
<1>15. EvidenceOK' BY <1>11, <1>12 DEF Unranked, EvidenceOK
<1>16. AnalyticsOK'
  BY <1>0, <1>11, <1>12 DEF Unranked, AnalyticsOK, AheadIsNotExpired, PageOK
<1>17. RecordsOK' /\ DetailOK' /\ LineagesOK' /\ FreshnessOK' /\ ProfileOK'
  BY <1>0, <1>10, <1>11, <1>13
     DEF PageOK, RecordsOK, DetailOK, LineagesOK, FreshnessOK, ProfileOK, world
<1> QED BY <1>0, <1>9, <1>10, <1>14, <1>15, <1>16, <1>17, SameWorld DEF PagesInv, PageOK

-----------------------------------------------------------------------------
(* The steps that read after the ranking. *)

\* The facts that the late steps share.
LEMMA LateStep ==
  ASSUME PagesInv, NEW step \in Late, At(step), UNCHANGED world,
         NEW read \in Page, Done(read), read.status = "open",
         read.at = page.at, read.kind = page.kind, read.wanted = page.wanted,
         read.listed = page.listed, read.selected = page.selected,
         read.records = page.records, read.decided = page.decided,
         read.cards = page.cards, read.pending = page.pending
  PROVE  /\ DashboardTypeOK' /\ WorldOK' /\ PlaceOK' /\ NoPageFails'
         /\ Before(step) /\ Past("rank") /\ Further(read) /\ SameRecords
         /\ \A x : Past(x)' <=> Past(x) \/ x = step
         /\ \A x \in {"records", "selected", "rank"} : Past(x)' <=> Past(x)
         /\ page'.selected = page.selected /\ page'.decided = page.decided
         /\ page'.cards = page.cards /\ page'.pending = page.pending
<1>1. page' \in Page /\ Further(read) BY DonePage
<1>2. PlaceOK' /\ NoPageFails' /\ \A x : Past(x)' <=> Past(x) \/ x = step BY DonePlace
<1>3. page.kind \in Kinds /\ PlaceOK BY DEF PagesInv, DashboardTypeOK, Page, PageOK
<1>4. Before(step) BY <1>3, Order
<1>5. Past("rank") BY <1>4 DEF Before
<1>6. DashboardTypeOK' /\ WorldOK' BY <1>1, SameWorld
<1>7. /\ page'.selected = page.selected /\ page'.decided = page.decided
      /\ page'.cards = page.cards /\ page'.pending = page.pending
  BY <1>1 DEF Further
<1>8. SameRecords BY <1>1 DEF Further, SameRecords, At
<1>9. \A x \in {"records", "selected", "rank"} : Past(x)' <=> Past(x) BY <1>2 DEF Late
<1> QED BY <1>1, <1>2, <1>4, <1>5, <1>6, <1>7, <1>8, <1>9

LEMMA StepEvidenceRead == PagesInv /\ EvidenceRead => PagesInv'
<1> SUFFICES ASSUME PagesInv, EvidenceRead PROVE PagesInv' OBVIOUS
<1>0. page \in Page /\ page.status = "open" /\ UNCHANGED world /\ "evidence" \in Late
  BY DEF PagesInv, DashboardTypeOK, EvidenceRead, At, Late
<1>1. At("evidence") /\ Done(page) BY DEF EvidenceRead
<1>2. /\ DashboardTypeOK' /\ WorldOK' /\ PlaceOK' /\ NoPageFails'
      /\ Past("rank") /\ Further(page) /\ SameRecords
      /\ \A x : Past(x)' <=> Past(x) \/ x = "evidence"
      /\ \A x \in {"records", "selected", "rank"} : Past(x)' <=> Past(x)
      /\ page'.selected = page.selected /\ page'.decided = page.decided
      /\ page'.cards = page.cards /\ page'.pending = page.pending
  BY <1>0, <1>1, LateStep
<1>3. /\ page'.context = page.context /\ page'.evidence = page.evidence
      /\ page'.lineages = page.lineages /\ page'.nearest = page.nearest
      /\ page'.counts = page.counts /\ page'.history = page.history
      /\ page'.success = page.success
  BY <1>2 DEF Further
<1> QED BY <1>2, <1>3, LateKeeps DEF PagesInv, PageOK

LEMMA StepReadAwards == PagesInv /\ ReadAwards => PagesInv'
<1> SUFFICES ASSUME PagesInv, ReadAwards PROVE PagesInv' OBVIOUS
<1> DEFINE award(k) == CurrentRecords[k] > 0 /\ Content[<<k, CurrentRecords[k]>>].kind = "award"
<1>0. page \in Page /\ page.status = "open" /\ UNCHANGED world /\ "awards" \in Late
  BY DEF PagesInv, DashboardTypeOK, ReadAwards, At, Late
<1>1. PICK awards : awards = [k \in Keys |-> IF award(k) THEN CurrentRecords[k] ELSE 0]
  OBVIOUS
<1>2. awards \in [Keys -> 0..MaxVersion]
  <2>1. ASSUME NEW k \in Keys PROVE CurrentRecords[k] \in 0..MaxVersion /\ 0 \in 0..MaxVersion
    BY DashboardAssumption, CurrentIsThere
  <2> HIDE DEF award
  <2> QED BY <1>1, <2>1
<1>3. PICK read : read = [page EXCEPT !.awards = awards] OBVIOUS
<1>4. read \in Page /\ Done(read) /\ At("awards")
  <2>1. Done(read) /\ At("awards") BY <1>1, <1>3 DEF ReadAwards
  <2>2. read \in Page BY <1>0, <1>2, <1>3 DEF Page
  <2> QED BY <2>1, <2>2
<1>5. /\ read.status = "open" /\ read.at = page.at /\ read.kind = page.kind
      /\ read.wanted = page.wanted /\ read.listed = page.listed
      /\ read.selected = page.selected /\ read.records = page.records
      /\ read.decided = page.decided /\ read.cards = page.cards
      /\ read.pending = page.pending /\ read.context = page.context
      /\ read.evidence = page.evidence /\ read.lineages = page.lineages
      /\ read.nearest = page.nearest /\ read.counts = page.counts
      /\ read.history = page.history /\ read.success = page.success
  BY <1>0, <1>3 DEF Page
<1>6. /\ DashboardTypeOK' /\ WorldOK' /\ PlaceOK' /\ NoPageFails'
      /\ Past("rank") /\ Further(read) /\ SameRecords
      /\ \A x : Past(x)' <=> Past(x) \/ x = "awards"
      /\ \A x \in {"records", "selected", "rank"} : Past(x)' <=> Past(x)
      /\ page'.selected = page.selected /\ page'.decided = page.decided
      /\ page'.cards = page.cards /\ page'.pending = page.pending
  BY <1>0, <1>4, <1>5, LateStep
<1>7. /\ page'.context = page.context /\ page'.evidence = page.evidence
      /\ page'.lineages = page.lineages /\ page'.nearest = page.nearest
      /\ page'.counts = page.counts /\ page'.history = page.history
      /\ page'.success = page.success
  BY <1>5, <1>6 DEF Further
<1> QED BY <1>6, <1>7, LateKeeps DEF PagesInv, PageOK

LEMMA StepReadLineages == PagesInv /\ ReadLineages => PagesInv'
<1> SUFFICES ASSUME PagesInv, ReadLineages PROVE PagesInv' OBVIOUS
<1>0. page \in Page /\ page.status = "open" /\ UNCHANGED world /\ "lineages" \in Late
      /\ RecordsOK
  BY DEF PagesInv, DashboardTypeOK, ReadLineages, At, Late, PageOK
<1>1. PICK lineages : lineages = Lineages OBVIOUS
<1>2. /\ lineages \in [Keys -> 0..MaxVersion]
      /\ \A k \in Keys \ ProductKeys : lineages[k] = 0
      /\ \A k \in ProductKeys :
           (page.kind = "detail" => k \in page.wanted) => page.records[k] <= lineages[k]
  <2>1. ASSUME NEW k \in Keys PROVE Len(versions[k]) \in 0..MaxVersion /\ 0 \in 0..MaxVersion
    BY DashboardAssumption DEF PagesInv, DashboardTypeOK, WorldOK
  <2>2. \A k \in ProductKeys : k \in Keys /\ page.records[k] <= Len(versions[k])
    BY <1>0 DEF ProductKeys, RecordsOK
  <2> QED BY <1>1, <2>1, <2>2 DEF Lineages
<1>3. PICK read : read = [page EXCEPT !.lineages = lineages] OBVIOUS
<1>4. read \in Page /\ Done(read) /\ At("lineages")
  <2>1. Done(read) /\ At("lineages") BY <1>1, <1>3 DEF ReadLineages
  <2>2. read \in Page BY <1>0, <1>2, <1>3 DEF Page
  <2> QED BY <2>1, <2>2
<1>5. /\ read.status = "open" /\ read.at = page.at /\ read.kind = page.kind
      /\ read.wanted = page.wanted /\ read.listed = page.listed
      /\ read.selected = page.selected /\ read.records = page.records
      /\ read.decided = page.decided /\ read.cards = page.cards
      /\ read.pending = page.pending /\ read.context = page.context
      /\ read.evidence = page.evidence /\ read.lineages = lineages
      /\ read.nearest = page.nearest /\ read.counts = page.counts
      /\ read.history = page.history /\ read.success = page.success
  BY <1>0, <1>3 DEF Page
<1>6. /\ DashboardTypeOK' /\ WorldOK' /\ PlaceOK' /\ NoPageFails'
      /\ Past("rank") /\ Further(read) /\ SameRecords
      /\ \A x : Past(x)' <=> Past(x) \/ x = "lineages"
      /\ \A x \in {"records", "selected", "rank"} : Past(x)' <=> Past(x)
      /\ page'.selected = page.selected /\ page'.decided = page.decided
      /\ page'.cards = page.cards /\ page'.pending = page.pending
  BY <1>0, <1>4, <1>5, LateStep
<1>7. /\ page'.context = page.context /\ page'.evidence = page.evidence
      /\ page'.lineages = lineages /\ page'.nearest = page.nearest
      /\ page'.counts = page.counts /\ page'.history = page.history
      /\ page'.success = page.success
  BY <1>5, <1>6 DEF Further
<1>8. LineagesOK'
  <2>1. ProductKeys' = ProductKeys BY <1>6 DEF ProductKeys, SameRecords
  <2> QED BY <1>2, <1>6, <1>7, <2>1 DEF LineagesOK, SameRecords
<1> QED BY <1>6, <1>7, <1>8, LateKeeps DEF PagesInv, PageOK

LEMMA StepReadHistory == PagesInv /\ ReadHistory => PagesInv'
<1> SUFFICES ASSUME PagesInv, ReadHistory PROVE PagesInv' OBVIOUS
<1>0. page \in Page /\ page.status = "open" /\ UNCHANGED world /\ "history" \in Late
      /\ profile \in 0..MaxProfile /\ 0 \in 0..MaxProfile /\ ProfileOK
  BY DashboardAssumption DEF PagesInv, DashboardTypeOK, ReadHistory, At, Late, PageOK
<1>1. PICK history : history = IF page.selected = 0 THEN 0 ELSE profile OBVIOUS
<1>2. history \in 0..MaxProfile /\ page.selected <= history
  BY <1>0, <1>1 DEF ProfileOK
<1>3. PICK read : read = [page EXCEPT !.history = history] OBVIOUS
<1>4. read \in Page /\ Done(read) /\ At("history")
  <2>1. Done(read) /\ At("history") BY <1>1, <1>3 DEF ReadHistory
  <2>2. read \in Page BY <1>0, <1>2, <1>3 DEF Page
  <2> QED BY <2>1, <2>2
<1>5. /\ read.status = "open" /\ read.at = page.at /\ read.kind = page.kind
      /\ read.wanted = page.wanted /\ read.listed = page.listed
      /\ read.selected = page.selected /\ read.records = page.records
      /\ read.decided = page.decided /\ read.cards = page.cards
      /\ read.pending = page.pending /\ read.context = page.context
      /\ read.evidence = page.evidence /\ read.lineages = page.lineages
      /\ read.nearest = page.nearest /\ read.counts = page.counts
      /\ read.history = history /\ read.success = page.success
  BY <1>0, <1>3 DEF Page
<1>6. /\ DashboardTypeOK' /\ WorldOK' /\ PlaceOK' /\ NoPageFails'
      /\ Before("history") /\ Past("rank") /\ Further(read) /\ SameRecords
      /\ \A x : Past(x)' <=> Past(x) \/ x = "history"
      /\ \A x \in {"records", "selected", "rank"} : Past(x)' <=> Past(x)
      /\ page'.selected = page.selected /\ page'.decided = page.decided
      /\ page'.cards = page.cards /\ page'.pending = page.pending
  BY <1>0, <1>4, <1>5, LateStep
<1>7. /\ page'.context = page.context /\ page'.evidence = page.evidence
      /\ page'.lineages = page.lineages /\ page'.nearest = page.nearest
      /\ page'.counts = page.counts /\ page'.history = history
      /\ page'.success = page.success
  BY <1>5, <1>6 DEF Further
<1>8. ProfileOK'
  BY <1>0, <1>2, <1>6, <1>7 DEF ProfileOK, SameRecords, world
<1> QED BY <1>6, <1>7, <1>8, LateKeeps DEF PagesInv, PageOK

\* The latest success is at least as late as any other.
LEMMA LatestIsLast ==
  ASSUME PagesInv
  PROVE  /\ LatestSuccess \in 0..MaxRuns
         /\ \A r \in 1..Len(runs) : runs[r] = "succeeded" => r <= LatestSuccess
<1> DEFINE good == {r \in DOMAIN runs : runs[r] = "succeeded"}
<1>1. /\ Len(runs) \in Nat /\ Len(runs) <= MaxRuns /\ DOMAIN runs = 1..Len(runs)
      /\ MaxRuns \in Nat
  BY DashboardAssumption DEF PagesInv, DashboardTypeOK, WorldOK
<1>2. CASE good = {} BY <1>1, <1>2 DEF LatestSuccess
<1>3. CASE good # {}
  <2>1. good \in SUBSET (1..Len(runs)) BY <1>1
  <2>2. \E r \in good : \A q \in good : q <= r
    <3> HIDE DEF good
    <3> QED BY <1>1, <1>3, <2>1, LastExists
  <2>3. LatestSuccess \in good /\ \A q \in good : q <= LatestSuccess
    BY <1>3, <2>2 DEF LatestSuccess
  <2> QED BY <1>1, <2>3
<1> QED BY <1>2, <1>3

LEMMA StepReadFreshness == PagesInv /\ ReadFreshness => PagesInv'
<1> SUFFICES ASSUME PagesInv, ReadFreshness PROVE PagesInv' OBVIOUS
<1>0. page \in Page /\ page.status = "open" /\ UNCHANGED world /\ "freshness" \in Late
  BY DEF PagesInv, DashboardTypeOK, ReadFreshness, At, Late
<1>1. PICK success : success = LatestSuccess OBVIOUS
<1>2. /\ success \in 0..MaxRuns
      /\ \A r \in 1..Len(runs) : runs[r] = "succeeded" => r <= success
  BY <1>1, LatestIsLast
<1>3. PICK read : read = [page EXCEPT !.success = success] OBVIOUS
<1>4. read \in Page /\ Done(read) /\ At("freshness")
  <2>1. Done(read) /\ At("freshness") BY <1>1, <1>3 DEF ReadFreshness
  <2>2. read \in Page BY <1>0, <1>2, <1>3 DEF Page
  <2> QED BY <2>1, <2>2
<1>5. /\ read.status = "open" /\ read.at = page.at /\ read.kind = page.kind
      /\ read.wanted = page.wanted /\ read.listed = page.listed
      /\ read.selected = page.selected /\ read.records = page.records
      /\ read.decided = page.decided /\ read.cards = page.cards
      /\ read.pending = page.pending /\ read.context = page.context
      /\ read.evidence = page.evidence /\ read.lineages = page.lineages
      /\ read.nearest = page.nearest /\ read.counts = page.counts
      /\ read.history = page.history /\ read.success = success
  BY <1>0, <1>3 DEF Page
<1>6. /\ DashboardTypeOK' /\ WorldOK' /\ PlaceOK' /\ NoPageFails'
      /\ Past("rank") /\ Further(read) /\ SameRecords
      /\ \A x : Past(x)' <=> Past(x) \/ x = "freshness"
      /\ \A x \in {"records", "selected", "rank"} : Past(x)' <=> Past(x)
      /\ page'.selected = page.selected /\ page'.decided = page.decided
      /\ page'.cards = page.cards /\ page'.pending = page.pending
  BY <1>0, <1>4, <1>5, LateStep
<1>7. /\ page'.context = page.context /\ page'.evidence = page.evidence
      /\ page'.lineages = page.lineages /\ page'.nearest = page.nearest
      /\ page'.counts = page.counts /\ page'.history = page.history
      /\ page'.success = success
  BY <1>5, <1>6 DEF Further
<1>8. FreshnessOK'
  <2>1. ASSUME NEW k \in ProductKeys, runs[versions[k][page.records[k]]] = "succeeded"
        PROVE  versions[k][page.records[k]] <= success
    <3>1. k \in Keys /\ page.records[k] \in 0..MaxVersion /\ page.records[k] > 0
          /\ page.records[k] <= Len(versions[k]) /\ versions[k] \in Seq(1..MaxRuns)
      BY <1>0 DEF ProductKeys, Page, PagesInv, PageOK, RecordsOK, DashboardTypeOK
    <3>2. page.records[k] \in 1..Len(versions[k]) BY <3>1, DashboardAssumption
    <3> QED BY <1>2, <2>1, <3>1, <3>2 DEF PagesInv, WorldOK
  <2>2. ProductKeys' = ProductKeys BY <1>6 DEF ProductKeys, SameRecords
  <2> QED BY <1>0, <1>6, <1>7, <2>1, <2>2 DEF FreshnessOK, SameRecords, world
<1> QED BY <1>6, <1>7, <1>8, LateKeeps DEF PagesInv, PageOK

\* A record that was ranked is of the product, and is labelled once.
LEMMA RankedFacts ==
  ASSUME PagesInv, Past("rank")
  PROVE  {k \in Keys : page.decided[k] # Undecided} = Ranked
<1>1. Matched BY DEF PagesInv, PageOK, RankOK
<1>2. \A k \in Ranked : k \in Keys BY <1>1 DEF Matched, ProductKeys
<1>3. ASSUME NEW k \in Ranked PROVE page.decided[k] # Undecided
  <2>1. PICK now \in 0..clock :
          page.decided[k] = Decision(Reader, Says(k).notice, Passed(k, now))
    BY <1>1 DEF Matched
  <2> QED BY <2>1, LabelType
<1> QED BY <1>1, <1>2, <1>3 DEF Matched

LEMMA SaysType ==
  ASSUME PagesInv, NEW k \in ProductKeys
  PROVE  k \in Keys /\ page.records[k] \in Nat \ {0} /\ Says(k) \in RecordContent
<1>1. k \in Keys /\ page.records[k] \in 0..MaxVersion /\ page.records[k] > 0 /\ MaxVersion \in Nat
  BY DashboardAssumption DEF ProductKeys, PagesInv, DashboardTypeOK, Page
<1>2. page.records[k] \in Versions BY <1>1 DEF Versions
<1>3. <<k, page.records[k]>> \in Keys \X Versions BY <1>1, <1>2
<1> QED BY <1>1, <1>3, DashboardAssumption DEF Says

LEMMA StepAnalyse == PagesInv /\ Analyse => PagesInv'
<1> SUFFICES ASSUME PagesInv, Analyse PROVE PagesInv' OBVIOUS
<1>0. page \in Page /\ page.status = "open" /\ UNCHANGED world /\ "analytics" \in Late
      /\ page.kind \in Kinds /\ PageOK /\ At("analytics")
  BY DEF PagesInv, DashboardTypeOK, Analyse, At, Late, Page
<1>1. Before("analytics") BY <1>0, Order DEF PageOK
<1>2. Past("rank") /\ Past("lineages") /\ page.kind \in {"dashboard", "analytics"}
  BY <1>0, <1>1 DEF Before
<1>3. CASE page.selected = 0
  <2>1. Done(page) BY <1>3 DEF Analyse
  <2>2. /\ DashboardTypeOK' /\ WorldOK' /\ PlaceOK' /\ NoPageFails'
        /\ Past("rank") /\ Further(page) /\ SameRecords
        /\ \A x : Past(x)' <=> Past(x) \/ x = "analytics"
        /\ \A x \in {"records", "selected", "rank"} : Past(x)' <=> Past(x)
        /\ page'.selected = page.selected /\ page'.decided = page.decided
        /\ page'.cards = page.cards /\ page'.pending = page.pending
    BY <1>0, <2>1, LateStep
  <2>3. /\ page'.context = page.context /\ page'.evidence = page.evidence
        /\ page'.lineages = page.lineages /\ page'.nearest = page.nearest
        /\ page'.counts = page.counts /\ page'.history = page.history
        /\ page'.success = page.success
    BY <2>2 DEF Further
  <2> QED BY <2>2, <2>3, LateKeeps DEF PagesInv, PageOK
<1>4. CASE page.selected # 0
  <2>1. {k \in Keys : page.decided[k] # Undecided} = Opportunities /\ Ranked = Opportunities
    BY <1>2, <1>4, RankedFacts DEF Ranked
  <2>2. PICK nearest : nearest = {k \in Opportunities : Ahead(k)} OBVIOUS
  <2>3. PICK counts : counts = [current |-> Cardinality(ProductKeys),
                       new |-> Cardinality({k \in Keys : page.lineages[k] = 1}),
                       changed |-> Cardinality({k \in Keys : page.lineages[k] > 1})]
    OBVIOUS
  <2>4. counts \in [current : Nat, new : Nat, changed : Nat]
        /\ counts.new + counts.changed = counts.current
    <3> DEFINE once == {k \in Keys : page.lineages[k] = 1}
               more == {k \in Keys : page.lineages[k] > 1}
    <3>1. IsFiniteSet(ProductKeys) /\ IsFiniteSet(once) /\ IsFiniteSet(more)
      BY DashboardAssumption, FS_Subset DEF ProductKeys
    <3>2. once \cup more = ProductKeys
      <4>1. \A k \in Keys : page.lineages[k] \in 0..MaxVersion /\ page.records[k] \in 0..MaxVersion
        BY <1>0 DEF Page
      <4>2. \A k \in Keys : k \in ProductKeys <=> page.records[k] > 0 BY DEF ProductKeys
      <4>3. \A k \in Keys : k \in ProductKeys <=> page.lineages[k] > 0
        BY <1>0, <1>2, <4>1, <4>2, DashboardAssumption DEF PageOK, LineagesOK
      <4> QED BY <4>1, <4>3, DashboardAssumption DEF ProductKeys
    <3>3. once \cap more = {} OBVIOUS
    <3> HIDE DEF once, more
    <3>4. /\ Cardinality(once \cup more) =
               Cardinality(once) + Cardinality(more) - Cardinality(once \cap more)
          /\ Cardinality(once) \in Nat /\ Cardinality(more) \in Nat
          /\ Cardinality(ProductKeys) \in Nat
      BY <3>1, FS_Union, FS_CardinalityType
    <3>5. Cardinality(once) + Cardinality(more) = Cardinality(ProductKeys)
      <4>1. Cardinality(once \cap more) = 0 BY <3>3, FS_EmptySet
      <4>2. Cardinality(once \cup more) = Cardinality(ProductKeys) BY <3>2
      <4> QED BY <3>4, <4>1, <4>2
    <3> QED BY <2>3, <3>4, <3>5 DEF once, more
  <2>5. PICK read : read = [page EXCEPT !.nearest = nearest, !.counts = counts, !.status = "open"]
    OBVIOUS
  <2>6. read \in Page /\ Done(read)
    <3>1. Done(read) BY <1>4, <2>1, <2>2, <2>3, <2>5 DEF Analyse
    <3>2. nearest \subseteq Keys BY <2>2 DEF Opportunities, ProductKeys
    <3>3. read \in Page BY <1>0, <2>4, <2>5, <3>2 DEF Page
    <3> QED BY <3>1, <3>3
  <2>7. /\ read.status = "open" /\ read.at = page.at /\ read.kind = page.kind
        /\ read.wanted = page.wanted /\ read.listed = page.listed
        /\ read.selected = page.selected /\ read.records = page.records
        /\ read.decided = page.decided /\ read.cards = page.cards
        /\ read.pending = page.pending /\ read.context = page.context
        /\ read.evidence = page.evidence /\ read.lineages = page.lineages
        /\ read.nearest = nearest /\ read.counts = counts
        /\ read.history = page.history /\ read.success = page.success
    BY <1>0, <2>5 DEF Page
  <2>8. /\ DashboardTypeOK' /\ WorldOK' /\ PlaceOK' /\ NoPageFails'
        /\ Past("rank") /\ Further(read) /\ SameRecords
        /\ \A x : Past(x)' <=> Past(x) \/ x = "analytics"
        /\ \A x \in {"records", "selected", "rank"} : Past(x)' <=> Past(x)
        /\ page'.selected = page.selected /\ page'.decided = page.decided
        /\ page'.cards = page.cards /\ page'.pending = page.pending
    BY <1>0, <2>6, <2>7, LateStep
  <2>9. /\ page'.context = page.context /\ page'.evidence = page.evidence
        /\ page'.lineages = page.lineages /\ page'.nearest = nearest
        /\ page'.counts = counts /\ page'.history = page.history
        /\ page'.success = page.success
    BY <2>7, <2>8 DEF Further
  \* The ranking read the clock earlier: what is ahead now was not passed then.
  <2>10. ASSUME NEW k \in nearest PROVE page.decided[k] # "expired"
    <3>1. k \in Opportunities /\ k \in Ranked /\ k \in ProductKeys /\ Ahead(k)
      BY <2>1, <2>2 DEF Opportunities
    <3>2. PICK now \in 0..clock :
            page.decided[k] = Decision(Reader, Says(k).notice, Passed(k, now))
      BY <1>0, <1>2, <3>1 DEF PageOK, RankOK, Matched
    <3>3. Says(k).deadline \in Nat /\ Says(k).deadline > clock /\ clock \in Nat
      <4>1. Says(k).deadline \in Clocks BY <3>1, SaysType DEF Ahead, RecordContent
      <4>2. Says(k).deadline > clock BY <3>1 DEF Ahead
      <4>3. clock \in Clocks BY DEF PagesInv, DashboardTypeOK
      <4> QED BY <4>1, <4>2, <4>3, DashboardAssumption DEF Clocks
    <3>4. ~Passed(k, now) BY <3>2, <3>3 DEF Passed
    <3> QED BY <3>2, <3>4 DEF Decision
  <2>11. AnalyticsOK' BY <2>4, <2>8, <2>9, <2>10 DEF AnalyticsOK, AheadIsNotExpired
  <2> QED BY <2>8, <2>9, <2>11, LateKeeps DEF PagesInv, PageOK
<1> QED BY <1>3, <1>4

\* The card whose evidence is read is of the product.
LEMMA CardFacts ==
  ASSUME PagesInv, At("evidence"), page.pending # {}
  PROVE  /\ Past("rank") /\ (page.kind = "dashboard" => Past("lineages"))
         /\ Card \in page.pending /\ Card \in ProductKeys
         /\ page.kind = "detail" => Card \in page.wanted
<1>1. page.kind \in Kinds /\ PageOK BY DEF PagesInv, DashboardTypeOK, Page
<1>2. Before("evidence") BY <1>1, Order DEF PageOK
<1>3. Past("rank") /\ (page.kind = "dashboard" => Past("lineages"))
  BY <1>2 DEF Before, Late
<1>4. Matched BY <1>1, <1>3 DEF PageOK, RankOK
<1>5. Card \in page.pending BY DEF Card
<1> QED BY <1>3, <1>4, <1>5 DEF Matched

LEMMA StepReadContext == PagesInv /\ ReadContext => PagesInv'
<1> SUFFICES ASSUME PagesInv, ReadContext PROVE PagesInv' OBVIOUS
<1>0. page \in Page /\ page.status = "open" /\ UNCHANGED world /\ At("evidence")
      /\ page.pending # {} /\ PageOK /\ NoPageFails
  BY DEF PagesInv, DashboardTypeOK, ReadContext, At
<1>1. Past("rank") /\ Card \in ProductKeys BY <1>0, CardFacts
<1>2. Card \in Keys /\ page.records[Card] <= Len(versions[Card])
  BY <1>0, <1>1 DEF ProductKeys, PageOK, RecordsOK
<1>3. PICK context : context = Len(versions[Card]) OBVIOUS
<1>4. context \in 0..MaxVersion
  BY <1>2, <1>3, DashboardAssumption DEF PagesInv, DashboardTypeOK, WorldOK
<1>5. page' = [page EXCEPT !.context = context] BY <1>3 DEF ReadContext
<1>6. page' \in Page BY <1>0, <1>4, <1>5 DEF Page
<1>7. /\ page'.status = page.status /\ page'.at = page.at /\ page'.kind = page.kind
      /\ page'.wanted = page.wanted /\ page'.listed = page.listed
      /\ page'.selected = page.selected /\ page'.records = page.records
      /\ page'.decided = page.decided /\ page'.cards = page.cards
      /\ page'.pending = page.pending /\ page'.context = context
      /\ page'.evidence = page.evidence /\ page'.lineages = page.lineages
      /\ page'.nearest = page.nearest /\ page'.counts = page.counts
      /\ page'.history = page.history /\ page'.success = page.success
  BY <1>0, <1>5 DEF Page
<1>8. \A x : Past(x)' <=> Past(x) BY <1>7 DEF Past
<1>9. SameRecords BY <1>0, <1>7 DEF SameRecords
<1>10. /\ RecordsOK' /\ DetailOK' /\ RankOK' /\ ProfileOK' /\ LineagesOK' /\ AnalyticsOK'
       /\ FreshnessOK'
  BY <1>1, <1>7, <1>8, <1>9, LateKeeps
<1>11. PlaceOK' /\ NoPageFails' BY <1>0, <1>7 DEF PageOK, PlaceOK, NoPageFails
<1>12. EvidenceOK'
  <2>1. Card' = Card BY <1>7 DEF Card
  <2> QED BY <1>0, <1>2, <1>3, <1>7, <2>1 DEF PageOK, EvidenceOK
<1> QED BY <1>0, <1>6, <1>10, <1>11, <1>12, SameWorld DEF PagesInv, PageOK

LEMMA StepReadAttempts == PagesInv /\ ReadAttempts => PagesInv'
<1> SUFFICES ASSUME PagesInv, ReadAttempts PROVE PagesInv' OBVIOUS
<1>0. page \in Page /\ page.status = "open" /\ UNCHANGED world /\ At("evidence")
      /\ page.pending # {} /\ page.context > 0 /\ PageOK
  BY DEF PagesInv, DashboardTypeOK, ReadAttempts, At
<1>1. /\ Past("rank") /\ Card \in ProductKeys /\ Card \in page.pending /\ Card \in Keys
      /\ page.kind = "dashboard" => Past("lineages")
  BY <1>0, CardFacts DEF ProductKeys
\* A card of the dashboard is found in the lineages.
<1>2. ~(page.kind = "dashboard" /\ page.lineages[Card] = 0)
  <2>1. ASSUME page.kind = "dashboard" PROVE page.lineages[Card] # 0
    <3>1. page.records[Card] <= page.lineages[Card]
      BY <1>0, <1>1, <2>1 DEF PageOK, LineagesOK
    <3>2. page.records[Card] \in Nat /\ page.records[Card] > 0 /\ page.lineages[Card] \in Int
      BY <1>0, <1>1, DashboardAssumption DEF ProductKeys, Page
    <3> QED BY <3>1, <3>2
  <2> QED BY <2>1
<1>3. PICK card : card = Card OBVIOUS
<1>4. PICK shown : shown = LastAttempt(Card) OBVIOUS
<1>5. /\ shown \in 0..MaxVersion /\ page.context \in 0..MaxVersion
      /\ shown # 0 => shown = page.context /\ page.records[card] <= shown
  <2>1. page.context \in 0..MaxVersion /\ 0 \in 0..MaxVersion
    BY <1>0, DashboardAssumption DEF Page
  <2>2. page.records[Card] <= page.context BY <1>0 DEF PageOK, EvidenceOK
  <2> QED BY <1>3, <1>4, <2>1, <2>2 DEF LastAttempt
<1>6. page' = [page EXCEPT !.evidence = [page.evidence EXCEPT ![card] = shown],
                           !.pending = page.pending \ {card}, !.context = 0, !.status = "open"]
  BY <1>2, <1>3, <1>4 DEF ReadAttempts
<1>7. PICK evidence : evidence = [page.evidence EXCEPT ![card] = shown] OBVIOUS
<1>8. PICK pending : pending = page.pending \ {card} OBVIOUS
<1>9. /\ evidence \in [Keys -> 0..MaxVersion] /\ pending \subseteq Keys
      /\ \A k \in Keys : evidence[k] = IF k = card THEN shown ELSE page.evidence[k]
  <2>1. page.evidence \in [Keys -> 0..MaxVersion] /\ page.pending \subseteq Keys
    BY <1>0 DEF Page
  <2> QED BY <1>1, <1>3, <1>5, <1>7, <1>8, <2>1
<1>10. page' = [page EXCEPT !.evidence = evidence, !.pending = pending, !.context = 0,
                            !.status = "open"]
  BY <1>6, <1>7, <1>8
<1>11. page' \in Page
  <2>1. 0 \in 0..MaxVersion BY DashboardAssumption
  <2> QED BY <1>0, <1>9, <1>10, <2>1 DEF Page
<1>12. /\ page'.status = "open" /\ page'.at = page.at /\ page'.kind = page.kind
       /\ page'.wanted = page.wanted /\ page'.listed = page.listed
       /\ page'.selected = page.selected /\ page'.records = page.records
       /\ page'.decided = page.decided /\ page'.cards = page.cards
       /\ page'.pending = pending /\ page'.context = 0
       /\ page'.evidence = evidence /\ page'.lineages = page.lineages
       /\ page'.nearest = page.nearest /\ page'.counts = page.counts
       /\ page'.history = page.history /\ page'.success = page.success
  BY <1>0, <1>10 DEF Page
<1>13. \A x : Past(x)' <=> Past(x) BY <1>12 DEF Past
<1>14. SameRecords BY <1>0, <1>12 DEF SameRecords
<1>15. /\ RecordsOK' /\ DetailOK' /\ RankOK' /\ ProfileOK' /\ LineagesOK' /\ AnalyticsOK'
       /\ FreshnessOK'
  BY <1>1, <1>8, <1>12, <1>13, <1>14, LateKeeps
<1>16. PlaceOK' /\ NoPageFails' BY <1>0, <1>12 DEF PageOK, PlaceOK, NoPageFails
<1>17. EvidenceOK'
  <2>1. \A k \in Keys : evidence[k] # 0 => page.records[k] <= evidence[k]
    BY <1>0, <1>5, <1>9 DEF PageOK, EvidenceOK
  <2> QED BY <1>12, <2>1 DEF EvidenceOK
<1> QED BY <1>0, <1>11, <1>15, <1>16, <1>17, SameWorld DEF PagesInv, PageOK

-----------------------------------------------------------------------------
(* The theorems. *)

LEMMA PagesStep == PagesInv /\ [Next]_vars => PagesInv'
<1> SUFFICES ASSUME PagesInv, [Next]_vars PROVE PagesInv' OBVIOUS
<1>1. CASE World
  <2>1. DashboardTypeOK' /\ WorldOK' /\ Onward /\ page' = page
    BY <1>1, WorldGoesOn DEF PagesInv
  <2> QED BY <2>1, PageStays DEF PagesInv
<1>2. CASE Read
  BY <1>2, StepListProfiles, StepGetProfile, StepReadRecords, StepRankRecords,
     StepReadLineages, StepReadContext, StepReadAttempts, StepEvidenceRead, StepReadAwards,
     StepAnalyse, StepReadHistory, StepReadFreshness DEF Read
<1>3. CASE Leave \/ \E kind \in Kinds, wanted \in SUBSET Keys : Request(kind, wanted)
  BY <1>3, BlankStep
<1>4. CASE UNCHANGED vars
  <2>1. DashboardTypeOK' /\ WorldOK' /\ Onward /\ page' = page
    <3>1. UNCHANGED <<clock, versions, attempted, profile, runs, page>>
      BY <1>4 DEF vars, world
    <3>2. clock \in Nat /\ profile \in Nat
          /\ \A k \in Keys : Len(versions[k]) \in Nat
      BY DashboardAssumption DEF PagesInv, DashboardTypeOK, Clocks
    <3> QED BY <3>1, <3>2 DEF PagesInv, DashboardTypeOK, WorldOK, Onward
  <2> QED BY <2>1, PageStays DEF PagesInv
<1> QED BY <1>1, <1>2, <1>3, <1>4 DEF Next

\* No commit between two SELECTs makes a page fail: every card of the dashboard
\* is found in the lineages that are read after the records, and the labels
\* cover the opportunities (the KeyError of api.py and the ValueError of
\* build_product_analytics that no interleaving can raise).
THEOREM PagesAnswer == Spec => []NoPageFails
<1>1. PagesInv => NoPageFails BY DEF PagesInv
<1> QED BY <1>1, InitPages, PagesStep, PTL DEF Spec

\* Each version on a page is in the lineage beside it, and the profile that was
\* used is in its own history: they are read later than what they back.
THEOREM HistoryBacks == Spec => []HistoryBacksPage
<1>1. PagesInv => HistoryBacksPage
  <2> SUFFICES ASSUME PagesInv, Answered PROVE HistoryBacksPage BY DEF HistoryBacksPage
  <2>1. page.kind \in Kinds /\ PageOK /\ page.status = "ok"
    BY DEF PagesInv, DashboardTypeOK, Page, Answered
  <2>2. /\ Past("rank") /\ Past("selected")
        /\ page.kind \in {"dashboard", "detail"} => Past("lineages")
        /\ page.kind = "dashboard" => Past("history")
    BY <2>1, AllPast DEF PageOK
  <2>3. ASSUME page.kind \in {"dashboard", "detail"}, NEW k \in page.cards
        PROVE  page.records[k] <= page.lineages[k]
    <3>1. Matched BY <2>1, <2>2 DEF PageOK, RankOK
    <3> QED BY <2>1, <2>2, <2>3, <3>1 DEF Matched, PageOK, LineagesOK
  <2>4. Full => page.listed <= page.selected /\ page.selected <= page.history
    BY <2>1, <2>2 DEF Full, PageOK, ProfileOK
  <2> QED BY <2>3, <2>4 DEF HistoryBacksPage
<1> QED BY <1>1, InitPages, PagesStep, PTL DEF Spec

\* New and changed records are all the current ones.
THEOREM CountsHold == Spec => []CountsAddUp
<1>1. PagesInv => CountsAddUp BY DEF PagesInv, PageOK, AnalyticsOK, CountsAddUp
<1> QED BY <1>1, InitPages, PagesStep, PTL DEF Spec

\* A deadline shown as ahead is not one of a record labelled expired: the
\* analytics read a later clock than the ranking.
THEOREM AheadHolds == Spec => []AheadIsNotExpired
<1>1. PagesInv => AheadIsNotExpired BY DEF PagesInv, PageOK, AnalyticsOK
<1> QED BY <1>1, InitPages, PagesStep, PTL DEF Spec

\* Evidence is of the version of the card or of a newer one.
THEOREM EvidenceHolds == Spec => []EvidenceIsNotOlder
<1>1. PagesInv => EvidenceIsNotOlder
  <2> SUFFICES ASSUME PagesInv, Answered, NEW k \in page.cards, page.evidence[k] # 0
               PROVE  page.records[k] <= page.evidence[k]
    BY DEF EvidenceIsNotOlder
  <2>1. k \in Keys BY DEF PagesInv, DashboardTypeOK, Page
  <2> QED BY <2>1 DEF PagesInv, PageOK, EvidenceOK
<1> QED BY <1>1, InitPages, PagesStep, PTL DEF Spec

\* The last success that the dashboard reports is not older than what it shows of the
\* runs that count as successes.
THEOREM FreshnessHolds == Spec => []FreshnessCoversPage
<1>1. PagesInv => FreshnessCoversPage
  <2> SUFFICES ASSUME PagesInv, Full PROVE FreshnessCoversPage BY DEF FreshnessCoversPage
  <2>1. page.kind \in Kinds /\ PageOK /\ page.status = "ok" /\ page.kind = "dashboard"
    BY DEF PagesInv, DashboardTypeOK, Page, Full, Answered
  <2>2. Past("freshness") BY <2>1, AllPast DEF PageOK
  <2> QED BY <2>1, <2>2 DEF PageOK, FreshnessOK, FreshnessCoversPage
<1> QED BY <1>1, InitPages, PagesStep, PTL DEF Spec

\* A label comes from match, on the version of the record and of the profile
\* that the page holds.
LEMMA LabelIsDecision ==
  ASSUME PagesInv, NEW k \in Keys, page.decided[k] # Undecided
  PROVE  /\ Reader \in Company /\ Says(k).notice \in Notice
         /\ \E passed \in BOOLEAN : page.decided[k] = Decision(Reader, Says(k).notice, passed)
<1>1. Past("rank") BY DEF PagesInv, PageOK, RankOK, Unranked
<1>2. Matched BY <1>1 DEF PagesInv, PageOK, RankOK
<1>3. k \in Ranked /\ k \in ProductKeys BY <1>2 DEF Matched
<1>4. page.selected \in 1..MaxProfile
  <2>1. page.selected # 0 BY <1>3 DEF Ranked
  <2>2. page.selected \in 0..MaxProfile BY DEF PagesInv, DashboardTypeOK, Page
  <2> QED BY <2>1, <2>2, DashboardAssumption
<1>5. Reader \in Company BY <1>4, DashboardAssumption DEF Reader
<1>6. Says(k).notice \in Notice BY <1>3, SaysType DEF RecordContent
<1>7. PICK now \in 0..clock :
        page.decided[k] = Decision(Reader, Says(k).notice, Passed(k, now))
  BY <1>2, <1>3 DEF Matched
<1>8. Passed(k, now) \in BOOLEAN BY DEF Passed
<1> QED BY <1>5, <1>6, <1>7, <1>8

\* Every recommendation on a page fits the company whose profile was used.
THEOREM RecommendationsFit == Spec => []RecommendedIsCertain
<1>1. PagesInv => RecommendedIsCertain
  <2> SUFFICES ASSUME PagesInv, NEW k \in Keys, page.decided[k] = "recommended"
               PROVE  Fits(Reader, Says(k).notice)
    BY DEF RecommendedIsCertain
  <2>1. page.decided[k] # Undecided BY DEF Undecided
  <2>2. Reader \in Company /\ Says(k).notice \in Notice BY <2>1, LabelIsDecision
  <2>3. PICK passed \in BOOLEAN :
          page.decided[k] = Decision(Reader, Says(k).notice, passed)
    BY <2>1, LabelIsDecision
  <2> QED BY <2>2, <2>3, RecommendedFits
<1> QED BY <1>1, InitPages, PagesStep, PTL DEF Spec

LEMMA LabelledNow ==
  ASSUME PagesInv, NEW k \in Labelled
  PROVE  /\ k \in Keys /\ Reader \in Company /\ Says(k).notice \in Notice
         /\ page.decided[k] = Decision(Reader, Says(k).notice, FALSE)
<1>1. k \in Keys /\ page.decided[k] # Undecided /\ page.decided[k] # "expired"
  BY DEF Labelled, Undecided
<1>2. Reader \in Company /\ Says(k).notice \in Notice BY <1>1, LabelIsDecision
<1>3. PICK passed \in BOOLEAN :
        page.decided[k] = Decision(Reader, Says(k).notice, passed)
  BY <1>1, LabelIsDecision
<1>4. ~passed BY <1>1, <1>3 DEF Decision
<1> QED BY <1>1, <1>2, <1>3, <1>4

\* A company with a wider reach would not be shown any record of the page as less
\* relevant, and a notice with more that speaks for it would not be either.
THEOREM WiderReachHolds == Spec => []WiderReachNeverHurts
<1>1. PagesInv => WiderReachNeverHurts
  <2> SUFFICES ASSUME PagesInv, NEW d \in Company, WiderReach(Reader, d), NEW k \in Labelled
               PROVE  Worth(page.decided[k]) <= Worth(Decision(d, Says(k).notice, FALSE))
    BY DEF WiderReachNeverHurts
  <2> QED BY LabelledNow, WiderReachMonotone
<1> QED BY <1>1, InitPages, PagesStep, PTL DEF Spec

\* More of what speaks for a notice would not make it less relevant on any page.
THEOREM EvidenceNeverHurtsHolds == Spec => []EvidenceNeverHurts
<1>1. PagesInv => EvidenceNeverHurts
  <2> SUFFICES ASSUME PagesInv, NEW k \in Labelled, NEW m \in Notice,
                      MoreEvidence(Says(k).notice, m)
               PROVE  Worth(page.decided[k]) <= Worth(Decision(Reader, m, FALSE))
    BY DEF EvidenceNeverHurts
  <2> QED BY LabelledNow, EvidenceMonotone
<1> QED BY <1>1, InitPages, PagesStep, PTL DEF Spec

\* A total on a page is of all the lots of the award: it would not be shown with
\* one more lot that has no amount or another currency (build_award_outcome).
THEOREM TotalsHold == Spec => []TotalsAreWhole
<1>1. PagesInv => TotalsAreWhole
  <2> SUFFICES ASSUME PagesInv, NEW k \in Keys, page.awards[k] # 0,
                      NEW lots, lots = Content[<<k, page.awards[k]>>].lots, NEW lot \in Lot
               PROVE  Total(Append(lots, lot)) =
                        IF /\ Total(lots) # Unknown /\ lot.amount # Unknown
                           /\ lot.currency = lots[1].currency
                        THEN Total(lots) + lot.amount ELSE Unknown
    BY DEF TotalsAreWhole
  <2>1. page.awards[k] \in Versions
    <3>1. page.awards[k] \in 0..MaxVersion BY DEF PagesInv, DashboardTypeOK, Page
    <3> QED BY <3>1, DashboardAssumption DEF Versions
  <2>2. Content[<<k, page.awards[k]>>] \in RecordContent BY <2>1, DashboardAssumption
  <2>3. lots \in LotLists BY <2>2 DEF RecordContent
  <2> QED BY <2>3, TotalOfAppend
<1> QED BY <1>1, InitPages, PagesStep, PTL DEF Spec
=============================================================================
