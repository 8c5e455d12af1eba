----------------------------- MODULE ReadProofs -----------------------------
(***************************************************************************)
(* What the read endpoints show, for any polls, any names and any table    *)
(* that ingests may leave: the windows of the queries and the choices of   *)
(* the routes pick from finitely many rows by keys that order them.        *)
(***************************************************************************)
EXTENDS PublicReads, FiniteSetTheorems, NaturalsInduction, SequenceTheorems, TLAPS

-----------------------------------------------------------------------------
(* Keys.                                                                   *)

Keys(n) == [1 .. n -> Int]

LEMMA BeatsNotItself == ASSUME NEW n \in Nat, NEW k \in Keys(n) PROVE ~ Beats(k, k)
BY DEF Beats, Keys

LEMMA BeatsOn ==
  ASSUME NEW n \in Nat, NEW a \in Keys(n), NEW b \in Keys(n), NEW c \in Keys(n),
         Beats(a, b), Beats(b, c)
  PROVE  Beats(a, c)
<1>1. PICK i \in 1 .. n : a[i] > b[i] /\ \A j \in 1 .. i - 1 : a[j] = b[j]
  BY DEF Beats, Keys
<1>2. PICK h \in 1 .. n : b[h] > c[h] /\ \A j \in 1 .. h - 1 : b[j] = c[j]
  BY DEF Beats, Keys
<1>3. CASE i <= h
  <2>1. a[i] > c[i] /\ \A j \in 1 .. i - 1 : a[j] = c[j]
    BY <1>1, <1>2, <1>3 DEF Keys
  <2>2. QED
    BY <2>1 DEF Beats, Keys
<1>4. CASE h < i
  <2>1. a[h] > c[h] /\ \A j \in 1 .. h - 1 : a[j] = c[j]
    BY <1>1, <1>2, <1>4 DEF Keys
  <2>2. QED
    BY <2>1 DEF Beats, Keys
<1>5. QED
  BY <1>3, <1>4

LEMMA BeatsAtFirst ==
  ASSUME NEW a2, NEW a3, NEW a4, NEW a5, NEW b2, NEW b3, NEW b4, NEW b5
  PROVE  Beats(<<1, a2, a3, a4, a5>>, <<0, b2, b3, b4, b5>>)
<1>1. 1 \in DOMAIN <<1, a2, a3, a4, a5>> /\ 1 .. 1 - 1 = {} /\ 1 > 0
  OBVIOUS
<1>2. <<1, a2, a3, a4, a5>>[1] = 1 /\ <<0, b2, b3, b4, b5>>[1] = 0
  OBVIOUS
<1>3. QED
  BY <1>1, <1>2 DEF Beats

\* Keys that differ do so somewhere first.
LEMMA FirstDifference ==
  ASSUME NEW n \in Nat, NEW a \in Keys(n), NEW b \in Keys(n), a # b
  PROVE  \E i \in 1 .. n : a[i] # b[i] /\ \A j \in 1 .. i - 1 : a[j] = b[j]
<1> DEFINE D == {i \in 1 .. n : a[i] # b[i]}
           R == OpToRel(<, Nat)
<1>1. D \subseteq Nat /\ D # {}
  BY DEF Keys
<1>2. PICK i \in D : \A j \in D : <<j, i>> \notin R
  <2>1. IsWellFoundedOn(R, Nat)
    BY NatLessThanWellFounded, Zenon
  <2> HIDE DEF D, R
  <2>2. QED
    BY <1>1, <2>1, WFMin
<1>3. ASSUME NEW j \in 1 .. i - 1 PROVE a[j] = b[j]
  <2>1. j \in 1 .. n /\ j < i /\ i \in Nat /\ j \in Nat
    <3>1. i \in 1 .. n
      OBVIOUS
    <3> HIDE DEF D, R
    <3>2. QED
      BY <3>1
  <2>2. <<j, i>> \in R
    BY <2>1 DEF OpToRel
  <2>3. QED
    BY <1>2, <2>1, <2>2
<1>4. QED
  BY <1>2, <1>3

LEMMA BeatsTotal ==
  ASSUME NEW n \in Nat, NEW a \in Keys(n), NEW b \in Keys(n)
  PROVE  a = b \/ Beats(a, b) \/ Beats(b, a)
<1>1. CASE a # b
  <2>1. PICK i \in 1 .. n : a[i] # b[i] /\ \A j \in 1 .. i - 1 : a[j] = b[j]
    BY <1>1, FirstDifference
  <2>2. a[i] > b[i] \/ b[i] > a[i]
    BY <2>1 DEF Keys
  <2>3. QED
    BY <2>1, <2>2 DEF Beats, Keys
<1>2. QED
  BY <1>1

LEMMA UnbeatenOn ==
  ASSUME NEW n \in Nat, NEW a \in Keys(n), NEW b \in Keys(n), NEW c \in Keys(n),
         ~ Beats(a, b), ~ Beats(b, c)
  PROVE  ~ Beats(a, c)
BY BeatsTotal, BeatsOn, BeatsNotItself

\* What beats by a key beats by a longer one.
LEMMA BeatsLonger ==
  ASSUME NEW n \in Nat, NEW m \in Nat, n <= m,
         NEW a \in Keys(n), NEW b \in Keys(n), NEW c \in Keys(m), NEW d \in Keys(m),
         \A i \in 1 .. n : c[i] = a[i] /\ d[i] = b[i], Beats(a, b)
  PROVE  Beats(c, d)
<1>1. PICK i \in 1 .. n : a[i] > b[i] /\ \A j \in 1 .. i - 1 : a[j] = b[j]
  BY DEF Beats, Keys
<1>2. i \in 1 .. m /\ c[i] > d[i] /\ \A j \in 1 .. i - 1 : c[j] = d[j]
  BY <1>1
<1>3. QED
  BY <1>2 DEF Beats, Keys

\* Of finitely many things with keys, one is beaten by none.
LEMMA UnbeatenExists ==
  ASSUME NEW S, IsFiniteSet(S), S # {}, NEW n \in Nat, NEW key \in [S -> Keys(n)]
  PROVE  \E x \in S : \A y \in S : ~ Beats(key[y], key[x])
<1> DEFINE Before(x) == {y \in S : Beats(key[y], key[x])}
           T == {Before(x) : x \in S}
           R == StrictSubsetOrdering(S)
<1>1. T \subseteq SUBSET S /\ T # {}
  OBVIOUS
<1>2. T \subseteq FiniteSubsetsOf(S)
  BY <1>1, FS_FiniteSubsetsOfFinite
<1>3. PICK B \in T : \A U \in T : <<U, B>> \notin R
  <2>1. IsWellFoundedOn(R, FiniteSubsetsOf(S))
    BY FS_StrictSubsetOrderingWellFounded
  <2> HIDE DEF T, R
  <2>2. QED
    BY <1>1, <1>2, <2>1, WFMin
<1>4. PICK x \in S : B = Before(x)
  BY <1>3
<1>5. ASSUME NEW y \in S, Beats(key[y], key[x]) PROVE FALSE
  <2>1. Before(y) \subseteq Before(x)
    <3>1. \A z \in Before(y) : Beats(key[z], key[x])
      BY <1>5, BeatsOn
    <3>2. QED
      BY <3>1
  <2>2. y \in Before(x) /\ y \notin Before(y)
    BY <1>5, BeatsNotItself
  <2>3. Before(y) \in SUBSET S /\ Before(x) \in SUBSET S /\ Before(y) # Before(x)
    BY <2>2
  <2>4. <<Before(y), Before(x)>> \in R
    BY <2>1, <2>3 DEF StrictSubsetOrdering
  <2>5. QED
    BY <1>3, <1>4, <2>4
<1>6. QED
  BY <1>5

-----------------------------------------------------------------------------
(* The table: finitely many rows of finitely many options, each under an   *)
(* id of its own.                                                          *)

TableOK(t) ==
  /\ IsFiniteSet(t) /\ t \subseteq ObservationRow
  /\ \A o \in t : IsFiniteSet(o.options)
  /\ \A o, q \in t : o.id = q.id => o = q

TableInv ==
  /\ TableOK(table) /\ family \in Families
  /\ \A o \in table : o.id <= Cardinality(table)

LEMMA TableNext == TableInv /\ [Next]_vars => TableInv' /\ TableOK(table')
<1> SUFFICES ASSUME TableInv, [Next]_vars PROVE TableInv'
  BY DEF TableInv
<1>1. Cardinality(table) \in Nat
  BY FS_CardinalityType DEF TableInv, TableOK
<1>2. ASSUME NEW o \in Polls[family], StoreNew(o) PROVE TableInv'
  <2>1. PICK row : row = [o EXCEPT !.id = Cardinality(table) + 1]
    OBVIOUS
  <2>2. o \in ObservationRow /\ IsFiniteSet(o.options)
    BY ReadsAssumption DEF TableInv
  <2>3. row \in ObservationRow /\ row.options = o.options /\ row.id = Cardinality(table) + 1
    BY <1>1, <2>1, <2>2 DEF ObservationRow
  <2>4. table' = table \cup {row} /\ family' = family
    BY <1>2, <2>1 DEF StoreNew
  <2>5. \A q \in table : q.id <= Cardinality(table) /\ q.id \in Nat
    BY DEF TableInv, TableOK, ObservationRow
  <2>6. row \notin table
    BY <1>1, <2>3, <2>5
  <2>7. IsFiniteSet(table') /\ Cardinality(table') = Cardinality(table) + 1
    BY <2>4, <2>6, FS_AddElement DEF TableInv, TableOK
  <2>8. \A p, q \in table' : p.id = q.id => p = q
    BY <1>1, <2>3, <2>4, <2>5 DEF TableInv, TableOK
  <2>9. \A q \in table' : q.id <= Cardinality(table')
    BY <1>1, <2>3, <2>4, <2>5, <2>7
  <2>10. QED
    BY <2>2, <2>3, <2>4, <2>7, <2>8, <2>9 DEF TableInv, TableOK
<1>3. ASSUME NEW o \in Polls[family], StoreAgain(o) PROVE TableInv'
  <2>1. PICK q \in table :
          table' = (table \ {q}) \cup {[o EXCEPT !.id = q.id, !.channels = @ \cup q.channels]}
    BY <1>3 DEF StoreAgain
  <2>2. PICK row : row = [o EXCEPT !.id = q.id, !.channels = @ \cup q.channels]
    OBVIOUS
  <2>3. o \in ObservationRow /\ q \in ObservationRow /\ IsFiniteSet(o.options)
    BY ReadsAssumption DEF TableInv, TableOK
  <2>4. row \in ObservationRow /\ row.options = o.options /\ row.id = q.id
    BY <2>2, <2>3 DEF ObservationRow
  <2>5. table' = (table \ {q}) \cup {row} /\ family' = family
    BY <1>3, <2>1, <2>2 DEF StoreAgain
  <2>6. row \notin table \ {q}
    BY <2>4 DEF TableInv, TableOK
  <2>7. IsFiniteSet(table') /\ Cardinality(table') = Cardinality(table)
    <3>1. IsFiniteSet(table \ {q}) /\ Cardinality(table \ {q}) = Cardinality(table) - 1
      BY FS_RemoveElement DEF TableInv, TableOK
    <3>2. QED
      BY <1>1, <2>5, <2>6, <3>1, FS_AddElement
  <2>8. \A p, x \in table' : p.id = x.id => p = x
    BY <2>4, <2>5 DEF TableInv, TableOK
  <2>9. \A x \in table' : x.id <= Cardinality(table')
    BY <2>4, <2>5, <2>7 DEF TableInv
  <2>10. QED
    BY <2>3, <2>4, <2>5, <2>7, <2>8, <2>9 DEF TableInv, TableOK
<1>4. ASSUME table' = table, family' = family PROVE TableInv'
  BY <1>4 DEF TableInv, TableOK
<1>5. QED
  BY <1>2, <1>3, <1>4 DEF Next, ViewMatchup, Decide, Tick, vars

LEMMA TableInvariance == Spec => []TableInv
<1>1. Init => TableInv
  BY FS_EmptySet DEF Init, TableInv, TableOK
<1>2. QED
  BY <1>1, TableNext, PTL DEF Spec

LEMMA JoinedFinite == ASSUME NEW t, TableOK(t) PROVE IsFiniteSet(Joined(t))
<1> DEFINE Rows(o) == {[obs |-> o, opt |-> p] : p \in o.options}
           T == {Rows(o) : o \in t}
<1>1. IsFiniteSet(T)
  <2> DEFINE f == [o \in t |-> Rows(o)]
  <2>1. f \in Surjection(t, T)
    BY DEF Surjection
  <2>2. QED
    BY <2>1, FS_Surjection DEF TableOK
<1>2. ASSUME NEW o \in t PROVE IsFiniteSet(Rows(o))
  <2> DEFINE f == [p \in o.options |-> [obs |-> o, opt |-> p]]
  <2>1. f \in Surjection(o.options, Rows(o))
    BY DEF Surjection
  <2>2. QED
    BY <2>1, FS_Surjection DEF TableOK
<1>3. \A R \in T : IsFiniteSet(R)
  BY <1>2
<1>4. QED
  <2> HIDE DEF T
  <2>1. IsFiniteSet(UNION T)
    BY <1>1, <1>3, FS_UNION
  <2>2. QED
    BY <2>1 DEF Joined, T

LEMMA JoinedRows ==
  ASSUME NEW t, TableOK(t), NEW j \in Joined(t)
  PROVE  /\ j.obs \in t /\ j.obs \in ObservationRow
         /\ j.opt \in j.obs.options /\ j.opt \in OptionRow
BY DEF Joined, TableOK, ObservationRow

-----------------------------------------------------------------------------
(* The dashboard.                                                          *)

LEMMA FirstSetType ==
  ASSUME NEW n \in Nat, NEW s \in [1 .. n -> Nat]
  PROVE  FirstSet(s) \in Nat
<1>1. CASE \A i \in 1 .. n : s[i] = 0
  BY <1>1 DEF FirstSet
<1>2. CASE \E i \in 1 .. n : s[i] # 0
  <2> DEFINE zero == [i \in 1 .. n |-> 0]
             P(i) == s[i] # 0 /\ \A j \in 1 .. i - 1 : s[j] = 0
  <2>1. s \in Keys(n) /\ zero \in Keys(n) /\ s # zero
    BY <1>2 DEF Keys
  <2>2. PICK i \in 1 .. n : s[i] # zero[i] /\ \A j \in 1 .. i - 1 : s[j] = zero[j]
    <3> HIDE DEF zero
    <3>1. QED
      BY <2>1, FirstDifference
  <2>3. P(i)
    BY <2>2
  <2>4. PICK c \in 1 .. n : c = CHOOSE k \in 1 .. n : P(k)
    <3> HIDE DEF P
    <3>1. QED
      BY <2>3
  <2>5. FirstSet(s) = s[c]
    <3>1. DOMAIN s = 1 .. n
      OBVIOUS
    <3>2. QED
      BY <1>2, <2>4, <3>1, Zenon DEF FirstSet
  <2>6. QED
    BY <2>5
<1>3. QED
  BY <1>1, <1>2

LEMMA FirstSetTwo == ASSUME NEW a \in Nat, NEW b \in Nat PROVE FirstSet(<<a, b>>) \in Nat
<1>1. <<a, b>> \in [1 .. 2 -> Nat] /\ 2 \in Nat
  OBVIOUS
<1>2. QED
  BY <1>1, FirstSetType, Zenon

\* The keys by which the summary chooses.
LEMMA SummaryKeys ==
  ASSUME NEW t, TableOK(t), NEW j \in Joined(t)
  PROVE  \E c \in {0, 1}, g \in Nat, d \in Nat, u \in Nat, i \in Nat, l \in {0, 1} :
           /\ c = IF IsNesdc(j.obs) THEN 1 ELSE 0
           /\ Policy(j.obs) = <<c, g, d, u>>
           /\ SummaryRank(j) = <<c, g, d, u, i>>
           /\ SingleSetKey(j) = <<c, g, d, u, l>>
<1>1. j.obs \in ObservationRow
  BY JoinedRows
<1>2. /\ j.obs.grade \in Nat /\ j.obs.updated \in Nat /\ j.obs.id \in Nat
      /\ j.obs.release \in Nat /\ j.obs.published \in Nat
  BY <1>1 DEF ObservationRow
<1>3. PICK c \in {0, 1} : c = IF IsNesdc(j.obs) THEN 1 ELSE 0
  OBVIOUS
<1>4. PICK d \in Nat : d = FirstSet(<<j.obs.release, j.obs.published>>)
  BY <1>2, FirstSetTwo
<1>5. PICK l \in {0, 1} : l = IF j.opt.type = "presidential_approval" THEN 0 ELSE 1
  OBVIOUS
<1>7. Policy(j.obs) = <<c, j.obs.grade, d, j.obs.updated>>
  BY <1>3, <1>4, Zenon DEF Policy
<1>8. SummaryRank(j) = <<c, j.obs.grade, d, j.obs.updated, j.obs.id>>
  BY <1>3, <1>4, Zenon DEF SummaryRank
<1>9. SingleSetKey(j) = <<c, j.obs.grade, d, j.obs.updated, l>>
  BY <1>3, <1>4, <1>5, Zenon DEF SingleSetKey
<1>10. QED
  BY <1>2, <1>3, <1>7, <1>8, <1>9, Zenon

\* Whatever is in the table: where a point of a trend is official, so is the card of the
\* name, as the query of the summary puts an official poll before any other.
THEOREM OfficialTheorem == Spec => []CardAsOfficialAsTrend
<1>1. ASSUME TableOK(table),
             NEW p \in GetTrends(table, "party_support", "national", "", 1),
             NEW c \in GetDashboardSummary(table, 0),
             p.opt.name = c.opt.name, c.opt.type = "party_support", IsNesdc(p.obs)
      PROVE  IsNesdc(c.obs)
  <2>1. /\ p \in Joined(table) /\ p.opt.type = "party_support" /\ p.obs.verified
        /\ p.obs.scope = "national"
    BY DEF GetTrends, FetchTrends, FirstOf
  <2>2. c \in FetchDashboardSummary(table, 0) /\ c.obs.scope = "national"
    BY DEF GetDashboardSummary, SummaryEligible, FirstOf
  <2>3. ~ Beats(SummaryRank(p), SummaryRank(c)) /\ c \in Joined(table)
    BY <1>1, <2>1, <2>2 DEF FetchDashboardSummary, FirstOf, SummaryTypes, Upto
  <2>4. TableOK(table) /\ p \in Joined(table) /\ c \in Joined(table)
    BY <1>1, <2>1, <2>3
  <2>5. PICK x1 \in {0, 1}, x2 \in Nat, x3 \in Nat, x4 \in Nat, x5 \in Nat, x6 \in {0, 1} :
          /\ x1 = IF IsNesdc(p.obs) THEN 1 ELSE 0
          /\ Policy(p.obs) = <<x1, x2, x3, x4>>
          /\ SummaryRank(p) = <<x1, x2, x3, x4, x5>>
          /\ SingleSetKey(p) = <<x1, x2, x3, x4, x6>>
    BY <2>4, SummaryKeys
  <2>6. PICK y1 \in {0, 1}, y2 \in Nat, y3 \in Nat, y4 \in Nat, y5 \in Nat, y6 \in {0, 1} :
          /\ y1 = IF IsNesdc(c.obs) THEN 1 ELSE 0
          /\ Policy(c.obs) = <<y1, y2, y3, y4>>
          /\ SummaryRank(c) = <<y1, y2, y3, y4, y5>>
          /\ SingleSetKey(c) = <<y1, y2, y3, y4, y6>>
    BY <2>4, SummaryKeys
  <2>7. QED
    BY <1>1, <2>3, <2>5, <2>6, BeatsAtFirst
<1>2. TableInv => CardAsOfficialAsTrend
  BY <1>1 DEF CardAsOfficialAsTrend, TableInv
<1>3. QED
  BY <1>2, TableInvariance, PTL

\* The query and the route choose one after the other by one policy, over the whole table:
\* what a card leaves behind is no better by it, unless the cutoff came in between.
THEOREM SummaryTheorem == Spec => []SummaryFollowsPolicy
<1>1. ASSUME TableOK(table), NEW j \in NationalRows, CutoffEligible(j.obs)
      PROVE  \/ \E c \in GetDashboardSummary(table, 0) :
                  SameCard(c, j) /\ ~ Beats(Policy(j.obs), Policy(c.obs))
             \/ \E k \in NationalRows :
                  /\ ~ CutoffEligible(k.obs)
                  /\ k.opt.name = j.opt.name /\ k.opt.type = j.opt.type
                  /\ ~ Beats(Policy(j.obs), Policy(k.obs))
  <2> DEFINE S == {k \in NationalRows : k.opt.name = j.opt.name /\ k.opt.type = j.opt.type}
             C == {c \in SummaryEligible(table, 0) : c.obs.scope = "national" /\ SameCard(c, j)}
  <2>1. S \subseteq Joined(table) /\ IsFiniteSet(S) /\ j \in S
    <3>1. S \in SUBSET Joined(table)
      BY DEF NationalRows
    <3>2. QED
      BY <1>1, <3>1, JoinedFinite, FS_Subset
  <2>2. PICK k \in S : \A i \in S : ~ Beats(SummaryRank(i), SummaryRank(k))
    <3> DEFINE key == [i \in S |-> SummaryRank(i)]
    <3>1. ASSUME NEW i \in S PROVE SummaryRank(i) \in Keys(5)
      <4>1. PICK a \in {0, 1}, b \in Nat, c \in Nat, d \in Nat, e \in Nat :
              SummaryRank(i) = <<a, b, c, d, e>>
        <5>1. i \in Joined(table)
          BY <2>1
        <5>2. QED
          BY <1>1, <5>1, SummaryKeys
      <4>2. QED
        BY <4>1 DEF Keys
    <3>2. key \in [S -> Keys(5)]
      BY <3>1
    <3>3. \E i \in S : \A h \in S : ~ Beats(key[h], key[i])
      <4> HIDE DEF key, S
      <4>1. QED
        BY <2>1, <3>2, UnbeatenExists
    <3>4. QED
      BY <3>3
  <2>3. k \in FetchDashboardSummary(table, 0)
    <3>1. /\ k \in Joined(table) /\ k.opt.type \in SummaryTypes /\ k.obs.verified
          /\ k.obs.scope = "national" /\ Upto(k.obs, 0)
      BY DEF NationalRows, Upto
    <3>2. ASSUME NEW i \in Joined(table), i.opt.type \in SummaryTypes, i.obs.verified,
                 <<i.opt.type, i.opt.name, i.obs.scope>> = <<k.opt.type, k.opt.name, k.obs.scope>>
          PROVE  ~ Beats(SummaryRank(i), SummaryRank(k))
      BY <2>2, <3>1, <3>2 DEF NationalRows
    <3>3. QED
      BY <3>1, <3>2, Zenon DEF FetchDashboardSummary, FirstOf
  <2>4. ~ Beats(Policy(j.obs), Policy(k.obs))
    <3>0. j \in Joined(table) /\ k \in Joined(table)
      BY <2>1
    <3>1. PICK a \in {0, 1}, b \in Nat, c \in Nat, d \in Nat, e \in Nat :
            Policy(j.obs) = <<a, b, c, d>> /\ SummaryRank(j) = <<a, b, c, d, e>>
      BY <1>1, <3>0, SummaryKeys
    <3>2. PICK p \in {0, 1}, q \in Nat, r \in Nat, s \in Nat, u \in Nat :
            Policy(k.obs) = <<p, q, r, s>> /\ SummaryRank(k) = <<p, q, r, s, u>>
      BY <1>1, <3>0, SummaryKeys
    <3>3. Beats(<<a, b, c, d>>, <<p, q, r, s>>) => Beats(<<a, b, c, d, e>>, <<p, q, r, s, u>>)
      BY DEF Beats
    <3>4. QED
      BY <2>1, <2>2, <3>1, <3>2, <3>3
  <2>5. CASE CutoffEligible(k.obs)
    <3>1. k \in C
      BY <2>3, <2>5 DEF SummaryEligible, SameCard, Bucket, NationalRows
    <3>2. C \subseteq Joined(table) /\ IsFiniteSet(C)
      <4>1. C \in SUBSET Joined(table)
        BY DEF SummaryEligible, FetchDashboardSummary, FirstOf
      <4>2. QED
        BY <1>1, <4>1, JoinedFinite, FS_Subset
    <3>3. PICK c \in C : \A i \in C : ~ Beats(SingleSetKey(i), SingleSetKey(c))
      <4> DEFINE key == [i \in C |-> SingleSetKey(i)]
      <4>1. ASSUME NEW i \in C PROVE SingleSetKey(i) \in Keys(5)
        <5>1. PICK a \in {0, 1}, b \in Nat, f \in Nat, d \in Nat, e \in {0, 1} :
                SingleSetKey(i) = <<a, b, f, d, e>>
          <6>1. i \in Joined(table)
            BY <3>2
          <6>2. QED
            BY <1>1, <6>1, SummaryKeys
        <5>2. QED
          BY <5>1 DEF Keys
      <4>2. key \in [C -> Keys(5)]
        BY <4>1
      <4>3. \E i \in C : \A h \in C : ~ Beats(key[h], key[i])
        <5> HIDE DEF key, C
        <5>1. QED
          BY <3>1, <3>2, <4>2, UnbeatenExists
      <4>4. QED
        BY <4>3
    <3>4. c \in GetDashboardSummary(table, 0)
      <4>1. c \in SummaryEligible(table, 0) /\ c.obs.scope = "national"
        OBVIOUS
      <4>2. ASSUME NEW i \in SummaryEligible(table, 0), i.obs.scope = "national",
                   <<Bucket(i.opt), i.opt.name>> = <<Bucket(c.opt), c.opt.name>>
            PROVE  ~ Beats(SingleSetKey(i), SingleSetKey(c))
        BY <3>3, <4>2 DEF SameCard
      <4>3. QED
        BY <4>1, <4>2, Zenon DEF GetDashboardSummary, FirstOf
    <3>0. j \in Joined(table) /\ k \in Joined(table) /\ c \in Joined(table)
      BY <2>1, <3>2
    <3>5. PICK a \in {0, 1}, b \in Nat, f \in Nat, d \in Nat : Policy(j.obs) = <<a, b, f, d>>
      BY <1>1, <3>0, SummaryKeys
    <3>6. PICK p \in {0, 1}, q \in Nat, r \in Nat, s \in Nat, u \in {0, 1} :
            Policy(k.obs) = <<p, q, r, s>> /\ SingleSetKey(k) = <<p, q, r, s, u>>
      BY <1>1, <3>0, SummaryKeys
    <3>7. PICK v \in {0, 1}, w \in Nat, x \in Nat, y \in Nat, z \in {0, 1} :
            Policy(c.obs) = <<v, w, x, y>> /\ SingleSetKey(c) = <<v, w, x, y, z>>
      BY <1>1, <3>0, SummaryKeys
    <3>8. Beats(<<p, q, r, s>>, <<v, w, x, y>>) => Beats(<<p, q, r, s, u>>, <<v, w, x, y, z>>)
      BY DEF Beats
    <3>9. ~ Beats(Policy(k.obs), Policy(c.obs))
      BY <3>1, <3>3, <3>6, <3>7, <3>8
    <3>10. /\ Policy(j.obs) \in Keys(4) /\ Policy(k.obs) \in Keys(4)
           /\ Policy(c.obs) \in Keys(4)
      BY <3>5, <3>6, <3>7 DEF Keys
    <3>11. ~ Beats(Policy(j.obs), Policy(c.obs))
      BY <2>4, <3>9, <3>10, UnbeatenOn
    <3>12. QED
      BY <3>4, <3>11
  <2>6. CASE ~ CutoffEligible(k.obs)
    BY <2>4, <2>6
  <2>7. QED
    BY <2>5, <2>6
<1>2. TableInv => SummaryFollowsPolicy
  BY <1>1 DEF SummaryFollowsPolicy, TableInv
<1>3. QED
  BY <1>2, TableInvariance, PTL

-----------------------------------------------------------------------------
(* The matchup page.                                                       *)

LEMMA RecentRows ==
  ASSUME NEW t, NEW m, TableOK(t)
  PROVE  IsFiniteSet(RecentObservations(t, m)) /\ RecentObservations(t, m) \subseteq t
<1>1. RecentObservations(t, m) \in SUBSET t
  BY DEF RecentObservations, TopRows
<1>2. QED
  BY <1>1, FS_Subset DEF TableOK

\* The score of a poll; nothing to show is the worst.
LEMMA ScoreKey ==
  ASSUME NEW t, TableOK(t), NEW o \in t
  PROVE  \E a \in Nat, b \in Nat, c \in Nat, d \in Nat :
           /\ QualityScore(o) = <<a, b, c, d>>
           /\ ValidOptions(o) = {} => a = 0 /\ b = 0 /\ c = 0 /\ d = 0
<1> DEFINE V == ValidOptions(o)
           keys == ScenarioKeys(V)
<1>1. IsFiniteSet(V) /\ Cardinality(V) \in Nat /\ (V = {} => Cardinality(V) = 0)
  <2>1. V \in SUBSET o.options
    BY DEF ValidOptions
  <2>2. QED
    BY <2>1, FS_Subset, FS_CardinalityType, FS_EmptySet DEF TableOK
<1>2. IsFiniteSet(keys) /\ Cardinality(keys) \in Nat
  <2> DEFINE f == [p \in V |-> p.scenario]
  <2>1. f \in Surjection(V, keys)
    BY DEF Surjection, ScenarioKeys
  <2> HIDE DEF f, V, keys
  <2>2. QED
    BY <1>1, <2>1, FS_Surjection, FS_CardinalityType
<1>3. V = {} => keys = {} /\ Cardinality(keys) = 0
  BY FS_EmptySet DEF ScenarioKeys
<1>4. PICK a \in Nat : a = IF Cardinality(keys) >= 3 THEN 1 ELSE 0
  OBVIOUS
<1>5. PICK b \in Nat : b = IF keys \ {"default"} # {} THEN 1 ELSE 0
  OBVIOUS
<1>6. QualityScore(o) = <<a, b, Cardinality(keys), Cardinality(V)>>
  BY <1>4, <1>5, Zenon DEF QualityScore
<1>7. V = {} => a = 0 /\ b = 0
  <2> HIDE DEF keys, V
  <2>1. QED
    BY <1>2, <1>3, <1>4, <1>5
<1>8. QED
  BY <1>1, <1>2, <1>3, <1>6, <1>7, Zenon

LEMMA FourNumbers ==
  ASSUME NEW a \in Int, NEW b \in Int, NEW c \in Int, NEW d \in Int
  PROVE  <<a, b, c, d>> \in Seq(Int) /\ Len(<<a, b, c, d>>) = 4
OBVIOUS

LEMMA TwoNumbers ==
  ASSUME NEW a \in Int, NEW b \in Int
  PROVE  <<a, b>> \in Seq(Int) /\ Len(<<a, b>>) = 2
OBVIOUS

LEMMA OneNumber ==
  ASSUME NEW a \in Int
  PROVE  <<a>> \in Seq(Int) /\ Len(<<a>>) = 1
OBVIOUS

\* A key continued is a key that begins like it.
LEMMA KeyOn ==
  ASSUME NEW s \in Seq(Int), NEW r \in Seq(Int), NEW m \in Nat, NEW n \in Nat,
         Len(s) = m, Len(r) = n
  PROVE  s \o r \in Keys(m + n) /\ s \in Keys(m) /\ \A i \in 1 .. m : (s \o r)[i] = s[i]
<1>1. s \o r \in Seq(Int) /\ Len(s \o r) = m + n
  BY ConcatProperties
<1>2. ASSUME NEW i \in 1 .. m PROVE (s \o r)[i] = s[i]
  <2>1. i \in 1 .. Len(s) + Len(r) /\ i <= Len(s)
    OBVIOUS
  <2>2. QED
    BY <2>1, ConcatProperties
<1>3. \A q \in Seq(Int) : q \in [1 .. Len(q) -> Int]
  BY LenProperties
<1>4. QED
  BY <1>1, <1>2, <1>3 DEF Keys

LEMMA WholeKey ==
  ASSUME NEW t, TableOK(t), NEW o \in t
  PROVE  /\ QualityScore(o) \in Keys(4) /\ QualityScore(o) \o NewestFirst(o) \in Keys(6)
         /\ \A i \in 1 .. 4 : (QualityScore(o) \o NewestFirst(o))[i] = QualityScore(o)[i]
<1>1. PICK a \in Nat, b \in Nat, c \in Nat, d \in Nat : QualityScore(o) = <<a, b, c, d>>
  BY ScoreKey
<1>2. o.survey \in Nat /\ o.id \in Nat
  BY DEF TableOK, ObservationRow
<1>3. NewestFirst(o) = <<o.survey, o.id>>
  BY DEF NewestFirst
<1>4. QualityScore(o) \in Seq(Int) /\ Len(QualityScore(o)) = 4
  BY <1>1, FourNumbers
<1>5. NewestFirst(o) \in Seq(Int) /\ Len(NewestFirst(o)) = 2
  BY <1>2, <1>3, TwoNumbers
<1>6. ASSUME NEW s \in Seq(Int), NEW r \in Seq(Int), Len(s) = 4, Len(r) = 2
      PROVE  s \o r \in Keys(6) /\ s \in Keys(4) /\ \A i \in 1 .. 4 : (s \o r)[i] = s[i]
  <2>1. s \o r \in Keys(4 + 2) /\ s \in Keys(4) /\ \A i \in 1 .. 4 : (s \o r)[i] = s[i]
    <3>1. 4 \in Nat /\ 2 \in Nat
      OBVIOUS
    <3>2. QED
      BY <1>6, <3>1, KeyOn, Zenon
  <2>2. 4 + 2 = 6
    OBVIOUS
  <2>3. QED
    BY <2>1, <2>2, Zenon
<1>7. QED
  BY <1>4, <1>5, <1>6, Zenon

\* What can be shown is shown, and nothing beats the score of the poll that is.
LEMMA SelectedShows ==
  ASSUME NEW t, TableOK(t), NEW R, R \subseteq t, IsFiniteSet(R), NEW x \in R, ValidOptions(x) # {}
  PROVE  /\ SelectedObservation(R) \in R
         /\ ValidOptions(SelectedObservation(R)) # {}
         /\ \A o \in R : ~ Beats(QualityScore(o), QualityScore(SelectedObservation(R)))
<1> DEFINE S == {o \in R : ValidOptions(o) # {}}
           Key(o) == QualityScore(o) \o NewestFirst(o)
           L == {o \in S : \A y \in S : ~ Beats(Key(y), Key(o))}
<1>1. IsFiniteSet(S) /\ x \in S /\ S \subseteq t
  <2>1. S \in SUBSET R
    OBVIOUS
  <2>2. QED
    BY <2>1, FS_Subset
<1>2. L # {}
  <2> DEFINE key == [o \in S |-> Key(o)]
  <2>1. ASSUME NEW o \in S PROVE Key(o) \in Keys(6)
    BY <1>1, <2>1, WholeKey
  <2>2. key \in [S -> Keys(6)]
    BY <2>1
  <2>3. \E o \in S : \A y \in S : ~ Beats(key[y], key[o])
    <3> HIDE DEF key, S
    <3>1. QED
      BY <1>1, <2>2, UnbeatenExists
  <2>4. QED
    BY <2>3
<1>3. SelectedObservation(R) = CHOOSE o \in L : TRUE
  BY <1>1 DEF SelectedObservation, Leading
<1>4. PICK sel \in L : sel = SelectedObservation(R)
  <2> HIDE DEF L
  <2>1. QED
    BY <1>2, <1>3
<1>5. ASSUME NEW o \in R PROVE ~ Beats(QualityScore(o), QualityScore(sel))
  <2>1. o \in t /\ sel \in t /\ sel \in S
    BY <1>1, <1>4
  <2>2. /\ QualityScore(o) \in Keys(4) /\ QualityScore(sel) \in Keys(4)
        /\ Key(o) \in Keys(6) /\ Key(sel) \in Keys(6)
        /\ \A i \in 1 .. 4 : Key(o)[i] = QualityScore(o)[i] /\ Key(sel)[i] = QualityScore(sel)[i]
    BY <2>1, WholeKey
  <2>3. CASE ValidOptions(o) = {}
    <3>1. QualityScore(o) = <<0, 0, 0, 0>>
      BY <2>1, <2>3, ScoreKey
    <3>2. PICK p \in Nat, q \in Nat, r \in Nat, s \in Nat : QualityScore(sel) = <<p, q, r, s>>
      BY <2>1, ScoreKey
    <3>3. ~ Beats(<<0, 0, 0, 0>>, <<p, q, r, s>>)
      BY DEF Beats
    <3>4. QED
      BY <3>1, <3>2, <3>3
  <2>4. CASE ValidOptions(o) # {}
    <3>1. ~ Beats(Key(o), Key(sel))
      BY <1>4, <2>4
    <3> HIDE DEF Key
    <3>2. QED
      BY <2>2, <3>1, BeatsLonger
  <2>5. QED
    BY <2>3, <2>4
<1>6. QED
  BY <1>4, <1>5

\* Even with nothing to show, it is one of the recent polls.
LEMMA SelectedRecent ==
  ASSUME NEW t, TableOK(t), NEW R, R \subseteq t, IsFiniteSet(R), R # {}
  PROVE  SelectedObservation(R) \in R
<1> DEFINE S == {o \in R : NoiseBlocked(o) > 0}
           Key(o) == <<NoiseBlocked(o)>> \o NewestFirst(o)
           LS == {o \in S : \A y \in S : ~ Beats(Key(y), Key(o))}
           LR == {o \in R : \A y \in R : ~ Beats(NewestFirst(y), NewestFirst(o))}
<1>1. IsFiniteSet(S)
  <2>1. S \in SUBSET R
    OBVIOUS
  <2>2. QED
    BY <2>1, FS_Subset
<1>2. S # {} => LS # {}
  <2> DEFINE key == [o \in S |-> Key(o)]
  <2>1. ASSUME NEW o \in S PROVE Key(o) \in Keys(3)
    <3>1. NoiseBlocked(o) \in Nat
      <4>1. {p \in o.options : p.ok /\ p.name \in Noise} \in SUBSET o.options /\ IsFiniteSet(o.options)
        BY DEF TableOK
      <4>2. QED
        BY <4>1, FS_Subset, FS_CardinalityType DEF NoiseBlocked
    <3>2. o.survey \in Int /\ o.id \in Int
      BY DEF TableOK, ObservationRow
    <3>3. NewestFirst(o) \in Seq(Int) /\ Len(NewestFirst(o)) = 2
      BY <3>2, TwoNumbers DEF NewestFirst
    <3>4. <<NoiseBlocked(o)>> \in Seq(Int) /\ Len(<<NoiseBlocked(o)>>) = 1
      BY <3>1, OneNumber
    <3>5. ASSUME NEW s \in Seq(Int), NEW r \in Seq(Int), Len(s) = 1, Len(r) = 2
          PROVE  s \o r \in Keys(3)
      <4>1. s \o r \in Keys(1 + 2)
        BY <3>5, KeyOn
      <4>2. 1 + 2 = 3
        OBVIOUS
      <4>3. QED
        BY <4>1, <4>2, Zenon
    <3>6. QED
      BY <3>3, <3>4, <3>5, Zenon
  <2>2. key \in [S -> Keys(3)]
    BY <2>1
  <2>3. S # {} => \E o \in S : \A y \in S : ~ Beats(key[y], key[o])
    <3> HIDE DEF key, S
    <3>1. QED
      BY <1>1, <2>2, UnbeatenExists
  <2>4. QED
    BY <2>3
<1>3. LR # {}
  <2> DEFINE key == [o \in R |-> NewestFirst(o)]
  <2>1. ASSUME NEW o \in R PROVE NewestFirst(o) \in Keys(2)
    BY DEF NewestFirst, TableOK, ObservationRow, Keys
  <2>2. key \in [R -> Keys(2)]
    BY <2>1
  <2>3. \E o \in R : \A y \in R : ~ Beats(key[y], key[o])
    <3> HIDE DEF key
    <3>1. QED
      BY <2>2, UnbeatenExists
  <2>4. QED
    BY <2>3
<1>4. CASE \E x \in R : ValidOptions(x) # {}
  BY <1>4, SelectedShows
<1>5. CASE \A x \in R : ValidOptions(x) = {}
  <2>1. CASE S # {}
    <3>0. {o \in R : ValidOptions(o) # {}} = {}
      BY <1>5
    <3>1. SelectedObservation(R) = CHOOSE o \in LS : TRUE
      BY <2>1, <3>0, Zenon DEF SelectedObservation, Leading
    <3>2. LS \subseteq R
      OBVIOUS
    <3> HIDE DEF LS, S
    <3>3. QED
      BY <1>2, <2>1, <3>1, <3>2
  <2>2. CASE S = {}
    <3>0. {o \in R : ValidOptions(o) # {}} = {}
      BY <1>5
    <3>1. SelectedObservation(R) = CHOOSE o \in LR : TRUE
      BY <2>2, <3>0, Zenon DEF SelectedObservation, Leading
    <3>2. LR \subseteq R
      OBVIOUS
    <3> HIDE DEF LR
    <3>3. QED
      BY <1>3, <3>1, <3>2
  <2>3. QED
    BY <2>1, <2>2
<1>6. QED
  BY <1>4, <1>5

\* Ingests may store what they want: the poll that is shown gives way to a poorer one only
\* when it has left the recent ones or has been stored again itself.
THEOREM RicherTheorem == Spec => RicherPollStays
<1>1. ASSUME NEW R, NEW t, TableOK(t), R \subseteq t, IsFiniteSet(R), NEW o \in R
      PROVE  ~ Beats(QualityScore(o), QualityScore(SelectedObservation(R)))
  <2>1. CASE \E x \in R : ValidOptions(x) # {}
    BY <1>1, <2>1, SelectedShows
  <2>2. CASE \A x \in R : ValidOptions(x) = {}
    <3>1. PICK sel \in R : sel = SelectedObservation(R)
      BY <1>1, <2>2, SelectedRecent
    <3>2. QualityScore(o) = <<0, 0, 0, 0>> /\ QualityScore(sel) = <<0, 0, 0, 0>>
      BY <1>1, <2>2, ScoreKey
    <3>3. <<0, 0, 0, 0>> \in Keys(4)
      BY DEF Keys
    <3>4. QED
      BY <3>1, <3>2, <3>3, BeatsNotItself
  <2>3. QED
    BY <2>1, <2>2
<1>2. ASSUME TableInv, [Next]_vars
      PROVE  \A m \in Matchups :
               \A old \in {RecentObservations(table, m)}, new \in {RecentObservations(table', m)} :
                 old # {} /\ SelectedObservation(old) \in new =>
                   ~ Beats(QualityScore(SelectedObservation(old)),
                           QualityScore(SelectedObservation(new)))
  <2>1. TableOK(table')
    BY <1>2, TableNext
  <2>2. \A m : RecentObservations(table', m) \subseteq table'
                /\ IsFiniteSet(RecentObservations(table', m))
    BY <2>1, RecentRows
  <2>3. QED
    BY <1>1, <2>1, <2>2
<1>3. QED
  BY <1>2, TableInvariance, PTL DEF Spec, RicherPollStays

-----------------------------------------------------------------------------
(* What a row says of itself is what some ingest committed.                *)

Committed ==
  \A o \in table : \E q \in Polls[family] : o.options = q.options /\ o.matchup = q.matchup

LEMMA CommittedNext == TableInv /\ Committed /\ [Next]_vars => Committed'
<1> SUFFICES ASSUME TableInv, Committed, [Next]_vars PROVE Committed'
  OBVIOUS
<1>1. ASSUME NEW o \in Polls[family], NEW r, r \in ObservationRow, family' = family,
             r.options = o.options, r.matchup = o.matchup, table' \subseteq table \cup {r}
      PROVE  Committed'
  BY <1>1 DEF Committed
<1>2. ASSUME NEW o \in Polls[family] PROVE o \in ObservationRow
  BY ReadsAssumption DEF TableInv
<1>3. ASSUME NEW o \in Polls[family], StoreNew(o) PROVE Committed'
  <2>1. PICK r : r = [o EXCEPT !.id = Cardinality(table) + 1]
    OBVIOUS
  <2>2. Cardinality(table) \in Nat
    BY FS_CardinalityType DEF TableInv, TableOK
  <2>3. r \in ObservationRow /\ r.options = o.options /\ r.matchup = o.matchup
    BY <1>2, <2>1, <2>2 DEF ObservationRow
  <2>4. table' \subseteq table \cup {r} /\ family' = family
    BY <1>3, <2>1 DEF StoreNew
  <2>5. QED
    BY <1>1, <2>3, <2>4
<1>4. ASSUME NEW o \in Polls[family], StoreAgain(o) PROVE Committed'
  <2>1. PICK q \in table :
          table' = (table \ {q}) \cup {[o EXCEPT !.id = q.id, !.channels = @ \cup q.channels]}
    BY <1>4 DEF StoreAgain
  <2>2. PICK r : r = [o EXCEPT !.id = q.id, !.channels = @ \cup q.channels]
    OBVIOUS
  <2>3. q \in ObservationRow
    BY DEF TableInv, TableOK
  <2>4. r \in ObservationRow /\ r.options = o.options /\ r.matchup = o.matchup
    BY <1>2, <2>2, <2>3 DEF ObservationRow
  <2>5. table' \subseteq table \cup {r} /\ family' = family
    BY <1>4, <2>1, <2>2 DEF StoreAgain
  <2>6. QED
    BY <1>1, <2>4, <2>5
<1>5. ASSUME table' = table, family' = family PROVE Committed'
  BY <1>5 DEF Committed
<1>6. QED
  BY <1>3, <1>4, <1>5 DEF Next, ViewMatchup, Decide, Tick, vars

LEMMA CommittedInvariance == Spec => [](TableInv /\ Committed)
<1>1. Init => Committed
  BY DEF Init, Committed
<1>2. QED
  BY <1>1, CommittedNext, TableInvariance, PTL DEF Spec

\* What a page without a poll rests on: the newest poll of the bundle that has something
\* to show shows all of it.
LEMMA MergedShows ==
  ASSUME NEW t, TableOK(t), NEW B, B \subseteq t, IsFiniteSet(B),
         NEW x \in B, ValidOptions(x) # {}
  PROVE  MergedOptions(B) # {}
<1> DEFINE U == {o \in B : ValidOptions(o) # {}}
<1>1. IsFiniteSet(U) /\ x \in U
  <2>1. U \in SUBSET B
    OBVIOUS
  <2>2. QED
    BY <2>1, FS_Subset
<1>2. PICK o \in U : \A y \in U : ~ Beats(NewestFirst(y), NewestFirst(o))
  <2> DEFINE key == [o \in U |-> NewestFirst(o)]
  <2>1. ASSUME NEW o \in U PROVE NewestFirst(o) \in Keys(2)
    BY DEF NewestFirst, TableOK, ObservationRow, Keys
  <2>2. key \in [U -> Keys(2)]
    BY <2>1
  <2>3. \E o \in U : \A y \in U : ~ Beats(key[y], key[o])
    <3> HIDE DEF key, U
    <3>1. QED
      BY <1>1, <2>2, UnbeatenExists
  <2>4. QED
    BY <2>3
<1>3. PICK q \in ValidOptions(o) : TRUE
  OBVIOUS
<1>4. ASSUME NEW n \in B, Beats(NewestFirst(n), NewestFirst(o)) PROVE ValidOptions(n) = {}
  BY <1>2, <1>4
<1>5. [scenario |-> q.scenario, name |-> q.name, value |-> q.value, kind |-> q.kind]
        \in MergedOptions(B)
  <2> DEFINE First(y) == {p \in ValidOptions(y) :
                            \A n \in B : Beats(NewestFirst(n), NewestFirst(y)) =>
                              \A r \in ValidOptions(n) : Identity(r) # Identity(p)}
             Shown(y) == {[scenario |-> p.scenario, name |-> p.name, value |-> p.value,
                           kind |-> p.kind] : p \in First(y)}
  <2>1. q \in First(o)
    BY <1>3, <1>4
  <2>2. [scenario |-> q.scenario, name |-> q.name, value |-> q.value, kind |-> q.kind] \in Shown(o)
    BY <2>1
  <2>3. MergedOptions(B) = UNION {Shown(y) : y \in B}
    BY Zenon DEF MergedOptions
  <2> HIDE DEF Shown
  <2>4. QED
    BY <2>2, <2>3
<1>6. QED
  BY <1>5

\* Every option of the page was one of the polls of its bundle.
LEMMA MergedFrom ==
  ASSUME NEW B, NEW p \in MergedOptions(B)
  PROVE  \E o \in B : \E q \in ValidOptions(o) :
           p = [scenario |-> q.scenario, name |-> q.name, value |-> q.value, kind |-> q.kind]
BY DEF MergedOptions

LEMMA KeysFinite ==
  ASSUME NEW t, TableOK(t), NEW B, B \subseteq t, IsFiniteSet(B)
  PROVE  IsFiniteSet(ScenarioKeys(MergedOptions(B)))
<1> DEFINE Of(o) == {p.scenario : p \in o.options}
           T == {Of(o) : o \in B}
<1>1. IsFiniteSet(T)
  <2> DEFINE f == [o \in B |-> Of(o)]
  <2>1. f \in Surjection(B, T)
    BY DEF Surjection
  <2>2. QED
    BY <2>1, FS_Surjection
<1>2. ASSUME NEW o \in B PROVE IsFiniteSet(Of(o))
  <2> DEFINE f == [p \in o.options |-> p.scenario]
  <2>1. f \in Surjection(o.options, Of(o))
    BY DEF Surjection
  <2>2. QED
    BY <2>1, FS_Surjection DEF TableOK
<1>3. IsFiniteSet(UNION T)
  <2>1. \A R \in T : IsFiniteSet(R)
    BY <1>2
  <2> HIDE DEF T
  <2>2. QED
    BY <1>1, <2>1, FS_UNION
<1>4. ScenarioKeys(MergedOptions(B)) \in SUBSET (UNION T)
  <2>1. ASSUME NEW p \in MergedOptions(B) PROVE p.scenario \in UNION T
    <3>1. PICK o \in B : \E q \in o.options : p.scenario = q.scenario
      BY MergedFrom DEF ValidOptions
    <3>2. QED
      BY <3>1
  <2>2. QED
    BY <2>1 DEF ScenarioKeys
<1>5. QED
  <2> HIDE DEF T
  <2>1. QED
    BY <1>3, <1>4, FS_Subset

LEMMA RecentKeeps ==
  ASSUME NEW t, NEW m, TableOK(t)
  PROVE  RecentObservations(t, m) \subseteq {o \in t : o.matchup = m}
BY DEF RecentObservations, TopRows

\* The page's own options exist as soon as there is an option at all.
LEMMA PrimaryShows ==
  ASSUME NEW options, options # {}, IsFiniteSet(ScenarioKeys(options)),
         \A p \in options : TitleOrder[p.scenario] \in Int
  PROVE  PrimaryOptions(BuildMatchupScenarios(options)) # {}
<1> DEFINE all == BuildMatchupScenarios(options)
           C == {s \in all : s.key = "default"}
           D == IF C # {} THEN C ELSE all
           Order(s) == <<IF s.kind = "head_to_head" THEN 1 ELSE 0, - TitleOrder[s.key]>>
           Lead == {s \in D : \A y \in D : ~ Beats(Order(y), Order(s))}
<1>1. ASSUME NEW s \in all PROVE s.items # {} /\ TitleOrder[s.key] \in Int
  <2>1. PICK k \in ScenarioKeys(options) :
          s = [key |-> k, items |-> {p \in options : p.scenario = k},
               kind |-> InferScenarioType({p \in options : p.scenario = k})]
    BY Zenon DEF BuildMatchupScenarios
  <2>2. PICK p \in options : p.scenario = k
    BY DEF ScenarioKeys
  <2>3. QED
    BY <2>1, <2>2
<1>2. all # {} /\ IsFiniteSet(all)
  <2> DEFINE scenario(k) == [key |-> k, items |-> {p \in options : p.scenario = k},
                             kind |-> InferScenarioType({p \in options : p.scenario = k})]
             f == [k \in ScenarioKeys(options) |-> scenario(k)]
  <2>1. all = {scenario(k) : k \in ScenarioKeys(options)}
    BY DEF BuildMatchupScenarios
  <2>2. f \in Surjection(ScenarioKeys(options), all)
    BY <2>1 DEF Surjection
  <2>3. ScenarioKeys(options) # {}
    BY DEF ScenarioKeys
  <2>4. all # {}
    BY <2>1, <2>3
  <2> HIDE DEF f, all
  <2>5. QED
    BY <2>2, <2>4, FS_Surjection
<1>3. D # {} /\ D \subseteq all /\ IsFiniteSet(D)
  <2>1. D \in SUBSET all /\ D # {}
    BY <1>2
  <2> HIDE DEF D, all
  <2>2. QED
    BY <1>2, <2>1, FS_Subset
<1>4. Lead # {}
  <2> DEFINE key == [s \in D |-> Order(s)]
  <2>1. ASSUME NEW s \in D PROVE Order(s) \in Keys(2)
    <3>1. TitleOrder[s.key] \in Int
      BY <1>1, <1>3
    <3>2. PICK a \in {0, 1} : a = IF s.kind = "head_to_head" THEN 1 ELSE 0
      OBVIOUS
    <3>3. PICK b \in Int : b = - TitleOrder[s.key]
      BY <3>1
    <3>4. Order(s) = <<a, b>>
      BY <3>2, <3>3, Zenon
    <3>5. <<a, b>> \in Keys(2)
      BY DEF Keys
    <3>6. QED
      BY <3>4, <3>5, Zenon
  <2>2. key \in [D -> Keys(2)]
    BY <2>1
  <2>3. \E s \in D : \A y \in D : ~ Beats(key[y], key[s])
    <3> HIDE DEF key, D
    <3>1. QED
      BY <1>3, <2>2, UnbeatenExists
  <2> HIDE DEF Order, D
  <2>4. QED
    BY <2>3
<1>5. PrimaryOptions(all) = (CHOOSE s \in Lead : TRUE).items
  BY <1>2, Zenon DEF PrimaryOptions, Leading
<1>6. Lead \subseteq all
  BY <1>3
<1>7. QED
  <2> HIDE DEF Lead, all
  <2>1. (CHOOSE s \in Lead : TRUE) \in Lead
    BY <1>4
  <2>2. PrimaryOptions(all) # {}
    BY <1>1, <1>5, <1>6, <2>1
  <2>3. QED
    BY <2>2 DEF all

\* Of any table of ingested polls: the page falls back to incumbents exactly when no recent
\* poll can be shown, has data otherwise, and shows nothing but the polls of one bundle.
THEOREM IncumbentsTheorem == Spec => []IncumbentsOnlyWithoutPoll
<1>1. ASSUME TableInv, Committed, NEW m \in Matchups
      PROVE  LET out == GetMatchup(table, m, open)
             IN  /\ (out.fallback = "incumbent")
                      <=> \A o \in RecentObservations(table, m) : ValidOptions(o) = {}
                 /\ out.hasData <=> out.fallback = "none"
                 /\ \A s \in out.page.scenarios : \A p \in s.items :
                      \E o \in RecentObservations(table, m) : \E q \in ValidOptions(o) :
                        /\ Identity(q) = Identity(p)
                        /\ \A x \in out.page.shown : o.bundle = x.bundle
  <2> DEFINE R == RecentObservations(table, m)
             page == MatchupPage(table, m, open)
             out == GetMatchup(table, m, open)
             sel == SelectedObservation(R)
             B == BundleOf(R, sel)
             merged == MergedOptions(B)
             scenarios == BuildMatchupScenarios(merged)
             Right == /\ (out.fallback = "incumbent") <=> \A o \in R : ValidOptions(o) = {}
                      /\ out.hasData <=> out.fallback = "none"
                      /\ \A s \in out.page.scenarios : \A p \in s.items :
                           \E o \in R : \E q \in ValidOptions(o) :
                             /\ Identity(q) = Identity(p)
                             /\ \A x \in out.page.shown : o.bundle = x.bundle
  <2>1. /\ out.page = page /\ out.hasData = (page.options # {})
        /\ out.fallback = IF page.options = {} /\ \A s \in page.scenarios : s.items = {}
                          THEN "incumbent" ELSE "none"
    BY DEF GetMatchup
  <2>2. R = {} => Right
    <3> SUFFICES ASSUME R = {} PROVE Right
      OBVIOUS
    <3>1. page.shown = {} /\ page.scenarios = {} /\ page.options = {}
      BY DEF MatchupPage
    <3> HIDE DEF page, out, R
    <3>2. QED
      BY <2>1, <3>1
  <2>3. R # {} => Right
    <3> SUFFICES ASSUME R # {} PROVE Right
      OBVIOUS
    <3>1. /\ page.shown = {sel} /\ page.scenarios = scenarios
          /\ page.options = PrimaryOptions(scenarios)
      BY DEF MatchupPage
    <3>2. TableOK(table) /\ R \subseteq table /\ IsFiniteSet(R)
      BY <1>1, RecentRows DEF TableInv
    <3>3. sel \in R
      BY <3>2, SelectedRecent
    <3>4. B \subseteq R /\ B \subseteq table /\ IsFiniteSet(B) /\ sel \in B
      <4>1. B \in SUBSET R /\ sel \in B
        BY <3>3 DEF BundleOf
      <4> HIDE DEF B, R
      <4>2. QED
        BY <3>2, <4>1, FS_Subset
    <3>5. (merged = {}) <=> \A o \in R : ValidOptions(o) = {}
      <4>1. ASSUME NEW x \in R, ValidOptions(x) # {} PROVE merged # {}
        <5>1. ValidOptions(sel) # {}
          BY <3>2, <4>1, SelectedShows
        <5> HIDE DEF B
        <5>2. QED
          BY <3>2, <3>4, <5>1, MergedShows
      <4>2. ASSUME \A o \in R : ValidOptions(o) = {} PROVE merged = {}
        BY <3>4, <4>2, MergedFrom
      <4>3. QED
        BY <4>1, <4>2
    <3>6. \A p \in merged : TitleOrder[p.scenario] \in Int
      <4>1. ASSUME NEW p \in merged PROVE TitleOrder[p.scenario] \in Int
        <5>1. PICK o \in B : \E q \in o.options : p.scenario = q.scenario
          BY <4>1, MergedFrom DEF ValidOptions
        <5>2. o \in table
          BY <3>4
        <5>3. PICK c \in Polls[family] : o.options = c.options
          BY <1>1, <5>2 DEF Committed
        <5>4. QED
          BY <1>1, <5>1, <5>3, ReadsAssumption DEF TableInv
      <4>2. QED
        BY <4>1
    <3>7. ASSUME merged = {} PROVE Right
      <4>1. scenarios = {}
        BY <3>7 DEF BuildMatchupScenarios, ScenarioKeys
      <4>2. PrimaryOptions(scenarios) = {}
        BY <4>1, Zenon DEF PrimaryOptions
      <4> HIDE DEF scenarios, merged, R, page, out
      <4>3. QED
        BY <2>1, <3>1, <3>5, <3>7, <4>1, <4>2
    <3>8. ASSUME merged # {} PROVE Right
      <4>1. IsFiniteSet(ScenarioKeys(merged))
        <5> HIDE DEF B
        <5>1. QED
          BY <3>2, <3>4, KeysFinite
      <4>2. PrimaryOptions(scenarios) # {}
        <5> HIDE DEF merged
        <5>1. QED
          BY <3>6, <3>8, <4>1, PrimaryShows
      <4>3. out.fallback = "none" /\ out.hasData
        <5> HIDE DEF scenarios, page, out
        <5>1. QED
          BY <2>1, <3>1, <4>2
      <4>4. ASSUME NEW s \in scenarios, NEW p \in s.items
            PROVE  \E o \in R : \E q \in ValidOptions(o) :
                     Identity(q) = Identity(p) /\ o.bundle = sel.bundle
        <5>1. p \in merged
          <6>1. PICK k \in ScenarioKeys(merged) :
                  s = [key |-> k, items |-> {x \in merged : x.scenario = k},
                       kind |-> InferScenarioType({x \in merged : x.scenario = k})]
            BY <4>4, Zenon DEF BuildMatchupScenarios
          <6>2. QED
            BY <4>4, <6>1
        <5>2. PICK o \in B : \E q \in ValidOptions(o) :
                p = [scenario |-> q.scenario, name |-> q.name, value |-> q.value,
                     kind |-> q.kind]
          BY <5>1, MergedFrom
        <5>3. \E q \in ValidOptions(o) : Identity(q) = Identity(p)
          BY <5>2 DEF Identity
        <5>4. o \in R /\ o.bundle = sel.bundle
          BY DEF BundleOf
        <5>5. QED
          BY <5>3, <5>4
      <4> HIDE DEF scenarios, merged, R, page, out, sel
      <4>5. QED
        BY <2>1, <3>1, <3>5, <3>8, <4>3, <4>4
    <3>9. QED
      BY <3>7, <3>8
  <2>4. QED
    BY <2>2, <2>3
<1>2. TableInv /\ Committed => IncumbentsOnlyWithoutPoll
  BY <1>1 DEF IncumbentsOnlyWithoutPoll
<1>3. QED
  BY <1>2, CommittedInvariance, PTL

\* Of the options a poll shows, no two have the same name in the same scenario: what the
\* unique constraint of poll_options, which counts the option type in, comes to for polls
\* that call no candidate like a party.
OnePerName ==
  \A f \in Families : \A o \in Polls[f] : \A p, q \in ValidOptions(o) :
    p.name = q.name /\ p.scenario = q.scenario => p = q

\* Where two rows of a page name one candidate in one scenario, two recent observations of
\* one bundle do.
THEOREM TwiceTheorem == ASSUME OnePerName PROVE Spec => []NoCandidateTwice
<1>1. ASSUME TableInv, Committed, NEW m \in Matchups,
             NEW s \in MatchupPage(table, m, open).scenarios,
             NEW p \in s.items, NEW q \in s.items, p.name = q.name, p # q
      PROVE  \E o, n \in RecentObservations(table, m) :
               /\ o.bundle = n.bundle /\ o # n
               /\ \E r \in ValidOptions(o) : Identity(r) = Identity(p)
               /\ \E r \in ValidOptions(n) : Identity(r) = Identity(q)
  <2> DEFINE R == RecentObservations(table, m)
             B == BundleOf(R, SelectedObservation(R))
             merged == MergedOptions(B)
             Copy(r) == [scenario |-> r.scenario, name |-> r.name, value |-> r.value,
                         kind |-> r.kind]
  <2>1. s \in BuildMatchupScenarios(merged)
    BY <1>1 DEF MatchupPage
  <2>2. PICK k \in ScenarioKeys(merged) :
          s = [key |-> k, items |-> {x \in merged : x.scenario = k},
               kind |-> InferScenarioType({x \in merged : x.scenario = k})]
    BY <2>1, Zenon DEF BuildMatchupScenarios
  <2>3. p \in merged /\ q \in merged /\ p.scenario = k /\ q.scenario = k
    BY <1>1, <2>2
  <2>4. PICK o \in B : \E r \in ValidOptions(o) : p = Copy(r)
    BY <2>3, MergedFrom
  <2>5. PICK n \in B : \E r \in ValidOptions(n) : q = Copy(r)
    BY <2>3, MergedFrom
  <2>6. PICK r1 \in ValidOptions(o) : p = Copy(r1)
    BY <2>4
  <2>7. PICK r2 \in ValidOptions(n) : q = Copy(r2)
    BY <2>5
  <2>8. o \in R /\ n \in R /\ o.bundle = n.bundle
    BY DEF BundleOf
  <2>9. o # n
    <3>1. ASSUME o = n PROVE FALSE
      <4>1. r1.name = r2.name /\ r1.scenario = r2.scenario /\ r1 # r2
        BY <1>1, <2>3, <2>6, <2>7
      <4>2. o \in table
        BY <2>8 DEF RecentObservations, TopRows
      <4>3. PICK c \in Polls[family] : o.options = c.options
        BY <1>1, <4>2 DEF Committed
      <4>4. r1 \in ValidOptions(c) /\ r2 \in ValidOptions(c)
        BY <2>6, <2>7, <3>1, <4>3 DEF ValidOptions
      <4>5. QED
        BY <1>1, <4>1, <4>3, <4>4 DEF OnePerName, TableInv
    <3>2. QED
      BY <3>1
  <2>10. Identity(r1) = Identity(p) /\ Identity(r2) = Identity(q)
    BY <2>6, <2>7 DEF Identity
  <2>11. QED
    BY <2>6, <2>7, <2>8, <2>9, <2>10
<1>2. TableInv /\ Committed => NoCandidateTwice
  BY <1>1 DEF NoCandidateTwice
<1>3. QED
  BY <1>2, CommittedInvariance, PTL

-----------------------------------------------------------------------------
(* The list of close races.                                                *)

\* What a list of n rows leaves out, it leaves out behind n rows.
LEMMA ListIsFull ==
  ASSUME NEW S, IsFiniteSet(S), NEW n \in Nat, NEW key \in [S -> Keys(n)], NEW limit \in Nat,
         NEW top \in SUBSET S, NEW r \in S \ top,
         \A x \in S : x \in top <=> Cardinality({q \in S : Beats(key[q], key[x])}) < limit
  PROVE  Cardinality(top) >= limit
<1> DEFINE Out == S \ top
           Before(x) == {q \in S : Beats(key[q], key[x])}
<1>1. PICK u \in Out : \A y \in Out : ~ Beats(key[y], key[u])
  <2> DEFINE k == [x \in Out |-> key[x]]
  <2>1. IsFiniteSet(Out) /\ Out # {}
    BY FS_Difference
  <2>2. k \in [Out -> Keys(n)]
    OBVIOUS
  <2>3. \E u \in Out : \A y \in Out : ~ Beats(k[y], k[u])
    <3> HIDE DEF k, Out
    <3>1. QED
      BY <2>1, <2>2, UnbeatenExists
  <2>4. QED
    BY <2>3
<1>2. Before(u) \in SUBSET top
  BY <1>1
<1>3. IsFiniteSet(top) /\ Cardinality(Before(u)) <= Cardinality(top)
  BY <1>2, FS_Subset
<1>4. ~ (Cardinality(Before(u)) < limit)
  OBVIOUS
<1>5. Cardinality(Before(u)) \in Nat /\ Cardinality(top) \in Nat
  BY <1>2, <1>3, FS_Subset, FS_CardinalityType
<1>6. QED
  BY <1>3, <1>4, <1>5

\* The greatest of finitely many numbers.
LEMMA MaxOfNumbers ==
  ASSUME NEW V, V \subseteq Nat, IsFiniteSet(V), V # {}
  PROVE  Max(V) \in V /\ \A v \in V : v <= Max(V)
<1>1. \E x \in V : \A y \in V : x >= y
  <2> DEFINE key == [v \in V |-> <<v>>]
  <2>1. ASSUME NEW v \in V PROVE <<v>> \in Keys(1)
    BY DEF Keys
  <2>2. key \in [V -> Keys(1)]
    BY <2>1
  <2>3. PICK x \in V : \A y \in V : ~ Beats(key[y], key[x])
    <3> HIDE DEF key
    <3>1. QED
      BY <2>2, UnbeatenExists
  <2>4. ASSUME NEW y \in V PROVE x >= y
    <3>1. ~ (y > x)
      <4>1. y > x => Beats(<<y>>, <<x>>)
        BY DEF Beats
      <4>2. ~ Beats(<<y>>, <<x>>)
        BY <2>3
      <4>3. QED
        BY <4>1, <4>2
    <3>2. QED
      BY <3>1
  <2>5. QED
    BY <2>4
<1>2. QED
  BY <1>1 DEF Max

LEMMA ValuesFinite ==
  ASSUME NEW t, TableOK(t), NEW o \in t
  PROVE  IsFiniteSet(Values(o)) /\ Values(o) \subseteq Nat
<1> DEFINE C == {q \in o.options : Candidacy([obs |-> o, opt |-> q])}
           f == [p \in C |-> p.value]
<1>1. IsFiniteSet(C)
  <2>1. C \in SUBSET o.options /\ IsFiniteSet(o.options)
    BY DEF TableOK
  <2> HIDE DEF C
  <2>2. QED
    BY <2>1, FS_Subset
<1>2. f \in Surjection(C, Values(o))
  BY DEF Surjection, Values
<1>3. IsFiniteSet(Values(o))
  <2> HIDE DEF f, C
  <2>1. QED
    BY <1>1, <1>2, FS_Surjection
<1>4. ASSUME NEW p \in C PROVE p.value \in Nat
  <2>1. p.value \in Nat \cup {Null}
    BY DEF TableOK, ObservationRow, OptionRow
  <2>2. p.value # Null
    BY DEF Candidacy
  <2>3. QED
    BY <2>1, <2>2
<1>5. QED
  BY <1>3, <1>4 DEF Values

\* A spread parts the greatest value from the next one.
LEMMA SpreadParts ==
  ASSUME NEW t, TableOK(t), NEW o \in t
  PROVE  /\ Spread(o) \in Int
         /\ Spread(o) # Null =>
              /\ Spread(o) > 0
              /\ ~ \E v \in Values(o) : Max(Values(o)) - Spread(o) < v /\ v < Max(Values(o))
<1>1. CASE Cardinality(Values(o)) < 2
  BY <1>1 DEF Spread, Null
<1>2. CASE ~ (Cardinality(Values(o)) < 2)
  <2> DEFINE V == Values(o)
             M == Max(V)
             W == V \ {M}
             N == Max(W)
  <2>1. IsFiniteSet(V) /\ V \subseteq Nat
    BY ValuesFinite
  <2>2. V # {}
    BY <1>2, FS_EmptySet
  <2>3. M \in V /\ \A v \in V : v <= M
    <3> HIDE DEF V
    <3>1. QED
      BY <2>1, <2>2, MaxOfNumbers
  <2>4. IsFiniteSet(W) /\ W \subseteq Nat /\ W # {}
    <3> HIDE DEF V, M
    <3>1. IsFiniteSet(W) /\ Cardinality(W) = Cardinality(V) - 1
      BY <2>1, <2>3, FS_RemoveElement
    <3>2. Cardinality(V) \in Nat /\ ~ (Cardinality(V) < 2)
      BY <1>2, <2>1, FS_CardinalityType DEF V
    <3>3. W = {} => Cardinality(W) = 0
      BY FS_EmptySet
    <3>4. W \subseteq Nat
      BY <2>1
    <3> HIDE DEF W
    <3>5. W # {}
      BY <3>1, <3>2, <3>3
    <3>6. QED
      BY <3>1, <3>4, <3>5
  <2>5. N \in W /\ \A v \in W : v <= N
    <3> HIDE DEF W
    <3>1. QED
      BY <2>4, MaxOfNumbers
  <2>6. Spread(o) = M - N
    BY <1>2, Zenon DEF Spread
  <2>7. M \in Nat /\ N \in Nat /\ N < M /\ \A v \in V : v = M \/ v <= N
    <3>1. N \in V /\ N # M /\ \A v \in V : v = M \/ v \in W
      BY <2>5
    <3> HIDE DEF V, M, W, N
    <3>2. QED
      BY <2>1, <2>3, <2>5, <3>1
  <2>8. \A v \in V : v \in Nat
    BY <2>1
  <2> HIDE DEF V, M, W, N
  <2>9. M - N > 0 /\ M - N \in Int /\ M - (M - N) = N
    BY <2>7
  <2>10. ~ \E v \in V : M - (M - N) < v /\ v < M
    BY <2>7, <2>8, <2>9
  <2>11. QED
    BY <2>6, <2>9, <2>10 DEF V, M
<1>3. QED
  BY <1>1, <1>2

\* Whatever the polls: a spread is a distance to the next value, and a race that is not in
\* the list is behind a full list or has nothing to show in its newest verified poll.
THEOREM SpreadTheorem == Spec => []SpreadIsTheGap
<1> DEFINE latest == LatestPolls(table, 0)
           polls == {q \in latest : Values(q) # {}}
           Race(o) == [obs |-> o, value |-> Max(Values(o)), spread |-> Spread(o)]
           all == {Race(o) : o \in polls}
           races == FetchDashboardBigMatches(table, 0, Limit)
<1>1. latest \subseteq table /\ races \subseteq all /\ polls \subseteq table
  <2>1. latest \subseteq table /\ polls \subseteq latest
    BY DEF LatestPolls, FirstOf
  <2>2. races \subseteq all
    BY DEF FetchDashboardBigMatches, TopRows
  <2>3. QED
    BY <2>1, <2>2
<1>2. ASSUME TableOK(table), NEW m \in races, m.spread # Null
      PROVE  m.spread > 0 /\ ~ \E v \in Values(m.obs) : m.value - m.spread < v /\ v < m.value
  <2>1. PICK o \in polls : m = Race(o)
    BY <1>1
  <2>2. /\ o \in table /\ m.obs = o /\ m.value = Max(Values(o)) /\ m.spread = Spread(o)
    BY <1>1, <2>1
  <2>3. QED
    BY <1>2, <2>2, SpreadParts
<1>3. ASSUME TableInv, Committed, NEW o \in table
      PROVE  \/ \E m \in races : m.obs.matchup = o.matchup
             \/ Cardinality(races) >= Limit
             \/ ~ o.verified \/ Values(o) = {}
             \/ \E q \in table : q.matchup = o.matchup /\ q.verified /\ Values(q) = {}
                                 /\ Beats(NewestFirst(q), NewestFirst(o))
  <2> SUFFICES ASSUME o.verified, Values(o) # {},
                      ~ \E m \in races : m.obs.matchup = o.matchup,
                      ~ \E q \in table : q.matchup = o.matchup /\ q.verified /\ Values(q) = {}
                                         /\ Beats(NewestFirst(q), NewestFirst(o))
               PROVE  Cardinality(races) >= Limit
    OBVIOUS
  <2>1. TableOK(table)
    BY <1>3 DEF TableInv
  <2>2. ASSUME NEW q \in table PROVE NewestFirst(q) \in Keys(2)
    BY <2>1 DEF NewestFirst, TableOK, ObservationRow, Keys
  <2>3. PICK q \in latest : q.matchup = o.matchup
    <3> DEFINE W == {q \in table : q.verified /\ q.matchup = o.matchup}
               key == [q \in W |-> NewestFirst(q)]
    <3>1. IsFiniteSet(W) /\ o \in W
      <4>1. W \in SUBSET table
        OBVIOUS
      <4>2. QED
        BY <2>1, <4>1, FS_Subset DEF TableOK
    <3>2. key \in [W -> Keys(2)]
      BY <2>2
    <3>3. \E q \in W : \A y \in W : ~ Beats(key[y], key[q])
      <4> HIDE DEF key, W
      <4>1. QED
        BY <3>1, <3>2, UnbeatenExists
    <3>4. QED
      BY <3>3 DEF LatestPolls, FirstOf, Upto
  <2>4. Values(q) # {}
    <3>1. ASSUME Values(q) = {} PROVE FALSE
      <4>1. q \in table /\ q.verified /\ ~ Beats(NewestFirst(o), NewestFirst(q))
        BY <2>3 DEF LatestPolls, FirstOf, Upto
      <4>2. NewestFirst(q) # NewestFirst(o)
        <5>1. q.id # o.id
          BY <2>1, <3>1, <4>1 DEF TableOK
        <5>2. QED
          BY <5>1 DEF NewestFirst
      <4>3. Beats(NewestFirst(q), NewestFirst(o))
        BY <2>2, <4>1, <4>2, BeatsTotal
      <4>4. QED
        BY <2>3, <3>1, <4>1, <4>3
    <3>2. QED
      BY <3>1
  <2>5. Race(q) \in all /\ Race(q) \notin races
    <3>1. q \in polls
      BY <2>4
    <3>2. Race(q) \in all /\ Race(q).obs.matchup = o.matchup
      BY <2>3, <3>1
    <3>3. QED
      BY <3>2
  <2>6. IsFiniteSet(all)
    <3> DEFINE f == [p \in polls |-> Race(p)]
    <3>1. f \in Surjection(polls, all)
      BY DEF Surjection
    <3>2. IsFiniteSet(polls)
      <4>1. polls \in SUBSET table
        BY <1>1
      <4> HIDE DEF polls
      <4>2. QED
        BY <2>1, <4>1, FS_Subset DEF TableOK
    <3> HIDE DEF f, polls, all
    <3>3. QED
      BY <3>1, <3>2, FS_Surjection
  <2> DEFINE key == [m \in all |-> Closest(m)]
  <2>7. ASSUME NEW m \in all PROVE Closest(m) \in Keys(4)
    <3>1. PICK p \in polls : m = Race(p)
      OBVIOUS
    <3>2. p \in table /\ m.obs = p /\ m.spread = Spread(p)
      BY <1>1, <3>1
    <3>3. m.spread \in Int /\ m.obs.survey \in Int
      BY <2>1, <3>2, SpreadParts DEF TableOK, ObservationRow
    <3>4. MatchupOrder[m.obs.matchup] \in Int
      <4>1. PICK c \in Polls[family] : p.matchup = c.matchup
        BY <1>3, <3>2 DEF Committed
      <4>2. QED
        BY <1>3, <3>2, <4>1, ReadsAssumption DEF TableInv
    <3>5. PICK a \in Int : a = IF m.spread = Null THEN 0 ELSE 1
      OBVIOUS
    <3>6. PICK b \in Int : b = - m.spread
      BY <3>3
    <3>7. PICK d \in Int : d = - MatchupOrder[m.obs.matchup]
      BY <3>4
    <3>8. Closest(m) = <<a, b, m.obs.survey, d>>
      BY <3>5, <3>6, <3>7, Zenon DEF Closest
    <3>9. \A i \in Int, j \in Int, k \in Int, l \in Int : <<i, j, k, l>> \in Keys(4)
      BY DEF Keys
    <3>10. QED
      BY <3>3, <3>8, <3>9
  <2>8. key \in [all -> Keys(4)]
    BY <2>7
  <2>9. \A m \in all : m \in races <=> Cardinality({x \in all : Beats(key[x], key[m])}) < Limit
    <3>1. races = TopRows(all, Limit, Closest)
      BY DEF FetchDashboardBigMatches
    <3>2. \A m \in all : {x \in all : Beats(key[x], key[m])} = {x \in all : Beats(Closest(x), Closest(m))}
      BY DEF key
    <3> HIDE DEF all, races, key
    <3>3. QED
      BY <3>1, <3>2 DEF TopRows
  <2>10. QED
    <3>1. Limit \in Nat /\ races \in SUBSET all
      BY <1>1, ReadsAssumption
    <3> HIDE DEF key, all, races, Race
    <3>2. QED
      BY <2>5, <2>6, <2>8, <2>9, <3>1, ListIsFull
<1>4. TableInv /\ Committed => SpreadIsTheGap
  BY <1>2, <1>3 DEF SpreadIsTheGap, TableInv
<1>5. QED
  BY <1>4, CommittedInvariance, PTL

-----------------------------------------------------------------------------
(* The map.                                                                *)

Total(c, D) == MapThenSumSet(LAMBDA r : c[r], D)

\* Rows counted by what is said of each: the counts add up.  The sum is a fold, whose
\* recursion has one solution, as the counts of the subsets are one.
LEMMA SumCounts ==
  ASSUME NEW rows, IsFiniteSet(rows), NEW key, NEW D, IsFiniteSet(D), NEW c,
         \A r \in D : c[r] = Cardinality({j \in rows : key[j] = r})
  PROVE  Total(c, D) = Cardinality({j \in rows : key[j] \in D})
<1> DEFINE In(s) == {j \in rows : key[j] \in s}
           Step(f) == [s \in SUBSET D |-> IF s = {} THEN 0
                                          ELSE c[CHOOSE x \in s : TRUE] + f[s \ {CHOOSE x \in s : TRUE}]]
           sum == CHOOSE f : f = Step(f)
           g == [s \in SUBSET D |-> Cardinality(In(s))]
<1>1. Total(c, D) = sum[D]
  BY DEF Total, MapThenSumSet, MapThenFoldSet
<1>2. ASSUME NEW s \in SUBSET D, s # {}, NEW x \in s PROVE Cardinality(In(s)) = c[x] + Cardinality(In(s \ {x}))
  <2>1. In(s) \in SUBSET rows /\ In(s \ {x}) \in SUBSET rows /\ In({x}) \in SUBSET rows
    OBVIOUS
  <2>2. In(s) = In(s \ {x}) \cup In({x}) /\ In(s \ {x}) \cap In({x}) = {}
    OBVIOUS
  <2>3. c[x] = Cardinality(In({x}))
    BY Zenon
  <2> HIDE DEF In
  <2>4. IsFiniteSet(In(s \ {x})) /\ IsFiniteSet(In({x}))
    BY <2>1, FS_Subset
  <2>5. Cardinality(In(s)) = Cardinality(In(s \ {x})) + Cardinality(In({x})) - Cardinality({})
    <3>1. \A a, b : IsFiniteSet(a) /\ IsFiniteSet(b) /\ a \cap b = {} =>
                      Cardinality(a \cup b) = Cardinality(a) + Cardinality(b) - Cardinality({})
      BY FS_Union
    <3>2. QED
      BY <2>2, <2>4, <3>1, Zenon
  <2>6. Cardinality({}) = 0 /\ Cardinality(In(s \ {x})) \in Nat /\ Cardinality(In({x})) \in Nat
    BY <2>4, FS_EmptySet, FS_CardinalityType
  <2>7. QED
    BY <2>3, <2>5, <2>6
<1>3. g = Step(g)
  <2>1. ASSUME NEW s \in SUBSET D
        PROVE  g[s] = IF s = {} THEN 0 ELSE c[CHOOSE x \in s : TRUE] + g[s \ {CHOOSE x \in s : TRUE}]
    <3>1. CASE s = {}
      BY <3>1, FS_EmptySet
    <3>2. CASE s # {}
      <4>1. PICK x \in s : x = CHOOSE y \in s : TRUE
        BY <3>2
      <4>2. s \ {x} \in SUBSET D
        OBVIOUS
      <4>3. g[s] = Cardinality(In(s)) /\ g[s \ {x}] = Cardinality(In(s \ {x}))
        BY <4>2
      <4> HIDE DEF g, In
      <4>4. g[s] = c[x] + g[s \ {x}]
        BY <1>2, <3>2, <4>3
      <4>5. QED
        BY <3>2, <4>1, <4>4
    <3>3. QED
      BY <3>1, <3>2
  <2> HIDE DEF In
  <2>2. QED
    BY <2>1
<1>4. sum = Step(sum)
  <2> HIDE DEF Step, g
  <2>1. QED
    BY <1>3
<1>5. sum[D] = g[D]
  <2> DEFINE T == {s \in SUBSET D : sum[s] # g[s]}
             R == StrictSubsetOrdering(D)
  <2>1. ASSUME T # {} PROVE FALSE
    <3>1. T \subseteq FiniteSubsetsOf(D)
      BY FS_FiniteSubsetsOfFinite
    <3>2. PICK B \in T : \A U \in T : <<U, B>> \notin R
      <4>1. IsWellFoundedOn(R, FiniteSubsetsOf(D))
        BY FS_StrictSubsetOrderingWellFounded
      <4> HIDE DEF T, R
      <4>2. QED
        BY <2>1, <3>1, <4>1, WFMin
    <3>3. sum[B] = IF B = {} THEN 0 ELSE c[CHOOSE x \in B : TRUE] + sum[B \ {CHOOSE x \in B : TRUE}]
      <4>1. B \in SUBSET D
        OBVIOUS
      <4> HIDE DEF sum, T
      <4>2. Step(sum)[B] = IF B = {} THEN 0 ELSE c[CHOOSE x \in B : TRUE] + sum[B \ {CHOOSE x \in B : TRUE}]
        BY <4>1
      <4> HIDE DEF Step
      <4>3. QED
        BY <1>4, <4>2
    <3>4. g[B] = IF B = {} THEN 0 ELSE c[CHOOSE x \in B : TRUE] + g[B \ {CHOOSE x \in B : TRUE}]
      <4>1. B \in SUBSET D
        OBVIOUS
      <4> HIDE DEF g, T
      <4>2. Step(g)[B] = IF B = {} THEN 0 ELSE c[CHOOSE x \in B : TRUE] + g[B \ {CHOOSE x \in B : TRUE}]
        BY <4>1
      <4> HIDE DEF Step
      <4>3. QED
        BY <1>3, <4>2
    <3>5. sum[B] # g[B] /\ B \in SUBSET D
      OBVIOUS
    <3> HIDE DEF sum, g
    <3>6. B # {}
      BY <3>3, <3>4, <3>5
    <3>7. PICK x \in B : x = CHOOSE y \in B : TRUE
      BY <3>6
    <3>8. sum[B \ {x}] # g[B \ {x}]
      BY <3>3, <3>4, <3>5, <3>7
    <3>9. B \ {x} \in T /\ <<B \ {x}, B>> \in R
      BY <3>5, <3>8 DEF StrictSubsetOrdering
    <3>10. QED
      BY <3>2, <3>9
  <2>2. D \in SUBSET D
    OBVIOUS
  <2> HIDE DEF sum, g
  <2>3. QED
    BY <2>1, <2>2
<1>6. g[D] = Cardinality({j \in rows : key[j] \in D})
  OBVIOUS
<1>7. QED
  BY <1>1, <1>5, <1>6

\* The keys by which the query of the map chooses.
LEMMA MapKeys ==
  ASSUME TableInv, Committed, NEW j \in Joined(table), Candidacy(j)
  PROVE  \E a \in Int, b \in Int, d \in Int, e \in Int :
           /\ MapRank(j) = <<j.obs.survey, a, j.obs.legal, d, j.obs.id, j.opt.value, e>>
           /\ ScopeRank(j) = <<b, j.obs.survey, d, j.opt.value, e>>
           /\ b = ScopeClass(j.obs)
           /\ j.obs.survey \in Int /\ j.obs.legal \in Int /\ j.obs.id \in Int
           /\ j.opt.value \in Int
<1>1. TableOK(table)
  BY DEF TableInv
<1>2. j.obs \in table /\ j.obs \in ObservationRow /\ j.opt \in j.obs.options /\ j.opt \in OptionRow
  BY <1>1, JoinedRows
<1>3. /\ j.obs.survey \in Nat /\ j.obs.legal \in Nat /\ j.obs.id \in Nat
      /\ j.obs.release \in Nat /\ j.obs.published \in Nat /\ j.obs.updated \in Nat
      /\ j.opt.value \in Int
  <2>1. /\ j.obs.survey \in Nat /\ j.obs.legal \in Nat /\ j.obs.id \in Nat
        /\ j.obs.release \in Nat /\ j.obs.published \in Nat /\ j.obs.updated \in Nat
    BY <1>2 DEF ObservationRow
  <2>2. j.opt.value \in Nat \cup {Null}
    BY <1>2 DEF OptionRow
  <2>3. QED
    BY <2>1, <2>2 DEF Null
<1>4. PICK a \in Int : a = ChannelClass(j.obs)
  BY DEF ChannelClass
<1>5. PICK b \in Int : b = ScopeClass(j.obs)
  BY DEF ScopeClass
<1>6. PICK d \in Int : d = LastKnown(j.obs)
  <2>1. \A x \in Nat, y \in Nat, z \in Nat : <<x, y, z>> \in [1 .. 3 -> Nat]
    OBVIOUS
  <2>2. LastKnown(j.obs) \in Nat
    <3>1. 3 \in Nat
      OBVIOUS
    <3>2. QED
      BY <1>3, <2>1, <3>1, FirstSetType, Zenon DEF LastKnown
  <2>3. QED
    BY <2>2
<1>7. PICK e \in Int : e = - NameOrder[j.opt.name]
  <2>1. PICK c \in Polls[family] : j.obs.options = c.options
    BY <1>2 DEF Committed
  <2>2. NameOrder[j.opt.name] \in Int
    BY <1>2, <2>1, ReadsAssumption DEF TableInv
  <2>3. QED
    BY <2>2
<1>8. /\ MapRank(j) = <<j.obs.survey, a, j.obs.legal, d, j.obs.id, j.opt.value, e>>
      /\ ScopeRank(j) = <<b, j.obs.survey, d, j.opt.value, e>>
  BY <1>4, <1>5, <1>6, <1>7, Zenon DEF MapRank, ScopeRank
<1>9. QED
  BY <1>3, <1>5, <1>8

\* The poll that stands for a region, an office and a scope.
LEMMA MapGroup ==
  ASSUME TableInv, Committed, NEW j \in Joined(table), Candidacy(j), j.obs.verified
  PROVE  \E k \in FirstOf({h \in Joined(table) : Candidacy(h) /\ h.obs.verified /\ Upto(h.obs, 0)},
                          LAMBDA h : <<h.obs.region, h.obs.office, h.obs.scope>>, MapRank) :
           /\ k.obs.region = j.obs.region /\ k.obs.office = j.obs.office
           /\ k.obs.scope = j.obs.scope /\ ~ Beats(MapRank(j), MapRank(k))
<1> DEFINE C == {h \in Joined(table) : Candidacy(h) /\ h.obs.verified /\ Upto(h.obs, 0)}
           G == {h \in C : /\ h.obs.region = j.obs.region /\ h.obs.office = j.obs.office
                           /\ h.obs.scope = j.obs.scope}
           key == [h \in G |-> MapRank(h)]
<1>1. j \in G /\ IsFiniteSet(G)
  <2>1. G \in SUBSET Joined(table) /\ j \in G
    BY DEF Upto
  <2>2. IsFiniteSet(Joined(table))
    BY JoinedFinite DEF TableInv
  <2> HIDE DEF G
  <2>3. QED
    BY <2>1, <2>2, FS_Subset
<1>2. ASSUME NEW h \in G PROVE MapRank(h) \in Keys(7)
  <2>1. PICK a \in Int, b \in Int, d \in Int, e \in Int :
          /\ MapRank(h) = <<h.obs.survey, a, h.obs.legal, d, h.obs.id, h.opt.value, e>>
          /\ h.obs.survey \in Int /\ h.obs.legal \in Int /\ h.obs.id \in Int
          /\ h.opt.value \in Int
    <3>1. h \in Joined(table) /\ Candidacy(h)
      OBVIOUS
    <3> HIDE DEF G
    <3>2. QED
      BY <3>1, MapKeys
  <2>2. ASSUME NEW s \in Int, NEW l \in Int, NEW i \in Int, NEW v \in Int
        PROVE  <<s, a, l, d, i, v, e>> \in Keys(7)
    BY DEF Keys
  <2>3. <<h.obs.survey, a, h.obs.legal, d, h.obs.id, h.opt.value, e>> \in Keys(7)
    BY <2>1, <2>2, Zenon
  <2>4. QED
    BY <2>1, <2>3, Zenon
<1>3. key \in [G -> Keys(7)]
  BY <1>2
<1>4. PICK k \in G : \A y \in G : ~ Beats(key[y], key[k])
  <2> HIDE DEF key, G
  <2>1. QED
    BY <1>1, <1>3, UnbeatenExists
<1>5. \A y \in G : ~ Beats(MapRank(y), MapRank(k))
  BY <1>4
<1>6. k \in FirstOf(C, LAMBDA h : <<h.obs.region, h.obs.office, h.obs.scope>>, MapRank)
  BY <1>5 DEF FirstOf
<1>7. QED
  BY <1>1, <1>5, <1>6

\* Where a key beats another.
LEMMA BeatsAt ==
  ASSUME NEW k, NEW l, NEW i \in DOMAIN k, k[i] > l[i], \A j \in 1 .. i - 1 : k[j] = l[j]
  PROVE  Beats(k, l)
BY DEF Beats

LEMMA ByDay ==
  ASSUME NEW a \in Int, NEW b \in Int, a > b, NEW a2, NEW a3, NEW a4, NEW a5, NEW a6, NEW a7,
         NEW b2, NEW b3, NEW b4, NEW b5, NEW b6, NEW b7
  PROVE  Beats(<<a, a2, a3, a4, a5, a6, a7>>, <<b, b2, b3, b4, b5, b6, b7>>)
<1> DEFINE k == <<a, a2, a3, a4, a5, a6, a7>>
           l == <<b, b2, b3, b4, b5, b6, b7>>
<1>1. 1 \in DOMAIN k /\ k[1] > l[1] /\ \A j \in 1 .. 1 - 1 : k[j] = l[j]
  OBVIOUS
<1> HIDE DEF k, l
<1>2. Beats(k, l)
  BY <1>1, BeatsAt
<1>3. QED
  BY <1>2 DEF k, l

LEMMA ByValue ==
  ASSUME NEW a \in Int, NEW b \in Int, a > b, NEW c1, NEW c2, NEW c3, NEW c4, NEW c5,
         NEW a7, NEW b7
  PROVE  Beats(<<c1, c2, c3, c4, c5, a, a7>>, <<c1, c2, c3, c4, c5, b, b7>>)
<1> DEFINE k == <<c1, c2, c3, c4, c5, a, a7>>
           l == <<c1, c2, c3, c4, c5, b, b7>>
<1>1. 6 \in DOMAIN k /\ k[6] > l[6]
  OBVIOUS
<1>2. \A j \in 1 .. 6 - 1 : k[j] = l[j]
  <2>1. \A j \in 1 .. 6 - 1 : j = 1 \/ j = 2 \/ j = 3 \/ j = 4 \/ j = 5
    OBVIOUS
  <2>2. k[1] = l[1] /\ k[2] = l[2] /\ k[3] = l[3] /\ k[4] = l[4] /\ k[5] = l[5]
    OBVIOUS
  <2> HIDE DEF k, l
  <2>3. QED
    BY <2>1, <2>2
<1> HIDE DEF k, l
<1>3. Beats(k, l)
  BY <1>1, <1>2, BeatsAt
<1>4. QED
  BY <1>3 DEF k, l

LEMMA ByScope ==
  ASSUME NEW a \in Int, NEW b \in Int, NEW c \in Int, NEW d \in Int, a > b \/ (a = b /\ c > d),
         NEW a3, NEW a4, NEW a5, NEW b3, NEW b4, NEW b5
  PROVE  Beats(<<a, c, a3, a4, a5>>, <<b, d, b3, b4, b5>>)
<1> DEFINE k == <<a, c, a3, a4, a5>>
           l == <<b, d, b3, b4, b5>>
<1>1. /\ 1 \in DOMAIN k /\ 2 \in DOMAIN k /\ 1 .. 1 - 1 = {} /\ 1 .. 2 - 1 = {1}
      /\ k[1] = a /\ k[2] = c /\ l[1] = b /\ l[2] = d
  OBVIOUS
<1> HIDE DEF k, l
<1>2. ASSUME a > b PROVE Beats(k, l)
  <2>1. k[1] > l[1] /\ \A j \in 1 .. 1 - 1 : k[j] = l[j]
    BY <1>1, <1>2
  <2>2. QED
    BY <1>1, <2>1, BeatsAt
<1>3. ASSUME a = b, c > d PROVE Beats(k, l)
  <2>1. k[2] > l[2] /\ \A j \in 1 .. 2 - 1 : k[j] = l[j]
    BY <1>1, <1>3
  <2>2. QED
    BY <1>1, <2>1, BeatsAt
<1>4. Beats(k, l)
  BY <1>2, <1>3
<1>5. QED
  BY <1>4 DEF k, l

\* Whatever is stored: the map shows of a region and office the best scope, its latest
\* day and the leader, and counts what its filters dropped.
THEOREM MapTheorem == Spec => []MapStandsForTheRegion
<1> DEFINE C == {h \in Joined(table) : Candidacy(h) /\ h.obs.verified /\ Upto(h.obs, 0)}
           inner == FirstOf(C, LAMBDA h : <<h.obs.region, h.obs.office, h.obs.scope>>, MapRank)
           rows == FetchDashboardMapLatest(table, 0, Limit, RegionOrder)
           map == GetDashboardMapLatest(table, 0, Limit, RegionOrder)
           reasons == {ExclusionReason(j) : j \in rows} \ {""}
<1>1. rows \subseteq MapWinners(table, 0) /\ MapWinners(table, 0) \subseteq inner
      /\ inner \subseteq C /\ C \subseteq Joined(table)
  <2>1. rows \subseteq MapWinners(table, 0)
    BY DEF FetchDashboardMapLatest, TopRows
  <2>2. MapWinners(table, 0) \subseteq inner
    BY DEF MapWinners, FirstOf
  <2>3. inner \subseteq C
    BY DEF FirstOf
  <2>4. QED
    BY <2>1, <2>2, <2>3
<1>2. /\ map.items = {j \in rows : ExclusionReason(j) = ""} /\ map.total = Cardinality(rows)
      /\ map.counts = [r \in reasons |-> Cardinality({j \in rows : ExclusionReason(j) = r})]
  BY DEF GetDashboardMapLatest
<1>3. ASSUME TableInv, Committed, NEW i \in map.items, NEW o \in table,
             o.verified, o.region = i.obs.region, o.office = i.obs.office, Values(o) # {}
      PROVE  \/ ScopeClass(o) < ScopeClass(i.obs)
             \/ o.scope = i.obs.scope /\ o.survey <= i.obs.survey
  <2>1. PICK p \in o.options : Candidacy([obs |-> o, opt |-> p])
    BY <1>3 DEF Values
  <2> DEFINE j == [obs |-> o, opt |-> p]
  <2>2. j \in Joined(table) /\ j.obs = o /\ j.opt = p /\ Candidacy(j)
    BY <2>1 DEF Joined
  <2>3. PICK k \in inner :
          /\ k.obs.region = o.region /\ k.obs.office = o.office
          /\ k.obs.scope = o.scope /\ ~ Beats(MapRank(j), MapRank(k))
    BY <1>3, <2>2, MapGroup
  <2>4. i \in MapWinners(table, 0) /\ ~ Beats(ScopeRank(k), ScopeRank(i))
    <3>1. i \in MapWinners(table, 0)
      BY <1>1, <1>2
    <3>2. <<k.obs.region, k.obs.office>> = <<i.obs.region, i.obs.office>>
      BY <1>3, <2>3
    <3>3. MapWinners(table, 0) = FirstOf(inner, LAMBDA h : <<h.obs.region, h.obs.office>>, ScopeRank)
      BY DEF MapWinners
    <3> HIDE DEF inner
    <3>4. QED
      BY <2>3, <3>1, <3>2, <3>3 DEF FirstOf
  <2>5. /\ i \in Joined(table) /\ Candidacy(i) /\ k \in Joined(table) /\ Candidacy(k)
    BY <1>1, <2>3, <2>4
  <2> HIDE DEF inner, map, C, rows, j
  <2>6. k.obs.survey >= o.survey
    <3>1. PICK a1 \in Int, d1 \in Int, e1 \in Int :
            /\ MapRank(j) = <<o.survey, a1, o.legal, d1, o.id, p.value, e1>>
            /\ o.survey \in Int
      <4>1. PICK a1 \in Int, d1 \in Int, e1 \in Int :
              /\ MapRank(j) = <<j.obs.survey, a1, j.obs.legal, d1, j.obs.id, j.opt.value, e1>>
              /\ j.obs.survey \in Int
        BY <1>3, <2>2, MapKeys, SMTT(30)
      <4>2. QED
        BY <2>2, <4>1
    <3>2. PICK a2 \in Int, d2 \in Int, e2 \in Int :
            /\ MapRank(k) = <<k.obs.survey, a2, k.obs.legal, d2, k.obs.id, k.opt.value, e2>>
            /\ k.obs.survey \in Int
      BY <1>3, <2>5, MapKeys, SMTT(30)
    <3>3. ~ (o.survey > k.obs.survey)
      BY <2>3, <3>1, <3>2, ByDay
    <3>4. QED
      BY <3>1, <3>2, <3>3
  <2>7. PICK b1 \in Int, d1 \in Int, e1 \in Int :
          /\ ScopeRank(k) = <<b1, k.obs.survey, d1, k.opt.value, e1>>
          /\ b1 = ScopeClass(k.obs) /\ k.obs.survey \in Int
    BY <1>3, <2>5, MapKeys, SMTT(30)
  <2>8. PICK b2 \in Int, d2 \in Int, e2 \in Int :
          /\ ScopeRank(i) = <<b2, i.obs.survey, d2, i.opt.value, e2>>
          /\ b2 = ScopeClass(i.obs) /\ i.obs.survey \in Int
    BY <1>3, <2>5, MapKeys, SMTT(30)
  <2>9. ~ (b1 > b2) /\ (b1 = b2 => ~ (k.obs.survey > i.obs.survey))
    <3>1. ASSUME b1 > b2 \/ (b1 = b2 /\ k.obs.survey > i.obs.survey) PROVE FALSE
      <4>1. PICK x \in Int, y \in Int : x = k.obs.survey /\ y = i.obs.survey
        BY <2>7, <2>8
      <4>2. Beats(<<b1, x, d1, k.opt.value, e1>>, <<b2, y, d2, i.opt.value, e2>>)
        BY <3>1, <4>1, ByScope
      <4>3. QED
        BY <2>4, <2>7, <2>8, <4>1, <4>2, Zenon
    <3>2. QED
      BY <3>1
  <2>10. ScopeClass(o) = b1
    BY <2>3, <2>7 DEF ScopeClass
  <2>11. ScopeClass(o) = ScopeClass(i.obs) => o.scope = i.obs.scope
    <3>1. o \in ObservationRow /\ i.obs \in ObservationRow
      BY <1>3, <2>5, JoinedRows DEF TableInv, TableOK
    <3>2. o.scope \in {"national", "regional", "local", "none"}
          /\ i.obs.scope \in {"national", "regional", "local", "none"}
      BY <3>1 DEF ObservationRow
    <3>3. QED
      BY <3>2 DEF ScopeClass
  <2>12. o.survey \in Int
    <3>1. o \in ObservationRow
      BY <1>3 DEF TableInv, TableOK
    <3>2. QED
      BY <3>1 DEF ObservationRow
  <2>13. QED
    BY <2>6, <2>7, <2>8, <2>9, <2>10, <2>11, <2>12
<1>4. ASSUME TableInv, Committed, NEW i \in map.items
      PROVE  i.opt.value = Max(Values(i.obs))
  <2>1. i \in inner /\ i \in C /\ i \in Joined(table)
    BY <1>1, <1>2
  <2>2. TableOK(table) /\ i.obs \in table /\ i.opt \in i.obs.options
    BY <1>4, <2>1, JoinedRows DEF TableInv
  <2>3. i = [obs |-> i.obs, opt |-> i.opt]
    <3> HIDE DEF inner, map, C, rows
    <3>1. QED
      BY <2>1 DEF Joined
  <2>4. i.opt.value \in Values(i.obs)
    <3>1. Candidacy([obs |-> i.obs, opt |-> i.opt])
      BY <2>1, <2>3
    <3>2. QED
      BY <2>2, <3>1 DEF Values
  <2>5. ASSUME NEW v \in Values(i.obs) PROVE v <= i.opt.value
    <3>1. PICK q \in i.obs.options : Candidacy([obs |-> i.obs, opt |-> q]) /\ v = q.value
      BY <2>5 DEF Values
    <3> DEFINE j == [obs |-> i.obs, opt |-> q]
    <3>2. j \in C /\ j \in Joined(table) /\ j.obs = i.obs /\ j.opt = q /\ Candidacy(j)
      <4>1. j \in Joined(table)
        BY <2>2, <3>1 DEF Joined
      <4>2. i.obs.verified
        BY <2>1
      <4>3. j.obs = i.obs /\ j.opt = q /\ Upto(j.obs, 0)
        BY DEF Upto
      <4> HIDE DEF inner, map, rows
      <4>4. QED
        BY <3>1, <4>1, <4>2, <4>3
    <3>3. ~ Beats(MapRank(j), MapRank(i))
      BY <2>1, <3>2 DEF FirstOf
    <3>4. PICK e1 \in Int :
            MapRank(j) = <<i.obs.survey, ChannelClass(i.obs), i.obs.legal, LastKnown(i.obs),
                           i.obs.id, v, e1>>
      <4>1. PICK a \in Int, d \in Int, e \in Int :
              MapRank(j) = <<j.obs.survey, a, j.obs.legal, d, j.obs.id, j.opt.value, e>>
        BY <1>4, <3>2, MapKeys
      <4>2. e = MapRank(j)[7]
        BY <4>1
      <4>3. MapRank(j) = <<j.obs.survey, ChannelClass(j.obs), j.obs.legal, LastKnown(j.obs),
                           j.obs.id, j.opt.value, - NameOrder[j.opt.name]>>
        BY DEF MapRank
      <4>4. e = - NameOrder[j.opt.name]
        BY <4>2, <4>3
      <4>5. QED
        BY <3>1, <3>2, <4>3, <4>4
    <3>5. MapRank(i) = <<i.obs.survey, ChannelClass(i.obs), i.obs.legal, LastKnown(i.obs),
                         i.obs.id, i.opt.value, - NameOrder[i.opt.name]>>
      BY DEF MapRank
    <3> HIDE DEF inner, map, C, rows, j
    <3>6. v \in Nat /\ i.opt.value \in Nat
      BY <2>2, <2>4, <2>5, ValuesFinite
    <3>7. v > i.opt.value => Beats(MapRank(j), MapRank(i))
      BY <3>4, <3>5, <3>6, ByValue
    <3>8. QED
      BY <3>3, <3>6, <3>7
  <2>6. /\ Values(i.obs) \subseteq Nat /\ Max(Values(i.obs)) \in Values(i.obs)
        /\ i.opt.value <= Max(Values(i.obs))
    BY <2>2, <2>4, ValuesFinite, MaxOfNumbers
  <2>7. QED
    BY <2>4, <2>5, <2>6
<1>5. ASSUME TableInv
      PROVE  map.total = Cardinality(map.items)
                           + MapThenSumSet(LAMBDA r : map.counts[r], DOMAIN map.counts)
  <2> DEFINE reason == [j \in rows |-> ExclusionReason(j)]
             dropped == {j \in rows : reason[j] \in reasons}
  <2>1. IsFiniteSet(rows)
    <3>1. rows \in SUBSET Joined(table) /\ IsFiniteSet(Joined(table))
      BY <1>1, <1>5, JoinedFinite DEF TableInv
    <3> HIDE DEF rows
    <3>2. QED
      BY <3>1, FS_Subset
  <2>2. IsFiniteSet(reasons)
    <3> DEFINE all == {ExclusionReason(j) : j \in rows}
    <3>1. reason \in Surjection(rows, all)
      BY DEF Surjection
    <3>2. IsFiniteSet(all)
      <4> HIDE DEF reason, all, rows
      <4>1. QED
        BY <2>1, <3>1, FS_Surjection
    <3>3. reasons = all \ {""}
      OBVIOUS
    <3> HIDE DEF all, reasons
    <3>4. QED
      BY <3>2, <3>3, FS_RemoveElement
  <2>3. \A r \in reasons : map.counts[r] = Cardinality({j \in rows : reason[j] = r})
    <3>1. ASSUME NEW r \in reasons
          PROVE  map.counts[r] = Cardinality({j \in rows : reason[j] = r})
      <4>1. map.counts[r] = Cardinality({j \in rows : ExclusionReason(j) = r})
        <5> HIDE DEF map, rows, reasons
        <5>1. QED
          BY <1>2
      <4>2. {j \in rows : ExclusionReason(j) = r} = {j \in rows : reason[j] = r}
        OBVIOUS
      <4>3. QED
        BY <4>1, <4>2, Zenon
    <3>2. QED
      BY <3>1
  <2>4. Total(map.counts, reasons) = Cardinality(dropped)
    <3> HIDE DEF map, rows, reasons, reason
    <3>1. QED
      BY <2>1, <2>2, <2>3, SumCounts
  <2>5. DOMAIN map.counts = reasons
    <3> HIDE DEF map, reasons
    <3>1. QED
      BY <1>2
  <2>6. Cardinality(rows) = Cardinality(map.items) + Cardinality(dropped)
    <3>1. rows = map.items \cup dropped /\ map.items \cap dropped = {}
      <4>1. dropped = {j \in rows : ExclusionReason(j) # ""}
        OBVIOUS
      <4> HIDE DEF dropped, map
      <4>2. QED
        BY <1>2, <4>1
    <3>2. IsFiniteSet(map.items) /\ IsFiniteSet(dropped)
      <4>1. map.items \in SUBSET rows /\ dropped \in SUBSET rows
        BY <1>2
      <4> HIDE DEF rows, dropped, map
      <4>2. QED
        BY <2>1, <4>1, FS_Subset
    <3> HIDE DEF rows, dropped, map
    <3>3. Cardinality(map.items \cup dropped)
            = Cardinality(map.items) + Cardinality(dropped) - Cardinality(map.items \cap dropped)
      BY <3>2, FS_Union
    <3>4. Cardinality(map.items) \in Nat /\ Cardinality(dropped) \in Nat /\ Cardinality({}) = 0
      BY <3>2, FS_CardinalityType, FS_EmptySet
    <3>5. Cardinality(map.items \cap dropped) = 0
      BY <3>1, <3>4, Zenon
    <3>6. Cardinality(rows)
            = Cardinality(map.items) + Cardinality(dropped) - Cardinality(map.items \cap dropped)
      BY <3>1, <3>3, Zenon
    <3>7. QED
      BY <3>4, <3>5, <3>6
  <2>7. Total(map.counts, DOMAIN map.counts) = Cardinality(dropped)
    <3> HIDE DEF map, dropped, reasons
    <3>1. QED
      BY <2>4, <2>5
  <2>8. map.total = Cardinality(map.items) + Total(map.counts, DOMAIN map.counts)
    <3> HIDE DEF map, dropped, rows
    <3>1. QED
      BY <1>2, <2>6, <2>7
  <2>9. QED
    BY <2>8 DEF Total
<1>6. TableInv /\ Committed => MapStandsForTheRegion
  BY <1>3, <1>4, <1>5 DEF MapStandsForTheRegion
<1>7. QED
  BY <1>6, CommittedInvariance, PTL

-----------------------------------------------------------------------------
(* The quality report.                                                     *)

\* Polls whose last known times are numbers.
Known(V) == IsFiniteSet(V) /\ \A o \in V : LastKnown(o) \in Int

Below(V, t, a) == {o \in V : Age(o, t) < a}
UptoAge(V, t, a) == {o \in V : Age(o, t) <= a}

IsNth(V, t, n, a) ==
  /\ a \in {Age(o, t) : o \in V}
  /\ n \in Cardinality(Below(V, t, a)) + 1 .. Cardinality(UptoAge(V, t, a))

LEMMA Counted ==
  ASSUME NEW V, Known(V), NEW t \in Int, NEW a \in Int
  PROVE  /\ IsFiniteSet(Below(V, t, a)) /\ Cardinality(Below(V, t, a)) \in Nat
         /\ IsFiniteSet(UptoAge(V, t, a)) /\ Cardinality(UptoAge(V, t, a)) \in Nat
         /\ Below(V, t, a) \subseteq V /\ UptoAge(V, t, a) \subseteq V
<1> DEFINE less == Below(V, t, a)
           upto == UptoAge(V, t, a)
<1>1. less \in SUBSET V /\ upto \in SUBSET V
  BY DEF Below, UptoAge
<1> HIDE DEF less, upto
<1>2. IsFiniteSet(less) /\ IsFiniteSet(upto)
  BY <1>1, FS_Subset DEF Known
<1>3. QED
  BY <1>1, <1>2, FS_CardinalityType DEF less, upto

LEMMA AgeIsNumber ==
  ASSUME NEW V, Known(V), NEW t \in Int, NEW o \in V
  PROVE  Age(o, t) \in Int /\ \A d \in Int : Age(o, t + d) = Age(o, t) + d
BY DEF Known, Age

\* Of finitely many polls there is an oldest and a youngest.
LEMMA OldestPoll ==
  ASSUME NEW S, IsFiniteSet(S), S # {}, NEW t \in Int, \A o \in S : Age(o, t) \in Int
  PROVE  /\ \E o \in S : \A q \in S : Age(q, t) <= Age(o, t)
         /\ \E o \in S : \A q \in S : Age(o, t) <= Age(q, t)
<1> DEFINE up == [o \in S |-> <<Age(o, t)>>]
           down == [o \in S |-> << - Age(o, t)>>]
<1>1. \A x \in Int : <<x>> \in Keys(1) /\ <<x>>[1] = x
  BY DEF Keys
<1>2. \A o \in S : Age(o, t) \in Int /\ - Age(o, t) \in Int
  OBVIOUS
<1>3. up \in [S -> Keys(1)] /\ down \in [S -> Keys(1)]
  BY <1>1, <1>2
<1>4. \A x, y \in Int : ~ Beats(<<x>>, <<y>>) => x <= y
  <2> SUFFICES ASSUME NEW x \in Int, NEW y \in Int, x > y PROVE Beats(<<x>>, <<y>>)
    OBVIOUS
  <2>1. 1 \in DOMAIN <<x>> /\ <<x>>[1] > <<y>>[1] /\ 1 .. 1 - 1 = {}
    OBVIOUS
  <2>2. QED
    BY <2>1 DEF Beats
<1>5. PICK o \in S : \A q \in S : ~ Beats(up[q], up[o])
  <2> HIDE DEF up
  <2>1. QED
    BY <1>3, UnbeatenExists
<1>6. PICK y \in S : \A q \in S : ~ Beats(down[q], down[y])
  <2> HIDE DEF down
  <2>1. QED
    BY <1>3, UnbeatenExists
<1>7. \A q \in S : Age(q, t) <= Age(o, t)
  BY <1>2, <1>4, <1>5
<1>8. \A q \in S : Age(y, t) <= Age(q, t)
  <2> SUFFICES ASSUME NEW q \in S PROVE Age(y, t) <= Age(q, t)
    OBVIOUS
  <2>1. - Age(q, t) <= - Age(y, t)
    BY <1>2, <1>4, <1>6
  <2>2. QED
    BY <1>2, <2>1
<1>9. QED
  BY <1>7, <1>8

LEMMA NthExists ==
  ASSUME NEW V, Known(V), NEW t \in Int, NEW n \in 1 .. Cardinality(V)
  PROVE  \E a : IsNth(V, t, n, a)
<1> DEFINE less(a) == Below(V, t, a)
           upto(a) == UptoAge(V, t, a)
           S == {o \in V : n <= Cardinality(upto(Age(o, t)))}
<1>1. Cardinality(V) \in Nat /\ IsFiniteSet(V) /\ \A o \in V : Age(o, t) \in Int
  BY FS_CardinalityType, AgeIsNumber DEF Known
<1>2. \A a \in Int : /\ IsFiniteSet(less(a)) /\ Cardinality(less(a)) \in Nat
                     /\ IsFiniteSet(upto(a)) /\ Cardinality(upto(a)) \in Nat
  BY Counted
<1>3. V # {}
  BY <1>1, FS_EmptySet
<1>4. PICK top \in V : \A q \in V : Age(q, t) <= Age(top, t)
  BY <1>1, <1>3, OldestPoll
<1>5. upto(Age(top, t)) = V
  BY <1>4 DEF UptoAge
<1>6. top \in S
  <2>1. n <= Cardinality(V)
    BY <1>1
  <2> HIDE DEF upto
  <2>2. n <= Cardinality(upto(Age(top, t)))
    BY <1>5, <2>1
  <2>3. QED
    BY <2>2
<1>7. IsFiniteSet(S) /\ S \subseteq V
  <2>1. S \in SUBSET V
    OBVIOUS
  <2> HIDE DEF S
  <2>2. QED
    BY <1>1, <2>1, FS_Subset
<1>8. PICK o \in S : \A q \in S : Age(o, t) <= Age(q, t)
  <2> HIDE DEF S
  <2>1. S # {} /\ \A q \in S : Age(q, t) \in Int
    BY <1>1, <1>6, <1>7
  <2>2. QED
    BY <1>7, <2>1, OldestPoll
<1>9. Age(o, t) \in Int /\ n <= Cardinality(upto(Age(o, t)))
  BY <1>1, <1>7
<1>10. Cardinality(less(Age(o, t))) < n
  <2> DEFINE L == less(Age(o, t))
  <2>1. IsFiniteSet(L) /\ Cardinality(L) \in Nat /\ L \subseteq V
    BY <1>9, Counted
  <2>2. CASE L = {}
    BY <1>1, <2>2, FS_EmptySet
  <2>3. CASE L # {}
    <3>1. \A q \in L : Age(q, t) \in Int /\ Age(q, t) < Age(o, t)
      BY <1>1 DEF Below
    <3> HIDE DEF L
    <3>2. PICK q \in L : \A x \in L : Age(x, t) <= Age(q, t)
      BY <2>1, <2>3, <3>1, OldestPoll
    <3>3. L \in SUBSET upto(Age(q, t))
      BY <2>1, <3>2 DEF UptoAge
    <3>4. IsFiniteSet(upto(Age(q, t))) /\ Cardinality(upto(Age(q, t))) \in Nat
      BY <1>2, <3>1, <3>2
    <3>5. Cardinality(L) <= Cardinality(upto(Age(q, t)))
      <4> HIDE DEF upto
      <4>1. QED
        BY <3>3, <3>4, FS_Subset
    <3>6. q \notin S
      BY <1>8, <1>9, <3>1, <3>2
    <3>7. ~ (n <= Cardinality(upto(Age(q, t))))
      BY <2>1, <3>2, <3>6
    <3> HIDE DEF upto
    <3>8. Cardinality(L) < n
      BY <2>1, <3>4, <3>5, <3>7
    <3>9. QED
      BY <3>8 DEF L
  <2>4. QED
    BY <2>2, <2>3
<1>11. Cardinality(less(Age(o, t))) \in Nat /\ Cardinality(upto(Age(o, t))) \in Nat
  BY <1>2, <1>9
<1>12. n \in Cardinality(less(Age(o, t))) + 1 .. Cardinality(upto(Age(o, t)))
  <2> HIDE DEF less, upto, S
  <2>1. QED
    BY <1>9, <1>10, <1>11
<1>13. IsNth(V, t, n, Age(o, t))
  BY <1>7, <1>12 DEF IsNth
<1>14. QED
  BY <1>13

LEMMA NthUnique ==
  ASSUME NEW V, Known(V), NEW t \in Int, NEW n \in Nat, NEW a, NEW b,
         IsNth(V, t, n, a), IsNth(V, t, n, b)
  PROVE  a = b /\ a \in Int
<1>1. a \in Int /\ b \in Int
  BY AgeIsNumber DEF IsNth
<1>2. ASSUME NEW x \in Int, NEW y \in Int, x < y, IsNth(V, t, n, x), IsNth(V, t, n, y) PROVE FALSE
  <2> DEFINE less == Below(V, t, y)
             upto == UptoAge(V, t, x)
  <2>1. upto \in SUBSET less
    <3>1. \A o \in V : Age(o, t) \in Int
      BY AgeIsNumber
    <3>2. QED
      BY <1>2, <3>1 DEF Below, UptoAge
  <2>2. /\ IsFiniteSet(less) /\ Cardinality(less) \in Nat
        /\ IsFiniteSet(upto) /\ Cardinality(upto) \in Nat
    BY Counted
  <2>3. n <= Cardinality(upto) /\ Cardinality(less) + 1 <= n
    BY <1>2 DEF IsNth
  <2> HIDE DEF less, upto
  <2>4. Cardinality(upto) <= Cardinality(less)
    BY <2>1, <2>2, FS_Subset
  <2>5. QED
    BY <2>2, <2>3, <2>4
<1>3. ~ (a < b) /\ ~ (b < a)
  BY <1>1, <1>2
<1>4. QED
  BY <1>1, <1>3

\* As time passes every place in the order of ages gets older by the same.
LEMMA AgesShift ==
  ASSUME NEW V, Known(V), NEW t \in Int, NEW d \in Int, NEW n \in 1 .. Cardinality(V)
  PROVE  NthAge(V, t, n) \in Int /\ NthAge(V, t + d, n) = NthAge(V, t, n) + d
<1> DEFINE a == NthAge(V, t, n)
           b == NthAge(V, t + d, n)
<1>1. \A s : NthAge(V, s, n) = CHOOSE x : IsNth(V, s, n, x)
  BY DEF NthAge, IsNth, Below, UptoAge
<1>2. t + d \in Int /\ n \in Nat
  <2>1. Cardinality(V) \in Nat
    BY FS_CardinalityType DEF Known
  <2>2. QED
    BY <2>1
<1>3. IsNth(V, t, n, a) /\ IsNth(V, t + d, n, b)
  BY <1>1, <1>2, NthExists
<1>4. a \in Int
  BY <1>2, <1>3, NthUnique
<1> HIDE DEF a, b
<1>5. \A o \in V : Age(o, t) \in Int /\ Age(o, t + d) = Age(o, t) + d
  BY AgeIsNumber
<1>6. IsNth(V, t + d, n, a + d)
  <2>1. a + d \in {Age(o, t + d) : o \in V}
    BY <1>3, <1>5 DEF IsNth
  <2>2. Below(V, t + d, a + d) = Below(V, t, a)
    BY <1>4, <1>5 DEF Below
  <2>3. UptoAge(V, t + d, a + d) = UptoAge(V, t, a)
    BY <1>4, <1>5 DEF UptoAge
  <2>4. QED
    BY <1>3, <2>1, <2>2, <2>3 DEF IsNth
<1>7. b = a + d
  BY <1>2, <1>3, <1>6, NthUnique
<1>8. QED
  BY <1>4, <1>7 DEF a, b

\* No fewer polls are older than so many days later on.
LEMMA OlderGrows ==
  ASSUME NEW V, Known(V), NEW t \in Int, NEW d \in Nat, NEW days \in Nat
  PROVE  /\ Older(V, t, days) \in Nat /\ Older(V, t + d, days) \in Nat
         /\ Older(V, t, days) <= Older(V, t + d, days)
<1> DEFINE A == {o \in V : Age(o, t) > days * Day}
           B == {o \in V : Age(o, t + d) > days * Day}
<1>1. days * Day \in Int
  BY ReadsAssumption
<1>2. \A o \in V : Age(o, t) \in Int /\ Age(o, t + d) = Age(o, t) + d
  BY AgeIsNumber
<1>3. A \in SUBSET B
  <2> DEFINE m == days * Day
  <2>1. m \in Int
    BY <1>1
  <2> HIDE DEF m
  <2>2. {o \in V : Age(o, t) > m} \subseteq {o \in V : Age(o, t + d) > m}
    BY <1>2, <2>1
  <2>3. QED
    BY <2>2 DEF m
<1>4. A \in SUBSET V /\ B \in SUBSET V
  OBVIOUS
<1> HIDE DEF A, B
<1>5. IsFiniteSet(A) /\ IsFiniteSet(B)
  BY <1>4, FS_Subset DEF Known
<1>6. Cardinality(A) <= Cardinality(B) /\ Cardinality(A) \in Nat /\ Cardinality(B) \in Nat
  BY <1>3, <1>5, FS_Subset, FS_CardinalityType
<1>7. QED
  BY <1>6 DEF Older, A, B

\* The percentile grows with the ages.
LEMMA PercentileShift ==
  ASSUME NEW n \in Nat \ {0}, NEW s \in [1 .. n -> Int], NEW r \in [1 .. n -> Int], NEW d \in Nat,
         \A i \in 1 .. n : r[i] = s[i] + d
  PROVE  /\ PercentileTen(s, 9) \in Int /\ PercentileTen(r, 9) = PercentileTen(s, 9) + 10 * d
<1> DEFINE low == (9 * (n - 1)) \div 10
           rest == (9 * (n - 1)) % 10
           high == IF low + 2 > n THEN n ELSE low + 2
<1>1. Len(s) = n /\ Len(r) = n
  OBVIOUS
<1>2. low \in Nat /\ low <= n - 1 /\ rest \in 0 .. 9
  OBVIOUS
<1>3. /\ PercentileTen(s, 9) = (10 - rest) * s[low + 1] + rest * s[high]
      /\ PercentileTen(r, 9) = (10 - rest) * r[low + 1] + rest * r[high]
  BY <1>1 DEF PercentileTen
<1> HIDE DEF low, rest
<1>4. low + 1 \in 1 .. n /\ high \in 1 .. n
  BY <1>2
<1> HIDE DEF high
<1>5. /\ s[low + 1] \in Int /\ s[high] \in Int
      /\ r[low + 1] = s[low + 1] + d /\ r[high] = s[high] + d
  BY <1>4
<1>6. ASSUME NEW x \in Int, NEW y \in Int, NEW k \in 0 .. 9
      PROVE  /\ (10 - k) * x + k * y \in Int
             /\ (10 - k) * (x + d) + k * (y + d) = ((10 - k) * x + k * y) + 10 * d
  <2>1. CASE k \in {0, 1, 2, 3, 4}
    BY <2>1
  <2>2. CASE k \in {5, 6, 7, 8, 9}
    BY <2>2
  <2>3. QED
    BY <2>1, <2>2
<1>7. ASSUME NEW x \in Int, NEW y \in Int, s[low + 1] = x, s[high] = y
      PROVE  PercentileTen(s, 9) \in Int /\ PercentileTen(r, 9) = PercentileTen(s, 9) + 10 * d
  <2>1. /\ PercentileTen(s, 9) = (10 - rest) * x + rest * y
        /\ PercentileTen(r, 9) = (10 - rest) * (x + d) + rest * (y + d)
    BY <1>3, <1>5, <1>7
  <2>2. /\ (10 - rest) * x + rest * y \in Int
        /\ (10 - rest) * (x + d) + rest * (y + d) = ((10 - rest) * x + rest * y) + 10 * d
    BY <1>2, <1>6
  <2>3. QED
    BY <2>1, <2>2, Zenon
<1>8. QED
  BY <1>5, <1>7

Levels == {"healthy", "warn", "critical"}

\* Every part of the report is as bad as before or worse.
LEMMA FreshnessAges ==
  ASSUME NEW V, Known(V), NEW t \in Int, NEW d \in Nat
  PROVE  /\ FreshnessStatus(V, t) \in Levels /\ FreshnessStatus(V, t + d) \in Levels
         /\ Severity[FreshnessStatus(V, t)] <= Severity[FreshnessStatus(V, t + d)]
<1> DEFINE n == Cardinality(V)
           P(u) == PercentileTen([i \in 1 .. n |-> NthAge(V, u, i)], 9)
           bad(u) == P(u) > 30 * Day \/ 10 * Older(V, u, 2) >= 3 * n
           poor(u) == P(u) > 20 * Day \/ 10 * Older(V, u, 1) >= 3 * n
<1>1. n \in Nat
  BY FS_CardinalityType DEF Known
<1>2. \A u : FreshnessStatus(V, u) = IF n = 0 THEN "warn"
                                     ELSE IF bad(u) THEN "critical" ELSE IF poor(u) THEN "warn" ELSE "healthy"
  BY DEF FreshnessStatus
<1>3. n # 0 => (bad(t) => bad(t + d)) /\ (poor(t) => poor(t + d))
  <2> SUFFICES ASSUME n # 0 PROVE (bad(t) => bad(t + d)) /\ (poor(t) => poor(t + d))
    OBVIOUS
  <2>1. \A i \in 1 .. n : NthAge(V, t, i) \in Int /\ NthAge(V, t + d, i) = NthAge(V, t, i) + d
    BY AgesShift
  <2> DEFINE s == [i \in 1 .. n |-> NthAge(V, t, i)]
             r == [i \in 1 .. n |-> NthAge(V, t + d, i)]
  <2>2. \A i \in 1 .. n : NthAge(V, t + d, i) \in Int
    BY <2>1
  <2>3. s \in [1 .. n -> Int] /\ r \in [1 .. n -> Int] /\ \A i \in 1 .. n : r[i] = s[i] + d
    BY <2>1, <2>2
  <2>4. P(t) = PercentileTen(s, 9) /\ P(t + d) = PercentileTen(r, 9)
    OBVIOUS
  <2> HIDE DEF s, r, P
  <2>5. P(t) \in Int /\ P(t + d) = P(t) + 10 * d
    <3> HIDE DEF n
    <3>1. n \in Nat \ {0}
      BY <1>1
    <3>2. /\ PercentileTen(s, 9) \in Int
          /\ PercentileTen(r, 9) = PercentileTen(s, 9) + 10 * d
      BY <2>3, <3>1, PercentileShift
    <3>3. QED
      BY <2>4, <3>2, Zenon
  <2>6. 30 * Day \in Int /\ 20 * Day \in Int
    BY ReadsAssumption
  <2>7. /\ Older(V, t, 1) \in Nat /\ Older(V, t + d, 1) \in Nat /\ Older(V, t, 1) <= Older(V, t + d, 1)
        /\ Older(V, t, 2) \in Nat /\ Older(V, t + d, 2) \in Nat /\ Older(V, t, 2) <= Older(V, t + d, 2)
    BY OlderGrows
  <2> HIDE DEF n
  <2>8. QED
    BY <1>1, <2>5, <2>6, <2>7
<1> HIDE DEF bad, poor, n
<1>4. QED
  BY <1>2, <1>3 DEF Severity, Levels

LEMMA WorstGrows ==
  ASSUME NEW a \in Levels, NEW b \in Levels, NEW x \in Levels, NEW y \in Levels,
         Severity[a] <= Severity[b]
  PROVE  Severity[Worst({a, x, y})] <= Severity[Worst({b, x, y})]
BY DEF Severity, Levels, Worst

LEMMA ReportAges ==
  ASSUME TableInv, NEW t \in Nat, NEW d \in Nat, NEW k
  PROVE  Severity[QualityStatus(table, t, k, 0)] <= Severity[QualityStatus(table, t + d, k, 0)]
<1> DEFINE V == {o \in table : o.verified}
           a == FreshnessStatus(V, t)
           b == FreshnessStatus(V, t + d)
           x == OfficialStatus(V)
           y == ReviewStatus(k, 0)
<1>1. Known(V)
  <2>1. IsFiniteSet(V)
    <3>1. V \in SUBSET table
      OBVIOUS
    <3> HIDE DEF V
    <3>2. QED
      BY <3>1, FS_Subset DEF TableInv, TableOK
  <2>2. ASSUME NEW o \in V PROVE LastKnown(o) \in Int
    <3>1. o.release \in Nat /\ o.published \in Nat /\ o.updated \in Nat
      BY DEF TableInv, TableOK, ObservationRow
    <3> DEFINE times == <<o.release, o.published, o.updated>>
    <3>2. times \in [1 .. 3 -> Nat] /\ 3 \in Nat
      BY <3>1
    <3>3. LastKnown(o) = FirstSet(times)
      BY DEF LastKnown
    <3> HIDE DEF times
    <3>4. FirstSet(times) \in Nat
      BY <3>2, FirstSetType
    <3>5. QED
      BY <3>3, <3>4
  <2>3. QED
    BY <2>1, <2>2 DEF Known
<1>2. QualityStatus(table, t, k, 0) = Worst({a, x, y}) /\ QualityStatus(table, t + d, k, 0) = Worst({b, x, y})
  BY DEF QualityStatus
<1>3. x \in Levels /\ y \in Levels
  BY DEF OfficialStatus, ReviewStatus, Levels
<1> HIDE DEF V
<1>4. a \in Levels /\ b \in Levels /\ Severity[a] <= Severity[b]
  BY <1>1, FreshnessAges
<1> HIDE DEF a, b, x, y
<1>5. QED
  BY <1>2, <1>3, <1>4, WorstGrows

\* Whatever the polls and however the review goes: as long as the table stays the same,
\* time alone never makes the quality report (GET /dashboard/quality) better.
THEOREM QualityTheorem == Spec => QualityOnlyAges
<1> DEFINE Clock == now \in Nat
           Ages == table' = table =>
             Severity[QualityStatus(table, now', Cardinality(open), 0)]
               >= Severity[QualityStatus(table, now, Cardinality(open), 0)]
<1>1. Init => Clock
  BY DEF Init
<1>2. Clock /\ [Next]_vars => Clock'
  <2>1. [Next]_vars => now' = now \/ now' = now + 1
    BY DEF Next, StoreNew, StoreAgain, ViewMatchup, Decide, Tick, vars
  <2>2. QED
    BY <2>1
<1>3. TableInv /\ Clock /\ [Next]_vars => [Ages]_<<now, table>>
  <2> SUFFICES ASSUME TableInv, Clock, [Next]_vars, table' = table, ~ UNCHANGED <<now, table>> PROVE Ages
    OBVIOUS
  <2>1. now' # now
    OBVIOUS
  <2>2. now' = now + 1
    BY <2>1 DEF Next, StoreNew, StoreAgain, ViewMatchup, Decide, Tick, vars
  <2> DEFINE k == Cardinality(open)
             u == Severity[QualityStatus(table, now, k, 0)]
             v == Severity[QualityStatus(table, now', k, 0)]
  <2>3. u <= v
    <3> HIDE DEF k
    <3>1. QED
      BY <2>2, ReportAges
  <2>4. QED
    BY <2>3
<1>4. QED
  BY <1>1, <1>2, <1>3, TableInvariance, PTL DEF Spec, QualityOnlyAges
=============================================================================
