---------------------------- MODULE Enrich_proofs ----------------------------
(***************************************************************************)
(* What the enricher leaves in the tables, for any band plan, events and   *)
(* notes, wherever it is killed and whatever is written meanwhile.         *)
(***************************************************************************)
EXTENDS Enrich, WellFoundedInduction, SequenceTheorems, FiniteSetTheorems, TLAPS

\* A set of natural numbers that is not empty has a least element, and Min
\* is it.
LEMMA MinOfNaturals ==
    ASSUME NEW S \in SUBSET Nat, S # {}
    PROVE  Min(S) \in S /\ \A y \in S : Min(S) <= y
<1>1. \E x \in S : \A y \in S : ~ (<<y, x>> \in OpToRel(<, Nat))
  BY NatLessThanWellFounded, WFMin, Zenon
<1>2. PICK x \in S : \A y \in S : ~ (<<y, x>> \in OpToRel(<, Nat))
  BY <1>1
<1>3. \A y \in S : ~ (y < x)
  BY <1>2, Zenon DEF OpToRel
<1>4. \A y \in S : x <= y
  BY <1>3
<1>. QED
  BY <1>4 DEF Min

\* The distance of two frequencies
LEMMA DistanceType ==
    ASSUME NEW f \in Int, NEW g \in Int
    PROVE  Distance(f, g) \in Nat
BY DEF Distance

-----------------------------------------------------------------------------
(* Extremes and ranks, for any events.                                     *)

\* Of things that are counted one has the smallest count.
LEMMA Fewest ==
    ASSUME NEW S, S # {}, NEW c \in [S -> Nat]
    PROVE  \E x \in S : \A y \in S : c[x] <= c[y]
<1>1. {c[x] : x \in S} \in SUBSET Nat /\ {c[x] : x \in S} # {}
  OBVIOUS
<1>2. PICK x \in S : Min({c[y] : y \in S}) = c[x]
  BY <1>1, MinOfNaturals
<1>. QED
  BY <1>1, <1>2, MinOfNaturals

\* Finitely many things that are counted: one has the highest count.
LEMMA Highest ==
    ASSUME NEW S, IsFiniteSet(S), S # {}, NEW c \in [S -> Nat]
    PROVE  \E x \in S : \A y \in S : c[y] <= c[x]
<1>. DEFINE over(x) == {y \in S : c[x] < c[y]}
            overs == {over(x) : x \in S}
<1>1. overs \subseteq FiniteSubsetsOf(S) /\ overs # {}
  <2>1. \A x \in S : over(x) \in SUBSET S /\ IsFiniteSet(over(x))
    BY FS_Subset
  <2>2. \A x \in S : over(x) \in FiniteSubsetsOf(S)
    <3>. HIDE DEF over
    <3>. QED
      BY <2>1 DEF FiniteSubsetsOf
  <2>3. overs # {}
    <3>1. PICK x \in S : TRUE
      OBVIOUS
    <3>2. over(x) \in overs
      BY <3>1
    <3>. HIDE DEF overs
    <3>. QED
      BY <3>2
  <2>. QED
    BY <2>2, <2>3
<1>2. \E T \in overs : \A U \in overs : ~(<<U, T>> \in StrictSubsetOrdering(S))
  <2>. HIDE DEF overs
  <2>. QED
    BY <1>1, FS_StrictSubsetOrderingWellFounded, WFMin, Zenon
<1>3. PICK x \in S : \A y \in S : ~(<<over(y), over(x)>> \in StrictSubsetOrdering(S))
  BY <1>2
<1>4. ASSUME NEW y \in S PROVE c[y] <= c[x]
  <2>. SUFFICES ASSUME c[x] < c[y] PROVE FALSE
    OBVIOUS
  <2>1. y \in over(x) /\ y \notin over(y) /\ over(y) \subseteq over(x)
    OBVIOUS
  <2>2. <<over(y), over(x)>> \in (SUBSET S) \X (SUBSET S)
    OBVIOUS
  <2>. HIDE DEF over
  <2>3. <<over(y), over(x)>> \in StrictSubsetOrdering(S)
    BY <2>1, <2>2 DEF StrictSubsetOrdering
  <2>. QED
    BY <1>3, <2>3
<1>. QED
  BY <1>4

\* Max of a set of numbers
LEMMA MaxOfNaturals ==
    ASSUME NEW S \in SUBSET Nat, S # {}, IsFiniteSet(S)
    PROVE  Max(S) \in S /\ \A y \in S : y <= Max(S)
<1>. DEFINE same == [x \in S |-> x]
<1>1. same \in [S -> Nat]
  OBVIOUS
<1>2. PICK x \in S : \A y \in S : same[y] <= same[x]
  <2>. HIDE DEF same
  <2>. QED
    BY <1>1, Highest
<1>3. \E z \in S : \A y \in S : z >= y
  BY <1>2
<1>. QED
  BY <1>3 DEF Max

\* Ranks are values.
LEMMA RankedIn ==
    ASSUME NEW evs, IsFiniteSet(evs), NEW field, \A e \in evs : e[field] \in Nat,
           NEW k \in 1 .. Cardinality(evs)
    PROVE  \E e \in evs : Ranked(evs, field, k) = e[field]
<1>. DEFINE upTo(e) == {d \in evs : d[field] <= e[field]}
            values == {e[field] : e \in {d \in evs : k <= Cardinality(upTo(d))}}
<1>1. Cardinality(evs) \in Nat /\ k <= Cardinality(evs) /\ evs # {}
  BY FS_CardinalityType, FS_EmptySet
<1>2. values \in SUBSET Nat /\ values # {}
  <2>1. PICK e \in evs : \A d \in evs : d[field] <= e[field]
    <3>. DEFINE c == [e \in evs |-> e[field]]
    <3>1. c \in [evs -> Nat]
      OBVIOUS
    <3>2. PICK e \in evs : \A d \in evs : c[d] <= c[e]
      <4>. HIDE DEF c
      <4>. QED
        BY <1>1, <3>1, Highest
    <3>. QED
      BY <3>2
  <2>2. upTo(e) = evs
    BY <2>1
  <2>. QED
    BY <1>1, <2>2
<1>3. Ranked(evs, field, k) = Min(values)
  BY DEF Ranked
<1>4. Min(values) \in values
  <2>. HIDE DEF values
  <2>. QED
    BY <1>2, MinOfNaturals
<1>. QED
  BY <1>3, <1>4

\* The median, a sum of two values, is between two of the values.
LEMMA MedianBetween ==
    ASSUME NEW evs, IsFiniteSet(evs), evs # {}, NEW field, \A e \in evs : e[field] \in Nat
    PROVE  /\ TwiceMedian(evs, field) \in Int
           /\ \E a, b \in evs : /\ 2 * a[field] <= TwiceMedian(evs, field)
                                /\ TwiceMedian(evs, field) <= 2 * b[field]
<1>. DEFINE n == Cardinality(evs)
<1>1. n \in Nat \ {0}
  BY FS_CardinalityType, FS_EmptySet
<1>2. (n + 1) \div 2 \in 1 .. n /\ n \div 2 + 1 \in 1 .. n
  BY <1>1
<1>3. PICK x \in evs : Ranked(evs, field, (n + 1) \div 2) = x[field]
  BY <1>2, RankedIn
<1>4. PICK y \in evs : Ranked(evs, field, n \div 2 + 1) = y[field]
  BY <1>2, RankedIn
<1>5. TwiceMedian(evs, field) = x[field] + y[field]
  BY <1>3, <1>4 DEF TwiceMedian
<1>6. x[field] \in Int /\ y[field] \in Int
  OBVIOUS
<1>7. CASE x[field] <= y[field]
  BY <1>5, <1>6, <1>7
<1>8. CASE y[field] <= x[field]
  BY <1>5, <1>6, <1>8
<1>. QED
  BY <1>6, <1>7, <1>8

-----------------------------------------------------------------------------
(* The bins of frequencies that are of no channel.                         *)

LEMMA DivMod ==
    ASSUME NEW a \in Int, NEW b \in Nat \ {0}
    PROVE  a = b * (a \div b) + (a % b) /\ a % b \in 0 .. b - 1 /\ a \div b \in Int
OBVIOUS

\* f is rounded to n times the width of a bin.
InBin(f, n) ==
    /\ FreqBin * n - FreqBin <= 2 * f - FreqBin * n
    /\ 2 * f - FreqBin * n <= FreqBin * n + FreqBin
    /\ 2 * f = 2 * (FreqBin * n) - FreqBin \/ 2 * f = 2 * (FreqBin * n) + FreqBin => n % 2 = 0

LEMMA BinnedIs ==
    ASSUME NEW f \in Nat
    PROVE  \E n \in Nat : Binned(f) = FreqBin * n /\ FreqBin * n \in Nat /\ InBin(f, n)
<1>. DEFINE q == f \div FreqBin
            r == f % FreqBin
<1>1. FreqBin \in Nat \ {0}
  BY PlanAssumption
<1>2. f = FreqBin * q + r /\ r \in 0 .. FreqBin - 1 /\ q \in Nat
  <2>1. f = FreqBin * q + r /\ r \in 0 .. FreqBin - 1 /\ q \in Int
    BY <1>1, DivMod
  <2>2. ASSUME q <= -1 PROVE FreqBin * q <= FreqBin * (-1)
    BY <1>1, <2>1, <2>2
  <2>. HIDE DEF q, r
  <2>3. FreqBin * q \in Int
    BY <1>1, <2>1
  <2>. QED
    BY <1>1, <2>1, <2>2, <2>3
<1>3. FreqBin * q \in Nat /\ FreqBin * (q + 1) = FreqBin * q + FreqBin
  BY <1>1, <1>2
<1>4. Binned(f) = FreqBin * (IF 2 * r > FreqBin \/ (2 * r = FreqBin /\ q % 2 = 1) THEN q + 1 ELSE q)
  BY DEF Binned
<1>. HIDE DEF q, r
<1>5. CASE 2 * r > FreqBin \/ (2 * r = FreqBin /\ q % 2 = 1)
  <2>1. q % 2 = 1 => (q + 1) % 2 = 0
    BY <1>2
  <2>2. InBin(f, q + 1)
    BY <1>1, <1>2, <1>3, <1>5, <2>1 DEF InBin
  <2>3. Binned(f) = FreqBin * (q + 1)
    BY <1>4, <1>5
  <2>4. FreqBin * (q + 1) \in Nat /\ q + 1 \in Nat
    BY <1>1, <1>2, <1>3
  <2>. QED
    BY <2>2, <2>3, <2>4
<1>6. CASE ~(2 * r > FreqBin \/ (2 * r = FreqBin /\ q % 2 = 1))
  <2>1. q % 2 # 1 => q % 2 = 0
    BY <1>2
  <2>2. InBin(f, q)
    BY <1>1, <1>2, <1>3, <1>6, <2>1 DEF InBin
  <2>3. Binned(f) = FreqBin * q
    BY <1>4, <1>6
  <2>. QED
    BY <1>2, <1>3, <2>2, <2>3
<1>. QED
  BY <1>5, <1>6

LEMMA OneBin ==
    ASSUME NEW f \in Nat, NEW n \in Nat, NEW m \in Nat, InBin(f, n), InBin(f, m)
    PROVE  n = m
<1>1. FreqBin \in Nat \ {0}
  BY PlanAssumption
<1>2. \A i, j \in Nat : i < j => FreqBin * i + FreqBin <= FreqBin * j /\ FreqBin * i \in Nat /\ FreqBin * j \in Nat
  <2>. SUFFICES ASSUME NEW i \in Nat, NEW j \in Nat, i < j
                PROVE  FreqBin * i + FreqBin <= FreqBin * j /\ FreqBin * i \in Nat /\ FreqBin * j \in Nat
    OBVIOUS
  <2>1. PICK d \in Nat : j = i + 1 + d
    <3>1. j - i - 1 \in Nat /\ j = i + 1 + (j - i - 1)
      OBVIOUS
    <3>. QED
      BY <3>1
  <2>2. FreqBin * j = FreqBin * i + FreqBin + FreqBin * d /\ FreqBin * d \in Nat
    BY <1>1, <2>1
  <2>. QED
    BY <1>1, <2>2
<1>3. \A i, j \in Nat : i < j /\ FreqBin * j = FreqBin * i + FreqBin => j = i + 1
  <2>. SUFFICES ASSUME NEW i \in Nat, NEW j \in Nat, i < j, FreqBin * j = FreqBin * i + FreqBin, i + 1 < j
                PROVE  FALSE
    OBVIOUS
  <2>1. FreqBin * (i + 1) = FreqBin * i + FreqBin
    BY <1>1
  <2>2. FreqBin * (i + 1) + FreqBin <= FreqBin * j
    BY <1>2
  <2>3. FreqBin * i \in Nat
    BY <1>1
  <2>. QED
    BY <1>1, <2>1, <2>2, <2>3
<1>4. ASSUME NEW i \in Nat, NEW j \in Nat, InBin(f, i), InBin(f, j), i < j
      PROVE  FALSE
  <2>1. FreqBin * i + FreqBin <= FreqBin * j /\ FreqBin * i \in Nat /\ FreqBin * j \in Nat
    BY <1>2, <1>4
  <2>2. 2 * f <= 2 * (FreqBin * i) + FreqBin /\ 2 * (FreqBin * j) - FreqBin <= 2 * f
    BY <1>1, <1>4, <2>1 DEF InBin
  <2>3. FreqBin * j = FreqBin * i + FreqBin /\ 2 * f = 2 * (FreqBin * i) + FreqBin
        /\ 2 * f = 2 * (FreqBin * j) - FreqBin
    BY <1>1, <2>1, <2>2
  <2>4. j = i + 1
    BY <1>3, <1>4, <2>3
  <2>5. i % 2 = 0 /\ j % 2 = 0
    BY <1>4, <2>3 DEF InBin
  <2>. QED
    BY <2>4, <2>5
<1>. QED
  BY <1>4

LEMMA BinnedNear ==
    ASSUME NEW f \in Nat
    PROVE  /\ Binned(f) \in Nat
           /\ 2 * Binned(f) - FreqBin <= 2 * f /\ 2 * f <= 2 * Binned(f) + FreqBin
<1>1. PICK n \in Nat : Binned(f) = FreqBin * n /\ FreqBin * n \in Nat /\ InBin(f, n)
  BY BinnedIs
<1>2. FreqBin \in Nat \ {0}
  BY PlanAssumption
<1>. QED
  BY <1>1, <1>2 DEF InBin

LEMMA BinnedTwice ==
    ASSUME NEW f \in Nat
    PROVE  Binned(Binned(f)) = Binned(f)
<1>1. PICK n \in Nat : Binned(f) = FreqBin * n /\ FreqBin * n \in Nat /\ InBin(f, n)
  BY BinnedIs
<1>2. FreqBin \in Nat \ {0}
  BY PlanAssumption
<1>3. InBin(FreqBin * n, n)
  BY <1>1, <1>2 DEF InBin
<1>4. PICK m \in Nat : Binned(FreqBin * n) = FreqBin * m /\ InBin(FreqBin * n, m)
  BY <1>1, BinnedIs
<1>5. m = n
  BY <1>1, <1>3, <1>4, OneBin
<1>. QED
  BY <1>1, <1>4, <1>5

\* What lies between two frequencies of a bin is in it.
LEMMA SameBin ==
    ASSUME NEW a \in Nat, NEW b \in Nat, NEW f \in Nat, a <= f, f <= b, Binned(a) = Binned(b)
    PROVE  Binned(f) = Binned(a) /\ b - a <= FreqBin
<1>1. PICK n \in Nat : Binned(a) = FreqBin * n /\ FreqBin * n \in Nat /\ InBin(a, n)
  BY BinnedIs
<1>2. PICK m \in Nat : Binned(b) = FreqBin * m /\ FreqBin * m \in Nat /\ InBin(b, m)
  BY BinnedIs
<1>3. FreqBin \in Nat \ {0}
  BY PlanAssumption
<1>4. n = m
  <2>1. \A i, j \in Nat : i < j => FreqBin * i # FreqBin * j
    <3>. SUFFICES ASSUME NEW i \in Nat, NEW j \in Nat, i < j PROVE FreqBin * i # FreqBin * j
      OBVIOUS
    <3>1. PICK d \in Nat \ {0} : j = i + d
      <4>1. j - i \in Nat \ {0} /\ j = i + (j - i)
        OBVIOUS
      <4>. QED
        BY <4>1
    <3>2. FreqBin * j = FreqBin * i + FreqBin * d
      BY <1>3, <3>1
    <3>3. FreqBin * d > 0 /\ FreqBin * d \in Nat /\ FreqBin * i \in Nat
      BY <1>3
    <3>. QED
      BY <3>2, <3>3
  <2>2. FreqBin * n = FreqBin * m
    BY <1>1, <1>2
  <2>3. ~(n < m) /\ ~(m < n)
    BY <2>1, <2>2
  <2>. QED
    BY <2>3
<1>5. InBin(f, n)
  BY <1>1, <1>2, <1>3, <1>4 DEF InBin
<1>6. PICK k \in Nat : Binned(f) = FreqBin * k /\ InBin(f, k)
  BY BinnedIs
<1>7. k = n
  BY <1>5, <1>6, OneBin
<1>8. b - a <= FreqBin
  BY <1>1, <1>2, <1>3, <1>4 DEF InBin
<1>. QED
  BY <1>1, <1>6, <1>7, <1>8

-----------------------------------------------------------------------------
(* What a frequency matches in the plan.                                   *)

Centers == {r.center : r \in {s \in Plan : s.kind = "channel"}}

Covered(f) == \E r \in Plan : r.kind = "channel" /\ r.lo <= f /\ f <= r.hi

\* The frequencies a row of the table channels may have
Settled(f) == f \in Centers \/ ~Covered(f)

LEMMA RowOfPlan ==
    ASSUME NEW r \in Plan
    PROVE  /\ r.lo \in Nat /\ r.hi \in Nat /\ r.lo <= r.hi /\ Width(r) \in Nat
           /\ r.kind = "channel" => r.center \in Nat /\ r.lo <= r.center /\ r.center <= r.hi
           /\ r.kind # "channel" => r.kind = "segment" /\ r.center = NoCenter
           /\ \A f \in Nat : OffsetFrom(r, f) \in Nat
<1>1. r.lo \in Nat /\ r.hi \in Nat /\ r.lo <= r.hi /\ FreqBin \in Nat
  BY PlanAssumption
<1>2. Width(r) \in Nat
  BY <1>1 DEF Width
<1>3. r.kind = "channel" => r.center \in Nat /\ r.lo <= r.center /\ r.center <= r.hi
  <2>1. r.kind = "channel" => /\ r.center \in Nat
                              /\ 2 * r.lo + FreqBin <= 2 * r.center
                              /\ 2 * r.center + FreqBin <= 2 * r.hi
    BY PlanAssumption
  <2>. QED
    BY <1>1, <2>1
<1>4. r.kind # "channel" => r.kind = "segment" /\ r.center = NoCenter
  BY PlanAssumption
<1>5. \A f \in Nat : OffsetFrom(r, f) \in Nat
  <2>1. (r.lo + r.hi) \div 2 \in Nat
    BY <1>1
  <2>2. r.center = NoCenter \/ r.center \in Nat
    BY <1>3, <1>4
  <2>3. PICK c \in Int : \A f \in Nat : OffsetFrom(r, f) = Distance(c, f)
    BY <2>1, <2>2 DEF OffsetFrom
  <2>. QED
    BY <2>3, DistanceType
<1>. QED
  BY <1>1, <1>2, <1>3, <1>4, <1>5

\* Of rows that match equally closely one comes first.
LEMMA FirstIs ==
    ASSUME NEW f \in Nat, NEW T \in SUBSET TiedBest(Plan, f), T # {}
    PROVE  First(T, f) \in T
<1>. DEFINE place(r) == CHOOSE i \in DOMAIN Services : Services[i] = r.service
            off == [r \in T |-> OffsetFrom(r, f)]
<1>1. \A r \in T : r \in Plan /\ r \in TiedBest(Plan, f)
  BY DEF TiedBest, Lookup
<1>2. \A r, s \in T : Width(r) = Width(s)
  <2>1. \A r, s \in T : Width(r) <= Width(s) /\ Width(s) <= Width(r) /\ Width(r) \in Nat /\ Width(s) \in Nat
    BY <1>1, RowOfPlan DEF TiedBest
  <2>. QED
    BY <2>1
<1>3. \A r \in T : place(r) \in DOMAIN Services /\ Services[place(r)] = r.service /\ place(r) \in Nat
  <2>. SUFFICES ASSUME NEW r \in T
                PROVE  place(r) \in DOMAIN Services /\ Services[place(r)] = r.service /\ place(r) \in Nat
    OBVIOUS
  <2>1. \E i \in DOMAIN Services : Services[i] = r.service
    BY <1>1, PlanAssumption
  <2>. QED
    BY <2>1, PlanAssumption
<1>. HIDE DEF place
<1>4. off \in [T -> Nat]
  BY <1>1, RowOfPlan
<1>5. PICK x \in T : \A s \in T : off[x] <= off[s]
  <2>. HIDE DEF off
  <2>. QED
    BY <1>4, Fewest
<1>6. \A s \in T : OffsetFrom(x, f) <= OffsetFrom(s, f) /\ OffsetFrom(x, f) \in Nat /\ OffsetFrom(s, f) \in Nat
  BY <1>4, <1>5
<1>. DEFINE near == {s \in T : OffsetFrom(s, f) = OffsetFrom(x, f)}
            free == {s \in near : ~s.licensed}
            last == IF free = {} THEN near ELSE free
            order == [s \in last |-> place(s)]
<1>7. last # {} /\ last \subseteq T
  OBVIOUS
<1>8. order \in [last -> Nat]
  BY <1>3, <1>7
<1>9. PICK y \in last : \A s \in last : order[y] <= order[s]
  <2>. HIDE DEF last, order
  <2>. QED
    BY <1>7, <1>8, Fewest
<1>10. \A s \in last : place(y) <= place(s)
  BY <1>9
<1>11. \A s \in T : ~MoreSpecific(s, y, f)
  <2>. SUFFICES ASSUME NEW s \in T, MoreSpecific(s, y, f) PROVE FALSE
    OBVIOUS
  <2>1. y \in T /\ OffsetFrom(y, f) = OffsetFrom(x, f)
    BY <1>7, <1>9
  <2>2. Width(s) = Width(y) /\ Width(s) \in Nat
    BY <1>1, <1>2, <2>1, RowOfPlan
  <2>3. ~(OffsetFrom(s, f) < OffsetFrom(y, f))
    BY <1>6, <2>1
  <2>4. /\ OffsetFrom(s, f) = OffsetFrom(y, f)
        /\ (~s.licensed /\ y.licensed) \/ (s.licensed = y.licensed /\ Alphabetical(s.service, y.service))
    BY <2>2, <2>3 DEF MoreSpecific
  <2>5. s \in near
    BY <2>1, <2>4
  <2>6. CASE ~s.licensed /\ y.licensed
    <3>1. s \in free
      BY <2>5, <2>6
    <3>2. y \in free
      BY <1>9, <3>1
    <3>. QED
      BY <2>6, <3>2
  <2>7. CASE s.licensed = y.licensed /\ Alphabetical(s.service, y.service)
    <3>1. s \in last
      <4>1. CASE free = {}
        BY <2>5, <4>1
      <4>2. CASE free # {}
        <5>1. y \in free
          BY <1>9, <4>2
        <5>. QED
          BY <2>5, <2>7, <4>2, <5>1
      <4>. QED
        BY <4>1, <4>2
    <3>2. PICK i \in DOMAIN Services, j \in DOMAIN Services :
             i < j /\ Services[i] = s.service /\ Services[j] = y.service
      BY <2>7 DEF Alphabetical
    <3>3. i = place(s) /\ j = place(y)
      BY <1>3, <2>1, <3>2, PlanAssumption
    <3>4. place(y) <= place(s) /\ place(y) \in Nat /\ place(s) \in Nat
      BY <1>3, <1>10, <2>1, <3>1
    <3>. QED
      BY <3>2, <3>3, <3>4
  <2>. QED
    BY <2>4, <2>6, <2>7
<1>12. y \in T
  BY <1>7, <1>9
<1>. QED
  BY <1>11, <1>12 DEF First

LEMMA TiedExists ==
    ASSUME NEW f, Lookup(Plan, f) # {}
    PROVE  TiedBest(Plan, f) # {}
<1>. DEFINE width == [r \in Lookup(Plan, f) |-> Width(r)]
<1>1. width \in [Lookup(Plan, f) -> Nat]
  BY RowOfPlan DEF Lookup
<1>2. PICK r \in Lookup(Plan, f) : \A s \in Lookup(Plan, f) : width[r] <= width[s]
  <2>. HIDE DEF width
  <2>. QED
    BY <1>1, Fewest
<1>3. r \in TiedBest(Plan, f)
  BY <1>2 DEF TiedBest
<1>. QED
  BY <1>3

\* A channel is narrower than any segment.
LEMMA TiedKind ==
    ASSUME NEW f \in Nat, NEW r \in TiedBest(Plan, f)
    PROVE  r \in Plan /\ (r.kind = "channel" <=> Covered(f))
<1>1. r \in Plan /\ r.lo <= f /\ f <= r.hi /\ \A s \in Lookup(Plan, f) : Width(r) <= Width(s)
  BY DEF TiedBest, Lookup
<1>2. r.kind = "channel" => Covered(f)
  BY <1>1 DEF Covered
<1>3. ASSUME Covered(f), r.kind # "channel" PROVE FALSE
  <2>1. PICK c \in Plan : c.kind = "channel" /\ c.lo <= f /\ f <= c.hi
    BY <1>3 DEF Covered
  <2>2. Width(r) <= Width(c)
    BY <1>1, <2>1 DEF Lookup
  <2>3. r.kind = "segment"
    BY <1>1, <1>3, RowOfPlan
  <2>4. Width(c) < Width(r)
    <3>1. c.kind # "segment"
      BY <2>1
    <3>. QED
      BY <1>1, <2>3, <3>1, PlanAssumption
  <2>5. Width(c) \in Nat /\ Width(r) \in Nat
    BY <1>1, <2>1, RowOfPlan
  <2>. QED
    BY <2>2, <2>4, <2>5
<1>. QED
  BY <1>1, <1>2, <1>3

LEMMA KeyOfCovered ==
    ASSUME NEW f \in Nat, Covered(f)
    PROVE  /\ TiedBest(Plan, f) # {}
           /\ \A r \in TiedBest(Plan, f) : r.kind = "channel" /\ r.center = ChannelKey(f)
           /\ ChannelKey(f) \in Centers
<1>1. Lookup(Plan, f) # {}
  BY DEF Covered, Lookup
<1>. DEFINE tied == TiedBest(Plan, f)
            first == First(tied, f)
<1>2. tied # {}
  BY <1>1, TiedExists
<1>3. first \in tied
  BY <1>2, FirstIs
<1>4. \A r \in tied : r \in Plan /\ r.kind = "channel"
  BY TiedKind
<1>5. \A r \in tied : r.center = first.center
  <2>1. first.lo <= f /\ f <= first.hi /\ first.lo \in Nat /\ first.hi \in Nat
    BY <1>3, <1>4, RowOfPlan DEF TiedBest, Lookup
  <2>2. f \in first.lo .. first.hi
    BY <2>1
  <2>. QED
    BY <1>3, <1>4, <2>2, PlanAssumption
<1>6. ChannelKey(f) = first.center
  BY <1>2, <1>3, <1>4 DEF ChannelKey
<1>. QED
  BY <1>2, <1>3, <1>4, <1>5, <1>6 DEF Centers

LEMMA KeyOfUncovered ==
    ASSUME NEW f \in Nat, ~Covered(f)
    PROVE  ChannelKey(f) = Binned(f) /\ Binned(f) \notin Centers
<1>1. ChannelKey(f) = Binned(f)
  <2>1. \A r \in TiedBest(Plan, f) : r.kind # "channel"
    BY TiedKind
  <2>2. TiedBest(Plan, f) # {} => First(TiedBest(Plan, f), f) \in TiedBest(Plan, f)
    BY FirstIs
  <2>. QED
    BY <2>1, <2>2 DEF ChannelKey
<1>2. ASSUME Binned(f) \in Centers PROVE FALSE
  <2>1. PICK r \in Plan : r.kind = "channel" /\ Binned(f) = r.center
    BY <1>2 DEF Centers
  <2>2. /\ r.center \in Nat /\ r.lo \in Nat /\ r.hi \in Nat
        /\ 2 * r.lo + FreqBin <= 2 * r.center /\ 2 * r.center + FreqBin <= 2 * r.hi
    BY <2>1, PlanAssumption
  <2>3. FreqBin \in Nat /\ 2 * r.center - FreqBin <= 2 * f /\ 2 * f <= 2 * r.center + FreqBin
    BY <2>1, BinnedNear, PlanAssumption
  <2>4. r.lo <= f /\ f <= r.hi
    BY <2>2, <2>3
  <2>. QED
    BY <2>1, <2>4 DEF Covered
<1>. QED
  BY <1>1, <1>2

LEMMA KeyOfCenter ==
    ASSUME NEW k \in Centers
    PROVE  k \in Nat /\ ChannelKey(k) = k
<1>1. PICK r \in Plan : r.kind = "channel" /\ r.center = k
  BY DEF Centers
<1>2. k \in Nat /\ r.lo <= k /\ k <= r.hi
  BY <1>1, RowOfPlan
<1>3. Covered(k)
  BY <1>1, <1>2 DEF Covered
<1>4. PICK s \in TiedBest(Plan, k) : s.center = ChannelKey(k)
  BY <1>2, <1>3, KeyOfCovered
<1>5. s.center = k
  BY <1>1, <1>4, PlanAssumption
<1>. QED
  BY <1>2, <1>4, <1>5

LEMMA KeyType ==
    ASSUME NEW f \in Nat
    PROVE  ChannelKey(f) \in Nat
BY KeyOfCovered, KeyOfUncovered, KeyOfCenter, BinnedNear

\* A row that stands for the center of a channel has that for its frequency.
LEMMA SettledKey ==
    ASSUME NEW f \in Nat, Settled(f)
    PROVE  /\ ChannelKey(f) \in Centers => ChannelKey(f) = f
           /\ ChannelKey(f) = IF f \in Centers THEN f ELSE Binned(f)
BY KeyOfUncovered, KeyOfCenter DEF Settled

\* A key that is itself the frequency of a row is that row's.
LEMMA KeyOfKey ==
    ASSUME NEW f \in Nat, Settled(ChannelKey(f))
    PROVE  ChannelKey(ChannelKey(f)) = ChannelKey(f)
<1>1. CASE ChannelKey(f) \in Centers
  BY <1>1, KeyOfCenter
<1>2. CASE ChannelKey(f) \notin Centers
  <2>1. ChannelKey(f) = Binned(f) /\ Binned(f) \in Nat
    BY <1>2, KeyOfCovered, KeyOfUncovered, BinnedNear
  <2>2. ChannelKey(Binned(f)) = Binned(Binned(f))
    BY <1>2, <2>1, SettledKey
  <2>. QED
    BY <2>1, <2>2, BinnedTwice
<1>. QED
  BY <1>1, <1>2

-----------------------------------------------------------------------------
(* The row that is made of the events of a key.                            *)

LEMMA NarrowedIs ==
    ASSUME NEW tied, tied # {}, NEW evs
    PROVE  NarrowByDeviation(tied, evs) \subseteq tied /\ NarrowByDeviation(tied, evs) # {}
BY DEF NarrowByDeviation, WithinLimit

\* What the first of the closest events matches is what all closest events
\* match; it is a channel if any event of the key is covered by one.
LEMMA EntryIs ==
    ASSUME NEW evs, evs # {}, \A e \in evs : e.freq \in Nat /\ e.id \in Nat,
           NEW k, \A e \in evs : ChannelKey(e.freq) = k
    PROVE  /\ (\E e \in evs : Covered(e.freq)) =>
                 Entry(evs).kind = "channel" /\ Entry(evs).center = k /\ k \in Centers
           /\ (\A e \in evs : ~Covered(e.freq)) => Entry(evs).kind # "channel"
<1>. DEFINE matched == {e \in evs : Lookup(Plan, e.freq) # {}}
            first(e) == First(TiedBest(Plan, e.freq), e.freq)
            closest == Closest(evs)
            witness == CHOOSE e \in closest : \A d \in closest : e.id <= d.id
            narrowed == NarrowByDeviation(TiedBest(Plan, witness.freq), evs)
<1>1. closest = {e \in matched : \A d \in matched : Narrowness(e) <= Narrowness(d)}
  BY DEF Closest
<1>2. ASSUME NEW e \in matched
      PROVE  /\ first(e) \in TiedBest(Plan, e.freq) /\ first(e) \in Plan
             /\ Narrowness(e) = Width(first(e)) /\ Narrowness(e) \in Nat
             /\ first(e).kind = "channel" <=> Covered(e.freq)
  <2>1. TiedBest(Plan, e.freq) # {} /\ e.freq \in Nat
    BY TiedExists
  <2>2. first(e) \in TiedBest(Plan, e.freq)
    BY <2>1, FirstIs
  <2>. QED
    BY <2>1, <2>2, TiedKind, RowOfPlan DEF Narrowness
<1>3. matched # {} => closest # {}
  <2>. SUFFICES ASSUME matched # {} PROVE closest # {}
    OBVIOUS
  <2>. DEFINE c == [e \in matched |-> Narrowness(e)]
  <2>1. c \in [matched -> Nat]
    BY <1>2
  <2>2. PICK x \in matched : \A d \in matched : c[x] <= c[d]
    <3>. HIDE DEF c, matched
    <3>. QED
      BY <2>1, Fewest
  <2>. QED
    BY <1>1, <2>2
<1>4. closest # {} => witness \in closest
  <2>. SUFFICES ASSUME closest # {} PROVE witness \in closest
    OBVIOUS
  <2>. DEFINE c == [e \in closest |-> e.id]
  <2>1. c \in [closest -> Nat]
    BY <1>1
  <2>2. PICK x \in closest : \A d \in closest : c[x] <= c[d]
    <3>. HIDE DEF c, closest
    <3>. QED
      BY <2>1, Fewest
  <2>3. \E e \in closest : \A d \in closest : e.id <= d.id
    BY <2>2
  <2>. HIDE DEF closest
  <2>. QED
    BY <2>3
<1>5. Entry(evs) = IF closest = {} THEN NoPlan ELSE First(narrowed, witness.freq)
  BY DEF Entry
<1>6. ASSUME closest # {}
      PROVE  /\ witness \in evs /\ witness \in matched
             /\ Entry(evs) \in TiedBest(Plan, witness.freq)
             /\ Entry(evs).kind = "channel" <=> Covered(witness.freq)
  <2>1. witness \in matched /\ witness \in evs /\ witness.freq \in Nat
    BY <1>1, <1>4, <1>6
  <2>2. TiedBest(Plan, witness.freq) # {}
    BY <1>2, <2>1
  <2>3. narrowed \subseteq TiedBest(Plan, witness.freq) /\ narrowed # {}
    BY <2>2, NarrowedIs
  <2>4. First(narrowed, witness.freq) \in narrowed
    BY <2>1, <2>3, FirstIs
  <2>5. Entry(evs) \in TiedBest(Plan, witness.freq)
    BY <1>5, <1>6, <2>3, <2>4
  <2>. QED
    BY <2>1, <2>5, TiedKind
<1>7. ASSUME NEW e \in evs, Covered(e.freq)
      PROVE  Entry(evs).kind = "channel" /\ Entry(evs).center = k /\ k \in Centers
  <2>1. e \in matched
    BY <1>7 DEF Covered, Lookup
  <2>2. closest # {}
    BY <1>3, <2>1
  <2>3. Narrowness(witness) <= Narrowness(e)
    BY <1>1, <1>4, <2>1, <2>2
  <2>4. Covered(witness.freq)
    <3>. SUFFICES ASSUME ~Covered(witness.freq) PROVE FALSE
      OBVIOUS
    <3>1. first(e).kind = "channel" /\ first(e) \in Plan
      BY <1>2, <1>7, <2>1
    <3>2. first(witness).kind = "segment" /\ first(witness) \in Plan
      BY <1>2, <1>6, <2>2, RowOfPlan
    <3>3. Width(first(e)) < Width(first(witness))
      <4>1. first(e).kind # "segment"
        BY <3>1
      <4>. HIDE DEF first
      <4>. QED
        BY <3>1, <3>2, <4>1, PlanAssumption
    <3>4. Narrowness(witness) = Width(first(witness)) /\ Narrowness(e) = Width(first(e))
          /\ Narrowness(witness) \in Nat /\ Narrowness(e) \in Nat
      BY <1>2, <1>6, <2>1, <2>2
    <3>. HIDE DEF first, witness
    <3>. QED
      BY <2>3, <3>3, <3>4
  <2>5. witness.freq \in Nat /\ ChannelKey(witness.freq) = k
    BY <1>6, <2>2
  <2>. QED
    BY <1>6, <2>2, <2>4, <2>5, KeyOfCovered
<1>8. ASSUME \A e \in evs : ~Covered(e.freq)
      PROVE  Entry(evs).kind # "channel"
  <2>1. CASE closest = {}
    BY <1>5, <2>1 DEF NoPlan
  <2>2. CASE closest # {}
    BY <1>6, <1>8, <2>2
  <2>. QED
    BY <2>1, <2>2
<1>. QED
  BY <1>7, <1>8

\* The frequency of the row is one that the key stands for.
LEMMA RowStandsForKey ==
    ASSUME NEW evs, IsFiniteSet(evs), evs # {}, \A e \in evs : e.freq \in Nat /\ e.id \in Nat,
           NEW k, \A e \in evs : ChannelKey(e.freq) = k
    PROVE  /\ Row(evs).freq \in Nat /\ ChannelKey(Row(evs).freq) = k /\ Settled(Row(evs).freq)
           /\ Row(evs).freq \in Centers \/ \E b \in evs : Row(evs).freq <= b.freq
<1>. DEFINE f == Row(evs).freq
<1>1. f = IF Entry(evs).kind = "channel" THEN Entry(evs).center
          ELSE TwiceMedian(evs, "freq") \div 2
  BY DEF Row
<1>. HIDE DEF f
<1>2. CASE \E e \in evs : Covered(e.freq)
  <2>1. f = k /\ k \in Centers
    BY <1>1, <1>2, EntryIs
  <2>. QED
    BY <2>1, KeyOfCenter DEF f, Settled
<1>3. CASE \A e \in evs : ~Covered(e.freq)
  <2>1. f = TwiceMedian(evs, "freq") \div 2
    BY <1>1, <1>3, EntryIs
  <2>2. \A e \in evs : e["freq"] \in Nat
    OBVIOUS
  <2>3. TwiceMedian(evs, "freq") \in Int
    BY <2>2, MedianBetween
  <2>4. PICK a \in evs, b \in evs :
           2 * a["freq"] <= TwiceMedian(evs, "freq") /\ TwiceMedian(evs, "freq") <= 2 * b["freq"]
    BY <2>2, MedianBetween
  <2>5. /\ a.freq \in Nat /\ b.freq \in Nat
        /\ 2 * a.freq <= TwiceMedian(evs, "freq") /\ TwiceMedian(evs, "freq") <= 2 * b.freq
    BY <2>4
  <2>6. f \in Nat /\ a.freq <= f /\ f <= b.freq
    BY <2>1, <2>3, <2>5
  <2>7. ChannelKey(a.freq) = Binned(a.freq) /\ ChannelKey(b.freq) = Binned(b.freq)
    BY <1>3, <2>5, KeyOfUncovered
  <2>8. Binned(a.freq) = k /\ Binned(b.freq) = k
    BY <2>7
  <2>9. Binned(f) = k /\ b.freq - a.freq <= FreqBin
    BY <2>5, <2>6, <2>8, SameBin
  <2>10. ASSUME Covered(f) PROVE FALSE
    <3>1. PICK r \in Plan : r.kind = "channel" /\ r.lo <= f /\ f <= r.hi
      BY <2>10 DEF Covered
    <3>2. /\ r.center \in Nat /\ r.lo \in Nat /\ r.hi \in Nat
          /\ 2 * r.lo + FreqBin <= 2 * r.center /\ 2 * r.center + FreqBin <= 2 * r.hi
          /\ FreqBin \in Nat
      BY <3>1, PlanAssumption
    <3>3. a.freq < r.lo /\ r.hi < b.freq
      <4>1. ~(r.lo <= a.freq /\ a.freq <= r.hi) /\ ~(r.lo <= b.freq /\ b.freq <= r.hi)
        BY <1>3, <3>1 DEF Covered
      <4>. QED
        BY <2>5, <2>6, <3>1, <3>2, <4>1
    <3>. QED
      BY <2>5, <2>9, <3>2, <3>3
  <2>. QED
    BY <2>6, <2>9, <2>10, KeyOfUncovered DEF f, Settled
<1>. QED
  BY <1>2, <1>3

-----------------------------------------------------------------------------
(* Only some fields of the events go into the row: neither the plan they    *)
(* are tagged with nor the channel they are linked to.                      *)

Of(a, I) == {a[i] : i \in I}

Alike(I, a, b) ==
    /\ IsFiniteSet(I)
    /\ \A i \in I : /\ i \in Nat /\ a[i].id = i /\ b[i].id = i
                    /\ b[i].freq = a[i].freq /\ b[i].dev = a[i].dev /\ b[i].snr = a[i].snr
                    /\ b[i].tone = a[i].tone /\ b[i].ctcss = a[i].ctcss /\ b[i].dcs = a[i].dcs

\* Events that are told apart by their ids are as many as their ids.
LEMMA CountedByIds ==
    ASSUME NEW I, NEW ev, IsFiniteSet(I), \A i \in I : ev[i].id = i
    PROVE  IsFiniteSet(Of(ev, I)) /\ Cardinality(Of(ev, I)) = Cardinality(I)
<1>. DEFINE T == Of(ev, I)
            f == [i \in I |-> ev[i]]
<1>1. f \in [I -> T] /\ (\A i, j \in I : f[i] = f[j] => i = j) /\ \A y \in T : \E i \in I : f[i] = y
  BY DEF Of
<1>2. f \in Bijection(I, T)
  <2>. HIDE DEF f, T
  <2>. QED
    BY <1>1 DEF Bijection, Injection, Surjection, IsInjective
<1>. HIDE DEF f, T
<1>3. IsFiniteSet(T) /\ Cardinality(T) = Cardinality(I)
  BY <1>2, FS_Bijection DEF ExistsBijection
<1>. QED
  BY <1>3 DEF T

LEMMA AlikePart ==
    ASSUME NEW I, NEW a, NEW b, Alike(I, a, b), NEW J \in SUBSET I
    PROVE  /\ Alike(J, a, b)
           /\ Cardinality(Of(a, J)) = Cardinality(J) /\ Cardinality(Of(b, J)) = Cardinality(J)
           /\ IsFiniteSet(Of(a, J)) /\ IsFiniteSet(Of(b, J))
<1>1. IsFiniteSet(J)
  BY FS_Subset DEF Alike
<1>2. \A i \in J : a[i].id = i /\ b[i].id = i
  BY DEF Alike
<1>3. Alike(J, a, b)
  BY <1>1 DEF Alike
<1>. QED
  BY <1>1, <1>2, <1>3, CountedByIds

LEMMA CountSame ==
    ASSUME NEW I, NEW a, NEW b, Alike(I, a, b), NEW field, \A i \in I : b[i][field] = a[i][field],
           NEW v
    PROVE  Count(Of(a, I), field, v) = Count(Of(b, I), field, v)
<1>. DEFINE J == {i \in I : a[i][field] = v}
<1>1. {e \in Of(a, I) : e[field] = v} = Of(a, J)
  BY DEF Of
<1>2. {e \in Of(b, I) : e[field] = v} = Of(b, J)
  BY DEF Of
<1>3. Cardinality(Of(a, J)) = Cardinality(Of(b, J))
  BY AlikePart
<1>. QED
  BY <1>1, <1>2, <1>3 DEF Count

LEMMA ModalSame ==
    ASSUME NEW I, NEW a, NEW b, Alike(I, a, b), NEW field, \A i \in I : b[i][field] = a[i][field],
           NEW Order
    PROVE  Modal(Of(a, I), field, Order) = Modal(Of(b, I), field, Order)
<1>. DEFINE VA == {e[field] : e \in Of(a, I)}
            VB == {e[field] : e \in Of(b, I)}
            before(v, w) == \E i, j \in DOMAIN Order : i < j /\ Order[i] = v /\ Order[j] = w
<1>1. Modal(Of(a, I), field, Order) = CHOOSE v \in VA : \A w \in VA \ {v} :
         \/ Count(Of(a, I), field, v) > Count(Of(a, I), field, w)
         \/ Count(Of(a, I), field, v) = Count(Of(a, I), field, w) /\ before(v, w)
  BY DEF Modal
<1>2. Modal(Of(b, I), field, Order) = CHOOSE v \in VB : \A w \in VB \ {v} :
         \/ Count(Of(b, I), field, v) > Count(Of(b, I), field, w)
         \/ Count(Of(b, I), field, v) = Count(Of(b, I), field, w) /\ before(v, w)
  BY DEF Modal
<1>3. VA = VB
  BY DEF Of
<1>4. \A v : Count(Of(a, I), field, v) = Count(Of(b, I), field, v)
  <2>. TAKE v
  <2>. QED
    BY CountSame
<1>. HIDE DEF VA, VB, before
<1>. QED
  BY <1>1, <1>2, <1>3, <1>4

LEMMA RankedSame ==
    ASSUME NEW I, NEW a, NEW b, Alike(I, a, b), NEW field, \A i \in I : b[i][field] = a[i][field],
           NEW k
    PROVE  Ranked(Of(a, I), field, k) = Ranked(Of(b, I), field, k)
<1>. DEFINE upTo(evs, v) == {d \in evs : d[field] <= v}
            values(evs) == {e[field] : e \in {d \in evs : k <= Cardinality(upTo(evs, d[field]))}}
            reached(i) == {j \in I : a[j][field] <= a[i][field]}
            high == {i \in I : k <= Cardinality(reached(i))}
<1>1. ASSUME NEW i \in I
      PROVE  /\ upTo(Of(a, I), a[i][field]) = Of(a, reached(i))
             /\ upTo(Of(b, I), b[i][field]) = Of(b, reached(i))
  BY DEF Of
<1>2. ASSUME NEW i \in I
      PROVE  /\ Cardinality(upTo(Of(a, I), a[i][field])) = Cardinality(reached(i))
             /\ Cardinality(upTo(Of(b, I), b[i][field])) = Cardinality(reached(i))
  <2>1. reached(i) \in SUBSET I
    OBVIOUS
  <2>. HIDE DEF reached, upTo
  <2>. QED
    BY <1>1, <2>1, AlikePart
<1>. HIDE DEF reached, upTo
<1>3. values(Of(a, I)) = {a[i][field] : i \in high}
  BY <1>2 DEF Of
<1>4. values(Of(b, I)) = {a[i][field] : i \in high}
  BY <1>2 DEF Of
<1>5. \A evs : Ranked(evs, field, k) = Min(values(evs))
  BY DEF Ranked, upTo
<1>. HIDE DEF values
<1>. QED
  BY <1>3, <1>4, <1>5

LEMMA MedianSame ==
    ASSUME NEW I, NEW a, NEW b, Alike(I, a, b), NEW field, \A i \in I : b[i][field] = a[i][field]
    PROVE  TwiceMedian(Of(a, I), field) = TwiceMedian(Of(b, I), field)
<1>1. Cardinality(Of(a, I)) = Cardinality(Of(b, I))
  BY AlikePart
<1>2. ASSUME NEW k PROVE Ranked(Of(a, I), field, k) = Ranked(Of(b, I), field, k)
  BY RankedSame
<1>. QED
  BY <1>1, <1>2 DEF TwiceMedian

LEMMA NarrowSame ==
    ASSUME NEW I, NEW a, NEW b, Alike(I, a, b)
    PROVE  /\ \A tied : NarrowByDeviation(tied, Of(a, I)) = NarrowByDeviation(tied, Of(b, I))
           /\ Usable(Of(a, I)) = {} <=> Usable(Of(b, I)) = {}
<1>. DEFINE J == {i \in I : a[i].dev # None /\ a[i].snr # None /\ a[i].snr >= MinSnr}
<1>1. \A i \in I : b[i].dev = a[i].dev /\ b[i].snr = a[i].snr
  BY DEF Alike
<1>2. Usable(Of(a, I)) = Of(a, J)
  BY DEF Usable, Of
<1>3. Usable(Of(b, I)) = Of(b, J)
  BY <1>1 DEF Usable, Of
<1>4. J \in SUBSET I
  OBVIOUS
<1>5. \A i \in J : b[i]["dev"] = a[i]["dev"]
  BY <1>1
<1>. HIDE DEF J
<1>6. Alike(J, a, b) /\ Cardinality(Of(a, J)) = Cardinality(Of(b, J))
  BY <1>4, AlikePart
<1>7. TwiceMedian(Of(a, J), "dev") = TwiceMedian(Of(b, J), "dev")
  BY <1>5, <1>6, MedianSame
<1>8. ASSUME NEW tied
      PROVE  NarrowByDeviation(tied, Of(a, I)) = NarrowByDeviation(tied, Of(b, I))
  <2>1. WithinLimit(tied, Of(a, I)) = WithinLimit(tied, Of(b, I))
    BY <1>2, <1>3, <1>7 DEF WithinLimit
  <2>. QED
    BY <1>2, <1>3, <1>6, <2>1 DEF NarrowByDeviation
<1>9. (Of(a, J) = {} <=> J = {}) /\ (Of(b, J) = {} <=> J = {})
  BY DEF Of
<1>. QED
  BY <1>2, <1>3, <1>8, <1>9

OfWords(W, s, wn, wm, w) ==
    IF W = {} THEN [Unknown EXCEPT !.tone = s]
    ELSE IF Agreed(wn, wm) THEN [Unknown EXCEPT !.tone = s, !.dcs = w] ELSE Unknown

OfState(s, tn, tm, t, worded) ==
    CASE s = "none" -> [Unknown EXCEPT !.tone = s]
      [] s = "ctcss" -> IF Agreed(tn, tm)
                        THEN [Unknown EXCEPT !.tone = s, !.ctcss = t] ELSE Unknown
      [] s = "dcs" -> worded

Filed(K, sn, kn, s, tn, tm, t, W, wn, wm, w) ==
    IF K = {} \/ ~Agreed(sn, kn) THEN Unknown
    ELSE OfState(s, tn, tm, t, OfWords(W, s, wn, wm, w))

LEMMA ToneIs ==
    ASSUME NEW evs, NEW known, NEW tones, NEW words,
           known = {e \in evs : e.tone # "unknown"}, tones = {e \in evs : e.ctcss # None},
           words = {e \in evs : e.dcs # None},
           NEW s, s = Modal(known, "tone", ToneStates),
           NEW t, t = Modal(tones, "ctcss", Tones), NEW w, w = Modal(words, "dcs", Tones)
    PROVE  Tone(evs) = Filed(known, Count(known, "tone", s), Cardinality(known), s,
                             Count(tones, "ctcss", t), Cardinality(tones), t,
                             words, Count(words, "dcs", w), Cardinality(words), w)
BY DEF Tone, Filed, OfState, OfWords

LEMMA FiledSame ==
    ASSUME NEW K, NEW L, NEW W, NEW V, K = {} <=> L = {}, W = {} <=> V = {},
           NEW sn, NEW kn, NEW s, NEW tn, NEW tm, NEW t, NEW wn, NEW wm, NEW w
    PROVE  Filed(K, sn, kn, s, tn, tm, t, W, wn, wm, w) = Filed(L, sn, kn, s, tn, tm, t, V, wn, wm, w)
<1>1. OfWords(W, s, wn, wm, w) = OfWords(V, s, wn, wm, w)
  BY DEF OfWords
<1>. QED
  BY <1>1 DEF Filed

LEMMA ToneSame ==
    ASSUME NEW I, NEW a, NEW b, Alike(I, a, b)
    PROVE  Tone(Of(a, I)) = Tone(Of(b, I))
<1>. DEFINE K == {i \in I : a[i].tone # "unknown"}
            T == {i \in I : a[i].ctcss # None}
            W == {i \in I : a[i].dcs # None}
<1>1. \A i \in I : b[i].tone = a[i].tone /\ b[i].ctcss = a[i].ctcss /\ b[i].dcs = a[i].dcs
  BY DEF Alike
<1>2. /\ Of(a, K) = {e \in Of(a, I) : e.tone # "unknown"}
      /\ Of(a, T) = {e \in Of(a, I) : e.ctcss # None}
      /\ Of(a, W) = {e \in Of(a, I) : e.dcs # None}
  BY DEF Of
<1>3. /\ Of(b, K) = {e \in Of(b, I) : e.tone # "unknown"}
      /\ Of(b, T) = {e \in Of(b, I) : e.ctcss # None}
      /\ Of(b, W) = {e \in Of(b, I) : e.dcs # None}
  BY <1>1 DEF Of
<1>4. K \in SUBSET I /\ T \in SUBSET I /\ W \in SUBSET I
  OBVIOUS
<1>5. /\ \A i \in K : b[i]["tone"] = a[i]["tone"]
      /\ \A i \in T : b[i]["ctcss"] = a[i]["ctcss"]
      /\ \A i \in W : b[i]["dcs"] = a[i]["dcs"]
  BY <1>1
<1>. HIDE DEF K, T, W
<1>6. /\ Alike(K, a, b) /\ Cardinality(Of(a, K)) = Cardinality(Of(b, K))
      /\ Alike(T, a, b) /\ Cardinality(Of(a, T)) = Cardinality(Of(b, T))
      /\ Alike(W, a, b) /\ Cardinality(Of(a, W)) = Cardinality(Of(b, W))
  BY <1>4, AlikePart
<1>7. (Of(a, K) = {} <=> Of(b, K) = {}) /\ (Of(a, W) = {} <=> Of(b, W) = {})
  BY DEF Of
<1>. DEFINE s == Modal(Of(a, K), "tone", ToneStates)
            t == Modal(Of(a, T), "ctcss", Tones)
            w == Modal(Of(a, W), "dcs", Tones)
<1>8. /\ s = Modal(Of(b, K), "tone", ToneStates)
      /\ t = Modal(Of(b, T), "ctcss", Tones)
      /\ w = Modal(Of(b, W), "dcs", Tones)
  BY <1>5, <1>6, ModalSame
<1>9. /\ s = Modal(Of(a, K), "tone", ToneStates)
      /\ t = Modal(Of(a, T), "ctcss", Tones)
      /\ w = Modal(Of(a, W), "dcs", Tones)
  OBVIOUS
<1>. HIDE DEF s, t, w
<1>10. /\ Count(Of(a, K), "tone", s) = Count(Of(b, K), "tone", s)
       /\ Count(Of(a, T), "ctcss", t) = Count(Of(b, T), "ctcss", t)
       /\ Count(Of(a, W), "dcs", w) = Count(Of(b, W), "dcs", w)
  BY <1>5, <1>6, CountSame
<1>. DEFINE found(k, v, x) ==
        Filed(k, Count(Of(x, K), "tone", s), Cardinality(Of(x, K)), s,
              Count(Of(x, T), "ctcss", t), Cardinality(Of(x, T)), t,
              v, Count(Of(x, W), "dcs", w), Cardinality(Of(x, W)), w)
<1>11. Tone(Of(a, I)) = found(Of(a, K), Of(a, W), a)
  BY <1>2, <1>9, ToneIs
<1>12. Tone(Of(b, I)) = found(Of(b, K), Of(b, W), b)
  BY <1>3, <1>8, ToneIs
<1>13. found(Of(a, K), Of(a, W), a) = found(Of(b, K), Of(b, W), a)
  BY <1>7, FiledSame
<1>14. found(Of(b, K), Of(b, W), a) = found(Of(b, K), Of(b, W), b)
  BY <1>6, <1>10
<1>. QED
  BY <1>11, <1>12, <1>13, <1>14

\* The events that match the plan most closely, by their places
Near(I, x) == {i \in I : /\ Lookup(Plan, x[i].freq) # {}
                         /\ \A j \in I : Lookup(Plan, x[j].freq) # {} =>
                               Width(First(TiedBest(Plan, x[i].freq), x[i].freq)) <=
                                  Width(First(TiedBest(Plan, x[j].freq), x[j].freq))}

LEMMA ClosestIs ==
    ASSUME NEW I, NEW x
    PROVE  Closest(Of(x, I)) = Of(x, Near(I, x))
BY DEF Closest, Narrowness, Of, Near

LEMMA EntryOfFirst ==
    ASSUME NEW I, NEW x, \A i \in I : i \in Nat /\ x[i].id = i,
           NEW m \in Near(I, x), \A i \in Near(I, x) : m <= i
    PROVE  Entry(Of(x, I)) = First(NarrowByDeviation(TiedBest(Plan, x[m].freq), Of(x, I)), x[m].freq)
<1>. DEFINE S == Closest(Of(x, I))
            e == CHOOSE c \in S : \A d \in S : c.id <= d.id
<1>1. S = Of(x, Near(I, x)) /\ Near(I, x) \subseteq I
  <2>1. Near(I, x) \subseteq I
    BY DEF Near
  <2>. QED
    BY <2>1, ClosestIs
<1>2. x[m] \in S /\ \A d \in S : x[m].id <= d.id
  <2>. HIDE DEF S
  <2>. QED
    BY <1>1 DEF Of
<1>3. ASSUME NEW c \in S, \A d \in S : c.id <= d.id
      PROVE  c = x[m]
  <2>. HIDE DEF S
  <2>1. PICK i \in Near(I, x) : c = x[i]
    BY <1>1 DEF Of
  <2>2. c.id = i /\ x[m].id = m /\ c.id <= x[m].id /\ i \in Nat /\ m \in Nat /\ m <= i
    BY <1>1, <1>2, <1>3, <2>1
  <2>3. i = m
    BY <2>2
  <2>. QED
    BY <2>1, <2>3
<1>4. e = x[m] /\ S # {}
  <2>. HIDE DEF S
  <2>. QED
    BY <1>2, <1>3
<1>5. S # {} => Entry(Of(x, I)) = First(NarrowByDeviation(TiedBest(Plan, e.freq), Of(x, I)), e.freq)
  BY DEF Entry
<1>. HIDE DEF e, S
<1>. QED
  BY <1>4, <1>5

LEMMA EntrySame ==
    ASSUME NEW I, NEW a, NEW b, Alike(I, a, b)
    PROVE  Entry(Of(a, I)) = Entry(Of(b, I))
<1>1. \A i \in I : /\ b[i].freq = a[i].freq /\ a[i].id = i /\ b[i].id = i /\ i \in Nat
  BY DEF Alike
<1>2. Near(I, b) = Near(I, a) /\ Near(I, a) \subseteq I
  BY <1>1 DEF Near
<1>3. CASE Near(I, a) = {}
  <2>1. Of(a, Near(I, a)) = {} /\ Of(b, Near(I, b)) = {}
    BY <1>2, <1>3 DEF Of
  <2>. QED
    BY <2>1, ClosestIs DEF Entry
<1>4. CASE Near(I, a) # {}
  <2>1. PICK m \in Near(I, a) : \A i \in Near(I, a) : m <= i
    <3>. DEFINE c == [i \in Near(I, a) |-> i]
    <3>1. c \in [Near(I, a) -> Nat]
      BY <1>1, <1>2
    <3>2. PICK m \in Near(I, a) : \A i \in Near(I, a) : c[m] <= c[i]
      <4>. HIDE DEF c
      <4>. QED
        BY <1>4, <3>1, Fewest
    <3>. QED
      BY <3>2
  <2>2. Entry(Of(a, I)) = First(NarrowByDeviation(TiedBest(Plan, a[m].freq), Of(a, I)), a[m].freq)
    BY <1>1, <2>1, EntryOfFirst
  <2>3. Entry(Of(b, I)) = First(NarrowByDeviation(TiedBest(Plan, b[m].freq), Of(b, I)), b[m].freq)
    BY <1>1, <1>2, <2>1, EntryOfFirst
  <2>4. b[m].freq = a[m].freq
    BY <1>1, <1>2
  <2>5. NarrowByDeviation(TiedBest(Plan, a[m].freq), Of(a, I)) =
           NarrowByDeviation(TiedBest(Plan, a[m].freq), Of(b, I))
    BY NarrowSame
  <2>. QED
    BY <2>2, <2>3, <2>4, <2>5
<1>. QED
  BY <1>3, <1>4

LEMMA RowSame ==
    ASSUME NEW I, NEW a, NEW b, Alike(I, a, b)
    PROVE  Row(Of(a, I)) = Row(Of(b, I))
<1>1. Entry(Of(a, I)) = Entry(Of(b, I))
  BY EntrySame
<1>2. TwiceMedian(Of(a, I), "freq") = TwiceMedian(Of(b, I), "freq")
  <2>1. \A i \in I : b[i]["freq"] = a[i]["freq"]
    BY DEF Alike
  <2>. QED
    BY <2>1, MedianSame
<1>3. Tone(Of(a, I)) = Tone(Of(b, I))
  BY ToneSame
<1>4. (Usable(Of(a, I)) # {}) = (Usable(Of(b, I)) # {})
  BY NarrowSame
<1>5. Cardinality(Of(a, I)) = Cardinality(Of(b, I))
  BY AlikePart, FS_Subset
<1>. QED
  BY <1>1, <1>2, <1>3, <1>4, <1>5 DEF Row

-----------------------------------------------------------------------------
(* The tables *)

Domain == DOMAIN channels

\* A row of the table channels, and what the enricher holds
Fields(c) == c = [freq |-> c.freq, row |-> c.row, notes |-> c.notes,
                  tier |-> c.tier, paired |-> c.paired]

Holds(r) == r = [ids |-> r.ids, notes |-> r.notes, rows |-> r.rows,
                 found |-> r.found, tiers |-> r.tiers]

IsOutput(row) == row.plan # NoPlan /\ row.plan.rpt

TableInv ==
    /\ \E S : events \in Seq(S)
    /\ \A c \in Domain : Fields(channels[c]) /\ channels[c].paired \in BOOLEAN
    /\ Holds(read)
    /\ pc = "read" => IsFiniteSet(read.rows)

\* A row is marked as paired when a pair says so; no row has a tier until all
\* of them are given one.
PairInv ==
    /\ pairs \subseteq Domain \X Domain
    /\ \A c \in Domain : channels[c].paired => \E p \in pairs : p[1] = c
    /\ \A c \in Domain :
          /\ channels[c].tier >= 3 /\ IsOutput(channels[c].row) => channels[c].paired
          /\ pc \in {"rebuilt", "pair", "cleared", "matched", "score", "scored"} =>
                channels[c].tier = None
    /\ pc = "matched" => read.found \subseteq Domain \X Domain
    /\ pc = "scored" =>
          read.tiers = [c \in Domain |-> Tier(channels[c].row, channels[c].paired)]

-----------------------------------------------------------------------------
WithNotes(c, x) == [c EXCEPT !.notes = x]
WithTier(c, x) == [c EXCEPT !.tier = x]
WithPaired(c, x) == [c EXCEPT !.paired = x]

LEMMA ChangedField ==
    ASSUME NEW c, Fields(c), NEW x
    PROVE  /\ LET d == WithNotes(c, x)
              IN Fields(d) /\ d.row = c.row /\ d.tier = c.tier /\ d.paired = c.paired
           /\ LET d == WithTier(c, x)
              IN Fields(d) /\ d.row = c.row /\ d.tier = x /\ d.paired = c.paired
           /\ LET d == WithPaired(c, x)
              IN Fields(d) /\ d.row = c.row /\ d.tier = c.tier /\ d.paired = x
<1>1. \A f, w, n, t, p : LET c0 == [freq |-> f, row |-> w, notes |-> n, tier |-> t, paired |-> p]
      IN /\ [c0 EXCEPT !.notes = x] = [freq |-> f, row |-> w, notes |-> x, tier |-> t, paired |-> p]
         /\ [c0 EXCEPT !.tier = x] = [freq |-> f, row |-> w, notes |-> n, tier |-> x, paired |-> p]
         /\ [c0 EXCEPT !.paired = x] = [freq |-> f, row |-> w, notes |-> n, tier |-> t, paired |-> x]
  OBVIOUS
<1>. QED
  BY <1>1 DEF Fields, WithNotes, WithTier, WithPaired

LEMMA ChangedHold ==
    ASSUME NEW r, Holds(r), NEW x
    PROVE  /\ LET d == [r EXCEPT !.ids = x] IN Holds(d)
           /\ LET d == [r EXCEPT !.notes = x] IN Holds(d)
           /\ LET d == [r EXCEPT !.rows = x] IN Holds(d) /\ d.rows = x
           /\ LET d == [r EXCEPT !.found = x] IN Holds(d) /\ d.found = x
           /\ LET d == [r EXCEPT !.tiers = x] IN Holds(d) /\ d.tiers = x
<1>1. \A i, n, w, f, t : LET r0 == [ids |-> i, notes |-> n, rows |-> w, found |-> f, tiers |-> t]
      IN /\ [r0 EXCEPT !.ids = x] = [ids |-> x, notes |-> n, rows |-> w, found |-> f, tiers |-> t]
         /\ [r0 EXCEPT !.notes = x] = [ids |-> i, notes |-> x, rows |-> w, found |-> f, tiers |-> t]
         /\ [r0 EXCEPT !.rows = x] = [ids |-> i, notes |-> n, rows |-> x, found |-> f, tiers |-> t]
         /\ [r0 EXCEPT !.found = x] = [ids |-> i, notes |-> n, rows |-> w, found |-> x, tiers |-> t]
         /\ [r0 EXCEPT !.tiers = x] = [ids |-> i, notes |-> n, rows |-> w, found |-> f, tiers |-> x]
  OBVIOUS
<1>. QED
  BY <1>1 DEF Holds

LEMMA NothingHolds == Holds(Nothing)
BY DEF Holds, Nothing

LEMMA Listed ==
    ASSUME NEW S, IsFiniteSet(S)
    PROVE  /\ SetToSeq(S) \in [1 .. Cardinality(S) -> S]
           /\ \A i, j \in 1 .. Cardinality(S) : SetToSeq(S)[i] = SetToSeq(S)[j] => i = j
<1>1. \E f \in [1 .. Cardinality(S) -> S] : IsInjective(f)
  BY FS_CardinalityType DEF ExistsBijection, Bijection, Injection
<1>. DEFINE f == SetToSeq(S)
<1>2. f \in [1 .. Cardinality(S) -> S] /\ IsInjective(f)
  BY <1>1 DEF SetToSeq
<1>. HIDE DEF f
<1>3. \A i, j \in 1 .. Cardinality(S) : f[i] = f[j] => i = j
  BY <1>2 DEF IsInjective
<1>. QED
  BY <1>2, <1>3 DEF f

LEMMA RowsFinite ==
    ASSUME NEW S, events \in Seq(S)
    PROVE  IsFiniteSet({NewRow(k) : k \in Keys(events)})
<1>. DEFINE n == Len(events)
            seen == {i \in 1 .. n : ~events[i].harmonic}
            row == [i \in seen |-> NewRow(Key[events[i].freq])]
            rows == {NewRow(k) : k \in Keys(events)}
<1>1. n \in Nat /\ DOMAIN events = 1 .. n
  OBVIOUS
<1>2. IsFiniteSet(1 .. n)
  BY <1>1, FS_Interval
<1>3. IsFiniteSet(seen)
  BY <1>2, FS_Subset
<1>4. Keys(events) = {Key[events[i].freq] : i \in seen}
  BY <1>1 DEF Keys, Traffic, Range
<1>5. row \in Surjection(seen, rows)
  <2>1. rows = {NewRow(Key[events[i].freq]) : i \in seen}
    BY <1>4
  <2>2. \A r \in rows : \E i \in seen : row[i] = r
    BY <2>1
  <2>3. row \in [seen -> rows]
    BY <2>1
  <2>. HIDE DEF row, rows, seen
  <2>. QED
    BY <2>2, <2>3 DEF Surjection
<1>. QED
  <2>. HIDE DEF row, rows, seen
  <2>1. IsFiniteSet(rows)
    BY <1>3, <1>5, FS_Surjection
  <2>. QED
    BY <2>1 DEF rows

Stages == {"rebuilt", "pair", "cleared", "matched", "score", "scored"}

LEMMA InitTables == Init => TableInv /\ PairInv
<1>. SUFFICES ASSUME Init PROVE TableInv /\ PairInv
  OBVIOUS
<1>1. events \in Seq({}) /\ Domain = {} /\ pairs = {} /\ pc = "idle" /\ read = Nothing
  BY DEF Init, Domain
<1>. QED
  BY <1>1, NothingHolds DEF TableInv, PairInv

LEMMA SameLength ==
    ASSUME NEW S, NEW s \in Seq(S), NEW t, t = [i \in DOMAIN s |-> t[i]]
    PROVE  \E T : t \in Seq(T)
<1>. DEFINE n == Len(s)
            T == {t[i] : i \in 1 .. n}
<1>1. n \in Nat /\ DOMAIN s = 1 .. n
  OBVIOUS
<1>2. t \in [1 .. n -> T]
  <2>1. t = [i \in 1 .. n |-> t[i]]
    BY <1>1
  <2>. QED
    BY <2>1
<1>3. t \in Seq(T)
  <2>. HIDE DEF n, T
  <2>. QED
    BY <1>1, <1>2, SeqDef
<1>. QED
  BY <1>3

\* The detector
LEMMA DetectorTables ==
    ASSUME TableInv, PairInv, Detector
    PROVE  TableInv' /\ PairInv'
<1>1. UNCHANGED <<channels, pairs, pc, read>>
  BY DEF Detector
<1>2. PairInv'
  BY <1>1 DEF PairInv, Domain, IsOutput
<1>3. PICK S : events \in Seq(S)
  BY DEF TableInv
<1>4. ASSUME NEW f, NEW t, NEW h, Detect(f, t, h)
      PROVE  \E T : events' \in Seq(T)
  <2>1. PICK e : events' = Append(events, e)
    BY <1>4 DEF Detect
  <2>2. events \in Seq(S \cup {e})
    BY <1>3
  <2>3. events' \in Seq(S \cup {e})
    BY <2>1, <2>2, AppendProperties
  <2>. QED
    BY <2>3
<1>5. ASSUME MarkHarmonic \/ \E i \in DOMAIN events : Close(i)
      PROVE  \E T : events' \in Seq(T)
  <2>1. events' = [i \in DOMAIN events |-> events'[i]]
    BY <1>5 DEF MarkHarmonic, Close
  <2>. QED
    BY <1>3, <2>1, SameLength
<1>6. ASSUME NEW i \in DOMAIN events, NEW r, Analyse(i, r)
      PROVE  \E T : events' \in Seq(T)
  <2>1. events' = [k \in DOMAIN events |-> events'[k]]
    BY <1>6 DEF Analyse
  <2>. QED
    BY <1>3, <2>1, SameLength
<1>7. \E T : events' \in Seq(T)
  BY <1>4, <1>5, <1>6 DEF Detector
<1>. QED
  BY <1>1, <1>2, <1>7 DEF TableInv, Domain, Fields, Holds

-----------------------------------------------------------------------------
(* The enricher                                                            *)

\* A statement that only reads, and the tables it leaves
LEMMA OnlyReads ==
    ASSUME TableInv, PairInv, UNCHANGED <<events, channels, pairs>>,
           Holds(read'), pc' = "read" => IsFiniteSet(read'.rows),
           pc' \in Stages => pc \in Stages,
           pc' = "matched" => read'.found \subseteq Domain \X Domain,
           pc' = "scored" =>
              read'.tiers = [c \in Domain |-> Tier(channels[c].row, channels[c].paired)]
    PROVE  TableInv' /\ PairInv'
<1>1. TableInv'
  BY DEF TableInv, Domain, Fields, Holds
<1>2. PairInv'
  BY DEF PairInv, Domain, IsOutput, Stages
<1>. QED
  BY <1>1, <1>2

LEMMA ReadingTables ==
    ASSUME TableInv, PairInv,
           Begin \/ TagRead \/ NotesRead \/ EventsRead \/ Match \/ ScoreRead \/ Killed
    PROVE  TableInv' /\ PairInv'
<1>1. UNCHANGED <<events, channels, pairs>>
  BY DEF Begin, TagRead, NotesRead, EventsRead, Match, ScoreRead, Killed, capture
<1>2. CASE Begin \/ Killed
  <2>1. read' = Nothing /\ pc' \in {"tag", "idle"}
    BY <1>2 DEF Begin, Killed, At
  <2>. QED
    BY <1>1, <2>1, NothingHolds, OnlyReads DEF Stages
<1>3. CASE TagRead \/ NotesRead
  <2>1. PICK x : read' = [Nothing EXCEPT !.ids = x] \/ read' = [Nothing EXCEPT !.notes = x]
    BY <1>3, Zenon DEF TagRead, NotesRead
  <2>2. Holds(read')
    <3>1. CASE read' = [Nothing EXCEPT !.ids = x]
      BY <3>1, NothingHolds, ChangedHold, Zenon
    <3>2. CASE read' = [Nothing EXCEPT !.notes = x]
      BY <3>2, NothingHolds, ChangedHold, Zenon
    <3>. QED
      BY <2>1, <3>1, <3>2
  <2>3. pc' \in {"tagged", "noted"}
    BY <1>3 DEF TagRead, NotesRead, At
  <2>. QED
    BY <1>1, <2>2, <2>3, OnlyReads DEF Stages
<1>4. CASE EventsRead
  <2>1. Holds(read') /\ read'.rows = {NewRow(k) : k \in Keys(events)} /\ pc' = "read"
    BY <1>4, ChangedHold DEF EventsRead, At, TableInv
  <2>2. IsFiniteSet(read'.rows)
    BY <2>1, RowsFinite DEF TableInv
  <2>. QED
    BY <1>1, <2>1, <2>2, OnlyReads DEF Stages
<1>5. CASE Match
  <2>1. /\ Holds(read') /\ pc = "cleared" /\ pc' = "matched"
        /\ read'.found \subseteq (DOMAIN channels) \X (DOMAIN channels)
    <3>1. PICK x : /\ read' = [read EXCEPT !.found = x]
                   /\ x \subseteq (DOMAIN channels) \X (DOMAIN channels)
      <4>. DEFINE x == {p \in (DOMAIN channels) \X (DOMAIN channels) :
                          /\ channels[p[2]].freq - channels[p[1]].freq \in Offsets
                          /\ Paired(On(p[1]), On(p[2]))}
      <4>1. read' = [read EXCEPT !.found = x] /\ x \subseteq (DOMAIN channels) \X (DOMAIN channels)
        BY <1>5 DEF Match
      <4>. QED
        BY <4>1
    <3>2. Holds(read') /\ read'.found = x
      BY <3>1, ChangedHold DEF TableInv
    <3>. QED
      BY <1>5, <3>1, <3>2 DEF Match, At
  <2>. QED
    BY <1>1, <2>1, OnlyReads DEF Stages, Domain
<1>6. CASE ScoreRead
  <2>1. /\ Holds(read') /\ pc = "score" /\ pc' = "scored"
        /\ read'.tiers = [c \in DOMAIN channels |-> Tier(channels[c].row, channels[c].paired)]
    BY <1>6, ChangedHold DEF ScoreRead, At, TableInv
  <2>. QED
    BY <1>1, <2>1, OnlyReads DEF Stages, Domain
<1>. QED
  BY <1>2, <1>3, <1>4, <1>5, <1>6

\* A statement that changes nothing but links and plans of the events
LEMMA OnlyEvents ==
    ASSUME TableInv, PairInv, UNCHANGED <<channels, pairs>>,
           events' = [i \in DOMAIN events |-> events'[i]], read' = Nothing,
           pc' \in {"rollup", "pair"}, pc' = "pair" => pc = "rebuilt"
    PROVE  TableInv' /\ PairInv'
<1>1. PICK S : events \in Seq(S)
  BY DEF TableInv
<1>2. \E T : events' \in Seq(T)
  BY <1>1, SameLength
<1>3. TableInv'
  BY <1>2, NothingHolds DEF TableInv, Domain, Fields, Holds
<1>4. PairInv'
  BY DEF PairInv, Domain, IsOutput
<1>. QED
  BY <1>3, <1>4

LEMMA RebuildTables == 
    ASSUME TableInv, PairInv, Rebuild
    PROVE  TableInv' /\ PairInv'
<1>. DEFINE rows == {Inserted(r) : r \in read.rows}
            n == Cardinality(rows)
<1>1. IsFiniteSet(rows)
  <2>. DEFINE f == [r \in read.rows |-> Inserted(r)]
  <2>1. f \in Surjection(read.rows, rows)
    <3>1. f \in [read.rows -> rows] /\ \A c \in rows : \E r \in read.rows : f[r] = c
      OBVIOUS
    <3>. HIDE DEF f, rows
    <3>. QED
      BY <3>1 DEF Surjection
  <2>2. IsFiniteSet(read.rows)
    BY DEF Rebuild, At, TableInv
  <2>. HIDE DEF f, rows
  <2>. QED
    BY <2>1, <2>2, FS_Surjection
<1>2. channels' \in [1 .. n -> rows]
  <2>1. channels' = SetToSeq(rows)
    BY DEF Rebuild
  <2>. HIDE DEF rows
  <2>. QED
    BY <1>1, <2>1, Listed
<1>3. \A c \in rows : Fields(c) /\ c.tier = None /\ c.paired = FALSE
  BY DEF Inserted, Fields
<1>4. \A c \in Domain' : Fields(channels'[c]) /\ channels'[c].tier = None /\ channels'[c].paired = FALSE
  <2>. HIDE DEF rows, n
  <2>. QED
    BY <1>2, <1>3 DEF Domain
<1>5. /\ events' = [i \in DOMAIN events |-> events'[i]] /\ pairs' = {}
      /\ pc' = "rebuilt" /\ read' = read
  BY DEF Rebuild, At
<1>6. PICK S : events \in Seq(S)
  BY DEF TableInv
<1>7. \E T : events' \in Seq(T)
  BY <1>5, <1>6, SameLength
<1>8. TableInv'
  BY <1>4, <1>5, <1>7 DEF TableInv, Domain, Fields, Holds
<1>9. PairInv'
  <2>1. ~(None >= 3)
    BY DEF None
  <2>. QED
    BY <1>4, <1>5, <2>1 DEF PairInv, Domain
<1>. QED
  BY <1>8, <1>9

LEMMA ChangedPaired ==
    ASSUME NEW c, Fields(c), NEW b \in BOOLEAN
    PROVE  /\ Fields(WithPaired(c, b)) /\ WithPaired(c, b).row = c.row
           /\ WithPaired(c, b).tier = c.tier /\ WithPaired(c, b).paired = b
<1>. DEFINE d == [freq |-> c.freq, row |-> c.row, notes |-> c.notes, tier |-> c.tier, paired |-> b]
<1>1. [[freq |-> c.freq, row |-> c.row, notes |-> c.notes, tier |-> c.tier, paired |-> c.paired]
          EXCEPT !.paired = b] = d
  OBVIOUS
<1>2. WithPaired(c, b) = d
  <2>. HIDE DEF d
  <2>. QED
    BY <1>1, Zenon DEF Fields, WithPaired
<1>3. d.freq = c.freq /\ d.row = c.row /\ d.notes = c.notes /\ d.tier = c.tier
  OBVIOUS
<1>4. d.paired = b
  BY Zenon
<1>5. Fields(d)
  BY <1>3, <1>4, Zenon DEF Fields
<1>. HIDE DEF d
<1>. QED
  BY <1>2, <1>3, <1>4, <1>5, Zenon

LEMMA ClearTables ==
    ASSUME TableInv, PairInv, Clear
    PROVE  TableInv' /\ PairInv'
<1>1. /\ Domain' = Domain /\ pairs' = {} /\ UNCHANGED <<events, read>>
      /\ pc = "pair" /\ pc' = "cleared"
  BY DEF Clear, At, Domain, capture
<1>2. \A c \in Domain : channels'[c] = WithPaired(channels[c], FALSE)
  BY DEF Clear, Domain, WithPaired
<1>3. \A c \in Domain : /\ Fields(channels'[c]) /\ channels'[c].row = channels[c].row
                        /\ channels'[c].tier = None /\ channels'[c].paired = FALSE
  <2>. TAKE c \in Domain
  <2>1. Fields(channels[c]) /\ channels[c].tier = None
    BY <1>1 DEF TableInv, PairInv
  <2>2. channels'[c] = WithPaired(channels[c], FALSE)
    BY <1>2
  <2>. QED
    BY <2>1, <2>2, ChangedPaired
<1>4. TableInv'
  BY <1>1, <1>3 DEF TableInv, Domain, Fields, Holds
<1>5. PairInv'
  <2>1. ~(None >= 3)
    BY DEF None
  <2>. QED
    BY <1>1, <1>3, <2>1 DEF PairInv, Domain
<1>. QED
  BY <1>4, <1>5

LEMMA PairsTables ==
    ASSUME TableInv, PairInv, PairsWrite
    PROVE  TableInv' /\ PairInv'
<1>1. /\ Domain' = Domain /\ pairs' = pairs \cup read.found /\ UNCHANGED events
      /\ pc = "matched" /\ pc' = "score" /\ read' = Nothing
  BY DEF PairsWrite, At, Domain, capture
<1>2. pairs' \subseteq Domain \X Domain
  BY <1>1 DEF PairInv
<1>3. \A c \in Domain :
         channels'[c] = IF \E p \in pairs' : p[1] = c THEN [channels[c] EXCEPT !.paired = TRUE]
                        ELSE channels[c]
  BY DEF PairsWrite, Domain
<1>4. ASSUME NEW c \in Domain
      PROVE  /\ Fields(channels'[c]) /\ channels'[c].row = channels[c].row
             /\ channels'[c].tier = None /\ channels'[c].paired \in BOOLEAN
             /\ channels'[c].paired => \E p \in pairs' : p[1] = c
  <2>1. /\ Fields(channels[c]) /\ channels[c].tier = None /\ channels[c].paired \in BOOLEAN
        /\ channels[c].paired => \E p \in pairs : p[1] = c
    BY <1>1, <1>4 DEF TableInv, PairInv
  <2>2. CASE \E p \in pairs' : p[1] = c
    <3>1. channels'[c] = WithPaired(channels[c], TRUE)
      BY <1>3, <1>4, <2>2 DEF WithPaired
    <3>. QED
      BY <2>1, <2>2, <3>1, ChangedPaired
  <2>3. CASE ~\E p \in pairs' : p[1] = c
    <3>1. channels'[c] = channels[c]
      BY <1>3, <1>4, <2>3
    <3>. QED
      BY <1>1, <2>1, <3>1
  <2>. QED
    BY <2>2, <2>3
<1>5. TableInv'
  BY <1>1, <1>4, NothingHolds DEF TableInv, Domain, Fields, Holds
<1>6. PairInv'
  <2>1. ~(None >= 3)
    BY DEF None
  <2>. QED
    BY <1>1, <1>2, <1>4, <2>1 DEF PairInv, Domain
<1>. QED
  BY <1>5, <1>6

\* An output is not offered before its input was heard.
LEMMA TierOfOutput ==
    ASSUME NEW row, NEW paired, Tier(row, paired) >= 3, IsOutput(row)
    PROVE  paired
BY DEF Tier, IsOutput

LEMMA ScoreTables ==
    ASSUME TableInv, PairInv, ScoreWrite
    PROVE  TableInv' /\ PairInv'
<1>1. /\ Domain' = Domain /\ UNCHANGED <<events, pairs>> /\ read' = Nothing
      /\ pc = "scored" /\ pc' = "idle"
  BY DEF ScoreWrite, At, Domain, capture
<1>2. \A c \in Domain :
         channels'[c] = WithTier(channels[c], Tier(channels[c].row, channels[c].paired))
  BY <1>1 DEF ScoreWrite, Domain, PairInv, WithTier
<1>3. ASSUME NEW c \in Domain
      PROVE  /\ Fields(channels'[c]) /\ channels'[c].row = channels[c].row
             /\ channels'[c].tier = Tier(channels[c].row, channels[c].paired)
             /\ channels'[c].paired = channels[c].paired
  <2>1. Fields(channels[c])
    BY <1>3 DEF TableInv
  <2>. QED
    BY <1>2, <1>3, <2>1, ChangedField
<1>4. TableInv'
  BY <1>1, <1>3, NothingHolds DEF TableInv, Domain, Fields, Holds
<1>5. PairInv'
  <2>1. \A c \in Domain : channels'[c].tier >= 3 /\ IsOutput(channels'[c].row) => channels'[c].paired
    BY <1>3, TierOfOutput
  <2>. QED
    BY <1>1, <1>3, <2>1 DEF PairInv, Domain
<1>. QED
  BY <1>4, <1>5

LEMMA NoteTables ==
    ASSUME TableInv, PairInv, NEW n \in Domain, Note(n)
    PROVE  TableInv' /\ PairInv'
<1>1. Domain' = Domain /\ UNCHANGED <<events, pairs, pc, read>>
  BY DEF Note, Domain, capture
<1>2. PICK x : channels' = [channels EXCEPT ![n].notes = x]
  BY DEF Note
<1>3. ASSUME NEW c \in Domain
      PROVE  /\ Fields(channels'[c]) /\ channels'[c].row = channels[c].row
             /\ channels'[c].tier = channels[c].tier /\ channels'[c].paired = channels[c].paired
  <2>1. Fields(channels[c])
    BY <1>3 DEF TableInv
  <2>2. channels'[c] = IF c = n THEN WithNotes(channels[c], x) ELSE channels[c]
    BY <1>2, <1>3 DEF Domain, WithNotes
  <2>. QED
    BY <2>1, <2>2, ChangedField
<1>4. TableInv'
  BY <1>1, <1>3 DEF TableInv, Domain, Fields, Holds
<1>5. PairInv'
  BY <1>1, <1>3 DEF PairInv, Domain, IsOutput
<1>. QED
  BY <1>4, <1>5

LEMMA NextTables == TableInv /\ PairInv /\ [Next]_vars => TableInv' /\ PairInv'
<1>. SUFFICES ASSUME TableInv, PairInv, [Next]_vars PROVE TableInv' /\ PairInv'
  OBVIOUS
<1>1. CASE Detector
  BY <1>1, DetectorTables
<1>2. CASE Begin \/ TagRead \/ NotesRead \/ EventsRead \/ Match \/ ScoreRead \/ Killed
  BY <1>2, ReadingTables
<1>3. CASE TagWrite
  <2>1. events' = [i \in DOMAIN events |-> events'[i]]
    BY <1>3 DEF TagWrite
  <2>2. UNCHANGED <<channels, pairs>> /\ read' = Nothing /\ pc' = "rollup"
    BY <1>3 DEF TagWrite, At
  <2>. QED
    BY <2>1, <2>2, OnlyEvents
<1>4. CASE Link
  <2>1. events' = [i \in DOMAIN events |-> events'[i]]
    BY <1>4 DEF Link
  <2>2. UNCHANGED <<channels, pairs>> /\ read' = Nothing /\ pc' = "pair" /\ pc = "rebuilt"
    BY <1>4 DEF Link, At
  <2>. QED
    BY <2>1, <2>2, OnlyEvents
<1>5. CASE Operator
  BY <1>5, NoteTables DEF Operator, Domain
<1>6. CASE UNCHANGED vars
  BY <1>6 DEF vars, TableInv, PairInv, Domain, Fields, Holds, IsOutput
<1>. QED
  BY <1>1, <1>2, <1>3, <1>4, <1>5, <1>6, RebuildTables, ClearTables, PairsTables, ScoreTables
     DEF Next, Enricher

\* In every state that a reader or a crash can find, a repeater output that is
\* offered as programmable has a pair, and no pair is of a row that is gone.
THEOREM OffersHaveInputs == Spec => []TiersBackedByPairs
<1>1. PairInv => TiersBackedByPairs
  BY DEF PairInv, TiersBackedByPairs, Domain, IsOutput
<1>. QED
  BY <1>1, InitTables, NextTables, PTL DEF Spec

-----------------------------------------------------------------------------
(* Whose row an event is on, and whose row a note is on.  The invariant     *)
(* says of every row, also of those the enricher still holds, that it has a *)
(* frequency its key stands for, which no other row has (RowRight), and     *)
(* that until they are linked no event is anybody's (Unlinked).             *)

EventFields(e) ==
    e = [id |-> e.id, freq |-> e.freq, t |-> e.t, harmonic |-> e.harmonic,
         tone |-> e.tone, ctcss |-> e.ctcss, dcs |-> e.dcs, dev |-> e.dev, snr |-> e.snr,
         plan |-> e.plan, chan |-> e.chan]

EventRight(e, i) == EventFields(e) /\ e.id = i /\ e.freq \in Freqs

LinkedTo(c) == {i \in DOMAIN events : events[i].chan = c}

RowRight(r) ==
    /\ r.row.freq \in DOMAIN Key /\ Settled(r.row.freq) /\ Key[r.row.freq] = r.key
    /\ r.ids \subseteq DOMAIN events /\ Cardinality(r.ids) = r.row.count
    /\ \A i \in r.ids : Key[events[i].freq] = r.key

Unlinked ==
    /\ \A i \in DOMAIN events : events[i].chan = 0
    /\ \A c \in Domain : \E r \in read.rows :
          channels[c].freq = r.row.freq /\ channels[c].row = r.row
    /\ \A r \in read.rows : \E c \in Domain : channels[c].freq = r.row.freq

LinkInv ==
    /\ \A i \in DOMAIN events : EventRight(events[i], i)
    /\ 0 \notin Domain
    /\ \A c \in Domain : channels[c].freq \in DOMAIN Key /\ Settled(channels[c].freq)
    /\ \A c, d \in Domain : channels[c].freq = channels[d].freq => c = d
    /\ \A i \in DOMAIN events : events[i].chan # 0 =>
          events[i].chan \in Domain /\ KeyOf(events[i].chan) = Key[events[i].freq]
    /\ \A c \in Domain : Cardinality(LinkedTo(c)) \in {0, channels[c].row.count}
    /\ pc \in {"read", "rebuilt"} =>
          /\ \A r \in read.rows : RowRight(r)
          /\ \A r, s \in read.rows : r.key = s.key => r = s
    /\ pc = "rebuilt" => Unlinked

\* A note that is to be kept is on its row, or in the enricher's hands.
NotesInv ==
    /\ \A c \in Domain : channels[c].notes \in {NoNote, KeyOf(c)}
    /\ \A k \in kept \cap Nominal : \E c \in Domain : channels[c].notes = k
    /\ pc = "noted" =>
          /\ \A n \in read.notes : \E f \in DOMAIN Key : n = <<f, Key[f]>> /\ Settled(f)
          /\ \A k \in kept \cap Nominal : <<k, k>> \in read.notes
    /\ pc = "read" =>
          /\ \A r \in read.rows : r.notes \in {NoNote, r.key}
          /\ \A r \in read.rows : r.key \in kept \cap Nominal => r.notes = r.key

LEMMA KeyIs ==
    /\ \A f \in DOMAIN Key : f \in Nat /\ Key[f] = ChannelKey(f)
    /\ Centers \subseteq DOMAIN Key
    /\ \A f \in Nat, b \in Freqs : f <= b => f \in DOMAIN Key
    /\ Freqs \subseteq DOMAIN Key
<1>. DEFINE his == {r.hi : r \in Plan}
            S == Freqs \cup his
            m == Max(S)
<1>1. IsFiniteSet(his)
  <2>. DEFINE hi == [r \in Plan |-> r.hi]
  <2>1. hi \in Surjection(Plan, his)
    <3>1. hi \in [Plan -> his] /\ \A x \in his : \E r \in Plan : hi[r] = x
      OBVIOUS
    <3>. HIDE DEF hi, his
    <3>. QED
      BY <3>1 DEF Surjection
  <2>2. IsFiniteSet(Plan)
    BY PlanAssumption
  <2>. HIDE DEF hi, his
  <2>. QED
    BY <2>1, <2>2, FS_Surjection
<1>2. IsFiniteSet(S)
  <2>. HIDE DEF his
  <2>. QED
    BY <1>1, FS_Union, EventsAssumption
<1>3. S \in SUBSET Nat /\ S # {}
  BY RowOfPlan, EventsAssumption
<1>4. m \in Nat /\ \A y \in S : y <= m
  <2>. HIDE DEF S
  <2>1. m \in S /\ \A y \in S : y <= m
    BY <1>2, <1>3, MaxOfNaturals
  <2>. QED
    BY <1>3, <2>1
<1>5. Key = [f \in 0 .. m |-> ChannelKey(f)]
  BY DEF Key
<1>. HIDE DEF m
<1>6. DOMAIN Key = 0 .. m /\ \A f \in DOMAIN Key : f \in Nat /\ Key[f] = ChannelKey(f)
  BY <1>4, <1>5
<1>7. ASSUME NEW k \in Centers PROVE k \in DOMAIN Key
  <2>1. PICK r \in Plan : r.kind = "channel" /\ k = r.center
    BY <1>7 DEF Centers
  <2>2. k \in Nat /\ k <= r.hi /\ r.hi \in Nat /\ r.hi <= m
    BY <1>4, <2>1, RowOfPlan
  <2>. QED
    BY <1>4, <1>6, <2>2
<1>8. ASSUME NEW f \in Nat, NEW b \in Freqs, f <= b PROVE f \in DOMAIN Key
  <2>1. b <= m /\ b \in Nat
    BY <1>4, EventsAssumption
  <2>. QED
    BY <1>4, <1>6, <1>8, <2>1
<1>9. Freqs \subseteq DOMAIN Key
  BY <1>8, EventsAssumption
<1>. QED
  BY <1>6, <1>7, <1>8, <1>9

LEMMA EventsDomain ==
    ASSUME TableInv
    PROVE  /\ Len(events) \in Nat /\ DOMAIN events = 1 .. Len(events)
           /\ IsFiniteSet(DOMAIN events) /\ 0 \notin DOMAIN events
<1>1. PICK S : events \in Seq(S)
  BY DEF TableInv
<1>2. Len(events) \in Nat /\ DOMAIN events = 1 .. Len(events)
  BY <1>1
<1>. QED
  BY <1>2, FS_Interval

\* What was to be shown
LEMMA LinksFollow ==
    ASSUME TableInv, LinkInv
    PROVE  LinksFollowKeys
<1>1. ASSUME NEW c \in Domain
      PROVE  Cardinality({e \in Range(events) : e.chan = c}) = Cardinality(LinkedTo(c))
  <2>1. {e \in Range(events) : e.chan = c} = {events[i] : i \in LinkedTo(c)}
    BY DEF Range, LinkedTo
  <2>2. IsFiniteSet(LinkedTo(c))
    BY EventsDomain, FS_Subset DEF LinkedTo
  <2>3. \A i \in LinkedTo(c) : events[i].id = i
    BY DEF LinkInv, LinkedTo, EventRight
  <2>4. Cardinality({events[i] : i \in LinkedTo(c)}) = Cardinality(LinkedTo(c))
    BY <2>2, <2>3, CountedByIds DEF Of
  <2>. QED
    BY <2>1, <2>4
<1>2. \A e \in Range(events) :
         e.chan # 0 => e.chan \in Domain /\ KeyOf(e.chan) = Key[e.freq]
  BY DEF LinkInv, Range
<1>. QED
  BY <1>1, <1>2 DEF LinksFollowKeys, LinkInv, Domain

-----------------------------------------------------------------------------
(* Steps that leave it to others which event is on which row               *)

LEMMA LinksKept ==
    ASSUME LinkInv, \A i \in DOMAIN events' : EventRight(events'[i], i),
           Domain' = Domain,
           \A c \in Domain : channels'[c].freq = channels[c].freq /\ channels'[c].row = channels[c].row,
           DOMAIN events \subseteq DOMAIN events',
           \A i \in DOMAIN events : events'[i].freq = events[i].freq /\ events'[i].chan = events[i].chan,
           \A i \in DOMAIN events' \ DOMAIN events : events'[i].chan = 0,
           pc' \in {"read", "rebuilt"} => pc' = pc /\ read'.rows = read.rows
    PROVE  LinkInv'
<1>1. ASSUME NEW c \in Domain PROVE LinkedTo(c)' = LinkedTo(c) /\ KeyOf(c)' = KeyOf(c)
  <2>1. c # 0
    BY DEF LinkInv
  <2>. QED
    BY <1>1, <2>1 DEF LinkedTo, KeyOf
<1>2. \A r : RowRight(r) => RowRight(r)'
  BY DEF RowRight
<1>3. /\ 0 \notin Domain'
      /\ \A c \in Domain' : channels'[c].freq \in DOMAIN Key /\ Settled(channels'[c].freq)
      /\ \A c, d \in Domain' : channels'[c].freq = channels'[d].freq => c = d
  BY DEF LinkInv
<1>4. ASSUME NEW i \in DOMAIN events', events'[i].chan # 0
      PROVE  /\ events'[i].chan \in Domain'
             /\ Key[channels'[events'[i].chan].freq] = Key[events'[i].freq]
  <2>1. i \in DOMAIN events /\ events'[i].freq = events[i].freq /\ events'[i].chan = events[i].chan
    BY <1>4
  <2>2. events[i].chan \in Domain /\ Key[channels[events[i].chan].freq] = Key[events[i].freq]
    BY <1>4, <2>1 DEF LinkInv, KeyOf
  <2>3. channels'[events[i].chan].freq = channels[events[i].chan].freq
    BY <2>2
  <2>. QED
    BY <2>1, <2>2, <2>3
<1>5. \A c \in Domain' : Cardinality(LinkedTo(c)') \in {0, channels'[c].row.count}
  BY <1>1 DEF LinkInv
<1>6. pc' \in {"read", "rebuilt"} =>
         /\ \A r \in read'.rows : RowRight(r)'
         /\ \A r, s \in read'.rows : r.key = s.key => r = s
  BY <1>2 DEF LinkInv
<1>7. pc' = "rebuilt" => Unlinked'
  BY DEF LinkInv, Unlinked
<1>. QED
  BY <1>3, <1>4, <1>5, <1>6, <1>7 DEF LinkInv, KeyOf

-----------------------------------------------------------------------------
(* What steps leave of an event                                            *)

Same(d, e) == EventFields(d) /\ d.id = e.id /\ d.freq = e.freq

AsHarmonic(e, h) == [e EXCEPT !.harmonic = h]
Closed(e) == [e EXCEPT !.snr = MinSnr]
Analysed(e, to, ct, dc, de) == [e EXCEPT !.tone = to, !.ctcss = ct, !.dcs = dc, !.dev = de]
Tagged(e, p) == [e EXCEPT !.plan = p]
OnRow(e, c) == [e EXCEPT !.chan = c]

\* An event has its fields written out.
EventOf(i, f, t, h, tone, ctcss, dcs, dev, snr, p, c) ==
    [id |-> i, freq |-> f, t |-> t, harmonic |-> h, tone |-> tone, ctcss |-> ctcss,
     dcs |-> dcs, dev |-> dev, snr |-> snr, plan |-> p, chan |-> c]

LEMMA EventOfIs ==
    ASSUME NEW i, NEW f, NEW t, NEW h, NEW to, NEW ct, NEW dc, NEW de, NEW sn, NEW p, NEW c
    PROVE  LET e == EventOf(i, f, t, h, to, ct, dc, de, sn, p, c)
           IN /\ EventFields(e) /\ e.id = i /\ e.freq = f /\ e.t = t /\ e.harmonic = h
              /\ e.tone = to /\ e.ctcss = ct /\ e.dcs = dc /\ e.dev = de /\ e.snr = sn
              /\ e.plan = p /\ e.chan = c
BY DEF EventOf, EventFields

LEMMA WrittenOut ==
    ASSUME NEW e, EventFields(e)
    PROVE  LET of(h, to, ct, dc, de, sn, p, c) ==
                 EventOf(e.id, e.freq, e.t, h, to, ct, dc, de, sn, p, c)
           IN /\ e = of(e.harmonic, e.tone, e.ctcss, e.dcs, e.dev, e.snr, e.plan, e.chan)
              /\ \A h : AsHarmonic(e, h) =
                    of(h, e.tone, e.ctcss, e.dcs, e.dev, e.snr, e.plan, e.chan)
              /\ Closed(e) = of(e.harmonic, e.tone, e.ctcss, e.dcs, e.dev, MinSnr, e.plan, e.chan)
              /\ \A to, ct, dc, de :
                    Analysed(e, to, ct, dc, de) = of(e.harmonic, to, ct, dc, de, e.snr, e.plan, e.chan)
              /\ \A p : Tagged(e, p) =
                    of(e.harmonic, e.tone, e.ctcss, e.dcs, e.dev, e.snr, p, e.chan)
              /\ \A c : OnRow(e, c) =
                    of(e.harmonic, e.tone, e.ctcss, e.dcs, e.dev, e.snr, e.plan, c)
<1>. DEFINE of(h, to, ct, dc, de, sn, p, c) == EventOf(e.id, e.freq, e.t, h, to, ct, dc, de, sn, p, c)
<1>1. e = of(e.harmonic, e.tone, e.ctcss, e.dcs, e.dev, e.snr, e.plan, e.chan)
  BY DEF EventFields, EventOf
<1>3. \A h : AsHarmonic(e, h) = of(h, e.tone, e.ctcss, e.dcs, e.dev, e.snr, e.plan, e.chan)
  BY <1>1 DEF AsHarmonic, EventOf
<1>4. Closed(e) = of(e.harmonic, e.tone, e.ctcss, e.dcs, e.dev, MinSnr, e.plan, e.chan)
  BY <1>1 DEF Closed, EventOf
<1>5. \A to, ct, dc, de :
         Analysed(e, to, ct, dc, de) = of(e.harmonic, to, ct, dc, de, e.snr, e.plan, e.chan)
  <2>. TAKE to, ct, dc, de
  <2>. DEFINE e1 == [e EXCEPT !.tone = to]
              e2 == [e1 EXCEPT !.ctcss = ct]
              e3 == [e2 EXCEPT !.dcs = dc]
              e4 == [e3 EXCEPT !.dev = de]
  <2>1. Analysed(e, to, ct, dc, de) = e4
    BY DEF Analysed
  <2>2. e1 = of(e.harmonic, to, e.ctcss, e.dcs, e.dev, e.snr, e.plan, e.chan)
    BY <1>1 DEF EventOf
  <2>. HIDE DEF e1
  <2>3. e2 = of(e.harmonic, to, ct, e.dcs, e.dev, e.snr, e.plan, e.chan)
    BY <2>2 DEF EventOf
  <2>. HIDE DEF e2
  <2>4. e3 = of(e.harmonic, to, ct, dc, e.dev, e.snr, e.plan, e.chan)
    BY <2>3 DEF EventOf
  <2>. HIDE DEF e3
  <2>5. e4 = of(e.harmonic, to, ct, dc, de, e.snr, e.plan, e.chan)
    BY <2>4 DEF EventOf
  <2>. QED
    BY <2>1, <2>5
<1>6. \A p : Tagged(e, p) = of(e.harmonic, e.tone, e.ctcss, e.dcs, e.dev, e.snr, p, e.chan)
  BY <1>1 DEF Tagged, EventOf
<1>7. \A c : OnRow(e, c) = of(e.harmonic, e.tone, e.ctcss, e.dcs, e.dev, e.snr, e.plan, c)
  BY <1>1 DEF OnRow, EventOf
<1>. QED
  BY <1>1, <1>3, <1>4, <1>5, <1>6, <1>7

LEMMA ChangedEvent ==
    ASSUME NEW e, EventFields(e)
    PROVE  /\ \A h : Same(AsHarmonic(e, h), e) /\ AsHarmonic(e, h).chan = e.chan
           /\ Same(Closed(e), e) /\ Closed(e).chan = e.chan
           /\ \A to, ct, dc, de : /\ Same(Analysed(e, to, ct, dc, de), e)
                                   /\ Analysed(e, to, ct, dc, de).chan = e.chan
           /\ \A p : Same(Tagged(e, p), e) /\ Tagged(e, p).chan = e.chan
           /\ \A c : Same(OnRow(e, c), e) /\ OnRow(e, c).chan = c
<1>. DEFINE of(h, to, ct, dc, de, sn, p, c) == EventOf(e.id, e.freq, e.t, h, to, ct, dc, de, sn, p, c)
<1>1. \A h, to, ct, dc, de, sn, p, c :
         /\ Same(of(h, to, ct, dc, de, sn, p, c), e)
         /\ of(h, to, ct, dc, de, sn, p, c).chan = c
  BY EventOfIs DEF Same
<1>2. /\ \A h : AsHarmonic(e, h) = of(h, e.tone, e.ctcss, e.dcs, e.dev, e.snr, e.plan, e.chan)
      /\ Closed(e) = of(e.harmonic, e.tone, e.ctcss, e.dcs, e.dev, MinSnr, e.plan, e.chan)
      /\ \A to, ct, dc, de :
            Analysed(e, to, ct, dc, de) = of(e.harmonic, to, ct, dc, de, e.snr, e.plan, e.chan)
      /\ \A p : Tagged(e, p) = of(e.harmonic, e.tone, e.ctcss, e.dcs, e.dev, e.snr, p, e.chan)
      /\ \A c : OnRow(e, c) = of(e.harmonic, e.tone, e.ctcss, e.dcs, e.dev, e.snr, e.plan, c)
  BY WrittenOut
<1>. HIDE DEF of
<1>. QED
  BY <1>1, <1>2

\* An event of which nothing but its plan and its channel may be another
AsHeard(d, e) ==
    /\ EventFields(d) /\ d.id = e.id /\ d.freq = e.freq /\ d.harmonic = e.harmonic
    /\ d.tone = e.tone /\ d.ctcss = e.ctcss /\ d.dcs = e.dcs /\ d.dev = e.dev /\ d.snr = e.snr

LEMMA PlanOfEvent ==
    ASSUME NEW e, EventFields(e)
    PROVE  /\ AsHeard(e, e)
           /\ \A h : AsHarmonic(e, h).plan = e.plan
           /\ Closed(e).plan = e.plan
           /\ \A to, ct, dc, de : Analysed(e, to, ct, dc, de).plan = e.plan
           /\ \A p : AsHeard(Tagged(e, p), e) /\ Tagged(e, p).plan = p
           /\ \A c : AsHeard(OnRow(e, c), e) /\ OnRow(e, c).plan = e.plan
<1>. DEFINE of(h, to, ct, dc, de, sn, p, c) == EventOf(e.id, e.freq, e.t, h, to, ct, dc, de, sn, p, c)
<1>1. \A h, to, ct, dc, de, sn, p, c : of(h, to, ct, dc, de, sn, p, c).plan = p
  BY EventOfIs
<1>2. ASSUME NEW p, NEW c
      PROVE  AsHeard(of(e.harmonic, e.tone, e.ctcss, e.dcs, e.dev, e.snr, p, c), e)
  <2>. DEFINE d == of(e.harmonic, e.tone, e.ctcss, e.dcs, e.dev, e.snr, p, c)
  <2>1. d.harmonic = e.harmonic
    BY Zenon DEF EventOf
  <2>2. /\ EventFields(d) /\ d.id = e.id /\ d.freq = e.freq
        /\ d.tone = e.tone /\ d.ctcss = e.ctcss /\ d.dcs = e.dcs /\ d.dev = e.dev /\ d.snr = e.snr
    BY EventOfIs
  <2>. HIDE DEF d
  <2>3. AsHeard(d, e)
    BY <2>1, <2>2, Zenon DEF AsHeard
  <2>. QED
    BY <2>3 DEF d
<1>3. /\ \A h : AsHarmonic(e, h) = of(h, e.tone, e.ctcss, e.dcs, e.dev, e.snr, e.plan, e.chan)
      /\ Closed(e) = of(e.harmonic, e.tone, e.ctcss, e.dcs, e.dev, MinSnr, e.plan, e.chan)
      /\ \A to, ct, dc, de :
            Analysed(e, to, ct, dc, de) = of(e.harmonic, to, ct, dc, de, e.snr, e.plan, e.chan)
      /\ \A p : Tagged(e, p) = of(e.harmonic, e.tone, e.ctcss, e.dcs, e.dev, e.snr, p, e.chan)
      /\ \A c : OnRow(e, c) = of(e.harmonic, e.tone, e.ctcss, e.dcs, e.dev, e.snr, e.plan, c)
  BY WrittenOut
<1>4. AsHeard(e, e)
  BY DEF AsHeard
<1>. HIDE DEF of
<1>. QED
  BY <1>1, <1>2, <1>3, <1>4

\* An event is still right, and on the row it was on.
Kept(e, d) == EventFields(d) /\ d.id = e.id /\ d.freq = e.freq /\ d.chan = e.chan

Unmoved(e, d) == Kept(e, d) /\ d.plan = e.plan

LEMMA DetectorEvents ==
    ASSUME TableInv, LinkInv, Detector
    PROVE  /\ DOMAIN events \subseteq DOMAIN events'
           /\ \A i \in DOMAIN events : Unmoved(events[i], events'[i])
           /\ \A i \in DOMAIN events' \ DOMAIN events :
                 /\ EventRight(events'[i], i)
                 /\ events'[i].chan = 0 /\ events'[i].plan = NoPlan
<1>1. \A i \in DOMAIN events : EventFields(events[i])
  BY DEF LinkInv, EventRight
<1>2. \A i \in DOMAIN events : Unmoved(events[i], events[i])
  BY <1>1 DEF Unmoved, Kept
<1>3. ASSUME NEW f \in Freqs, NEW t, NEW h, Detect(f, t, h)
      PROVE  /\ DOMAIN events' = 1 .. Len(events) + 1
             /\ \A i \in DOMAIN events : events'[i] = events[i]
             /\ EventRight(events'[Len(events) + 1], Len(events) + 1)
             /\ events'[Len(events) + 1].chan = 0 /\ events'[Len(events) + 1].plan = NoPlan
  <2>. DEFINE new == EventOf(Len(events) + 1, f, t, FALSE, "unknown", None, None, None, None, NoPlan, 0)
  <2>1. events' = Append(events, new)
    BY <1>3 DEF Detect, EventOf
  <2>2. EventRight(new, Len(events) + 1) /\ new.chan = 0 /\ new.plan = NoPlan
    <3>1. EventFields(new) /\ new.id = Len(events) + 1 /\ new.freq = f /\ new.chan = 0 /\ new.plan = NoPlan
      <4>1. PICK no, to, sn, p :
               /\ new = EventOf(Len(events) + 1, f, t, no, to, sn, sn, sn, sn, p, 0)
               /\ p = NoPlan
        BY Zenon
      <4>. HIDE DEF new
      <4>. QED
        BY <4>1, EventOfIs
    <3>. HIDE DEF new
    <3>. QED
      BY <3>1 DEF EventRight
  <2>3. PICK S : events \in Seq(S)
    BY DEF TableInv
  <2>. HIDE DEF new
  <2>4. events \in Seq(S \cup {new})
    BY <2>3
  <2>. QED
    BY <2>1, <2>2, <2>4
<1>4. ASSUME MarkHarmonic
      PROVE  DOMAIN events' = DOMAIN events /\ \A i \in DOMAIN events : Unmoved(events[i], events'[i])
  <2>1. DOMAIN events' = DOMAIN events
    BY <1>4 DEF MarkHarmonic
  <2>2. \A i \in DOMAIN events :
           events'[i] = IF i = starting THEN AsHarmonic(events[i], TRUE) ELSE events[i]
    BY <1>4 DEF MarkHarmonic, AsHarmonic
  <2>3. \A i \in DOMAIN events : Unmoved(events[i], AsHarmonic(events[i], TRUE))
    BY <1>1, ChangedEvent, PlanOfEvent DEF Unmoved, Kept, Same
  <2>. QED
    BY <1>2, <2>1, <2>2, <2>3
<1>5. ASSUME NEW n \in DOMAIN events, Close(n)
      PROVE  DOMAIN events' = DOMAIN events /\ \A i \in DOMAIN events : Unmoved(events[i], events'[i])
  <2>1. DOMAIN events' = DOMAIN events
    BY <1>5 DEF Close
  <2>2. \A i \in DOMAIN events : events'[i] = IF i = n THEN Closed(events[i]) ELSE events[i]
    BY <1>5 DEF Close, Closed
  <2>3. \A i \in DOMAIN events : Unmoved(events[i], Closed(events[i]))
    BY <1>1, ChangedEvent, PlanOfEvent DEF Unmoved, Kept, Same
  <2>. QED
    BY <1>2, <2>1, <2>2, <2>3
<1>6. ASSUME NEW n \in DOMAIN events, NEW r, Analyse(n, r)
      PROVE  DOMAIN events' = DOMAIN events /\ \A i \in DOMAIN events : Unmoved(events[i], events'[i])
  <2>1. DOMAIN events' = DOMAIN events
    BY <1>6 DEF Analyse
  <2>2. \A i \in DOMAIN events : events'[i] = IF i = n THEN Analysed(events[i], r.tone, r.ctcss, r.dcs, r.dev) ELSE events[i]
    BY <1>6 DEF Analyse, Analysed
  <2>3. ASSUME NEW i \in DOMAIN events
        PROVE  Unmoved(events[i], Analysed(events[i], r.tone, r.ctcss, r.dcs, r.dev))
    <3>1. EventFields(events[i])
      BY <1>1, <2>3
    <3>2. \A to, ct, dc, de : /\ Same(Analysed(events[i], to, ct, dc, de), events[i])
                              /\ Analysed(events[i], to, ct, dc, de).chan = events[i].chan
                              /\ Analysed(events[i], to, ct, dc, de).plan = events[i].plan
      BY <3>1, ChangedEvent, PlanOfEvent
    <3>. QED
      BY <3>2 DEF Unmoved, Kept, Same
  <2>. QED
    BY <1>2, <2>1, <2>2, <2>3
<1>7. CASE \E f \in Freqs, t \in {LastStart, LastStart + MaxLag + 1} :
              Detect(f, t, FALSE) \/ (events # <<>> /\ Detect(f, t, TRUE))
  <2>1. /\ DOMAIN events' = 1 .. Len(events) + 1
        /\ \A i \in DOMAIN events : events'[i] = events[i]
        /\ EventRight(events'[Len(events) + 1], Len(events) + 1)
        /\ events'[Len(events) + 1].chan = 0 /\ events'[Len(events) + 1].plan = NoPlan
    BY <1>3, <1>7
  <2>2. Len(events) \in Nat /\ DOMAIN events = 1 .. Len(events)
    BY EventsDomain
  <2>3. \A i \in DOMAIN events' \ DOMAIN events : i = Len(events) + 1
    BY <2>1, <2>2
  <2>. QED
    BY <1>2, <2>1, <2>2, <2>3
<1>8. CASE MarkHarmonic \/ \E i \in DOMAIN events : Close(i) \/ \E r \in Analyses : Analyse(i, r)
  BY <1>4, <1>5, <1>6, <1>8
<1>. QED
  BY <1>7, <1>8 DEF Detector

LEMMA DetectorLinks ==
    ASSUME TableInv, LinkInv, NotesInv, Detector
    PROVE  LinkInv' /\ NotesInv'
<1>1. UNCHANGED <<channels, pc, read, kept>>
  BY DEF Detector
<1>2. /\ DOMAIN events \subseteq DOMAIN events'
      /\ \A i \in DOMAIN events : Kept(events[i], events'[i])
      /\ \A i \in DOMAIN events' \ DOMAIN events : EventRight(events'[i], i) /\ events'[i].chan = 0
  BY DetectorEvents DEF Unmoved
<1>3. \A i \in DOMAIN events' : EventRight(events'[i], i)
  BY <1>2 DEF LinkInv, EventRight, Kept
<1>4. LinkInv'
  BY <1>1, <1>2, <1>3, LinksKept DEF Domain, Kept
<1>5. NotesInv'
  BY <1>1 DEF NotesInv, Domain, KeyOf
<1>. QED
  BY <1>4, <1>5

-----------------------------------------------------------------------------
(* The enricher                                                            *)

LEMMA ChangedRow ==
    ASSUME NEW c, Fields(c), NEW x
    PROVE  /\ WithNotes(c, x).freq = c.freq /\ WithNotes(c, x).row = c.row /\ WithNotes(c, x).notes = x
           /\ WithTier(c, x).freq = c.freq /\ WithTier(c, x).row = c.row
           /\ WithTier(c, x).notes = c.notes
           /\ WithPaired(c, x).freq = c.freq /\ WithPaired(c, x).row = c.row
           /\ WithPaired(c, x).notes = c.notes
<1>1. \A f, w, n, t, p : LET c0 == [freq |-> f, row |-> w, notes |-> n, tier |-> t, paired |-> p]
      IN /\ [c0 EXCEPT !.notes = x] = [freq |-> f, row |-> w, notes |-> x, tier |-> t, paired |-> p]
         /\ [c0 EXCEPT !.tier = x] = [freq |-> f, row |-> w, notes |-> n, tier |-> x, paired |-> p]
         /\ [c0 EXCEPT !.paired = x] = [freq |-> f, row |-> w, notes |-> n, tier |-> t, paired |-> x]
  OBVIOUS
<1>. QED
  BY <1>1 DEF Fields, WithNotes, WithTier, WithPaired

\* A step that leaves the events, and the rows but for tier and mark
LEMMA RowsKept ==
    ASSUME LinkInv, NotesInv, UNCHANGED <<events, kept>>, Domain' = Domain,
           \A c \in Domain : /\ channels'[c].freq = channels[c].freq
                             /\ channels'[c].row = channels[c].row
                             /\ channels'[c].notes = channels[c].notes,
           pc' \notin {"noted", "read", "rebuilt"}
    PROVE  LinkInv' /\ NotesInv'
<1>1. LinkInv'
  <2>1. \A i \in DOMAIN events' : EventRight(events'[i], i)
    BY DEF LinkInv
  <2>. QED
    BY <2>1, LinksKept
<1>2. \A c \in Domain : KeyOf(c)' = KeyOf(c)
  BY DEF KeyOf
<1>3. NotesInv'
  BY <1>2 DEF NotesInv
<1>. QED
  BY <1>1, <1>3

LEMMA ReadingLinks ==
    ASSUME TableInv, LinkInv, NotesInv,
           Begin \/ TagRead \/ Match \/ ScoreRead \/ Killed
    PROVE  LinkInv' /\ NotesInv'
<1>1. /\ UNCHANGED <<events, channels, kept>>
      /\ pc' \notin {"noted", "read", "rebuilt"}
  BY DEF Begin, TagRead, Match, ScoreRead, Killed, capture, At
<1>. QED
  BY <1>1, RowsKept DEF Domain

LEMMA MarkingLinks ==
    ASSUME TableInv, PairInv, LinkInv, NotesInv, Clear \/ PairsWrite \/ ScoreWrite
    PROVE  LinkInv' /\ NotesInv'
<1>1. /\ UNCHANGED <<events, kept>> /\ Domain' = Domain
      /\ pc' \notin {"noted", "read", "rebuilt"}
  BY DEF Clear, PairsWrite, ScoreWrite, capture, At, Domain
<1>2. \A c \in Domain : \/ channels'[c] = channels[c]
                        \/ \E x : channels'[c] = WithPaired(channels[c], x)
                        \/ \E x : channels'[c] = WithTier(channels[c], x)
  <2>. SUFFICES ASSUME NEW c \in Domain
                PROVE  \/ channels'[c] = channels[c]
                       \/ \E x : channels'[c] = WithPaired(channels[c], x)
                       \/ \E x : channels'[c] = WithTier(channels[c], x)
    OBVIOUS
  <2>1. CASE Clear
    <3>1. channels'[c] = WithPaired(channels[c], FALSE)
      BY <2>1 DEF Clear, Domain, WithPaired
    <3>. QED
      BY <3>1, Zenon
  <2>2. CASE PairsWrite
    <3>1. channels'[c] = channels[c] \/ channels'[c] = WithPaired(channels[c], TRUE)
      BY <2>2 DEF PairsWrite, Domain, WithPaired
    <3>. QED
      BY <3>1, Zenon
  <2>3. CASE ScoreWrite
    <3>1. channels'[c] = WithTier(channels[c], read.tiers[c])
      BY <2>3 DEF ScoreWrite, Domain, WithTier
    <3>. QED
      BY <3>1
  <2>. QED
    BY <2>1, <2>2, <2>3
<1>3. \A c \in Domain : Fields(channels[c])
  BY DEF TableInv
<1>4. \A c \in Domain : /\ channels'[c].freq = channels[c].freq
                        /\ channels'[c].row = channels[c].row
                        /\ channels'[c].notes = channels[c].notes
  BY <1>2, <1>3, ChangedRow
<1>. QED
  BY <1>1, <1>4, RowsKept

LEMMA TagLinks ==
    ASSUME TableInv, LinkInv, NotesInv, TagWrite
    PROVE  LinkInv' /\ NotesInv'
<1>1. /\ UNCHANGED <<channels, kept>> /\ DOMAIN events' = DOMAIN events
      /\ pc' \notin {"noted", "read", "rebuilt"}
  BY DEF TagWrite, At
<1>2. \A i \in DOMAIN events : \/ events'[i] = events[i]
                               \/ events'[i] = Tagged(events[i], Best[events[i].freq])
  BY DEF TagWrite, Tagged
<1>3. \A i \in DOMAIN events : EventFields(events[i])
  BY DEF LinkInv, EventRight
<1>4. \A i \in DOMAIN events : Kept(events[i], events'[i])
  <2>1. \A i \in DOMAIN events : \A p : /\ Same(Tagged(events[i], p), events[i])
                                        /\ Tagged(events[i], p).chan = events[i].chan
    BY <1>3, ChangedEvent
  <2>. QED
    BY <1>2, <1>3, <2>1 DEF Kept, Same
<1>5. \A i \in DOMAIN events' : EventRight(events'[i], i)
  BY <1>1, <1>4 DEF LinkInv, EventRight, Kept
<1>6. LinkInv'
  BY <1>1, <1>4, <1>5, LinksKept DEF Domain, Kept
<1>7. NotesInv'
  BY <1>1 DEF NotesInv, Domain, KeyOf
<1>. QED
  BY <1>6, <1>7

\* A row that stands for the center of a channel has its frequency, so a note
\* on it is found again.
LEMMA KeptIsRead ==
    ASSUME LinkInv, NotesInv, NEW k \in kept \cap Nominal
    PROVE  \E c \in Domain : channels[c].freq = k /\ channels[c].notes = k /\ k # NoNote
<1>1. k \in Centers
  BY DEF Nominal, Centers
<1>2. k \in Nat /\ k # NoNote
  BY <1>1, KeyOfCenter DEF NoNote
<1>3. PICK c \in Domain : channels[c].notes = k
  BY DEF NotesInv
<1>4. KeyOf(c) = k
  BY <1>2, <1>3 DEF NotesInv
<1>5. channels[c].freq \in DOMAIN Key /\ Settled(channels[c].freq)
  BY DEF LinkInv
<1>6. channels[c].freq = k
  BY <1>1, <1>4, <1>5, KeyIs, SettledKey DEF KeyOf
<1>. QED
  BY <1>2, <1>3, <1>6

LEMMA NotesReadLinks ==
    ASSUME TableInv, LinkInv, NotesInv, NotesRead
    PROVE  LinkInv' /\ NotesInv'
<1>1. UNCHANGED <<events, channels, kept>> /\ pc' = "noted"
  BY DEF NotesRead, capture, At
<1>2. read'.notes = {<<c.freq, c.notes>> : c \in {d \in Range(channels) : d.notes # NoNote}}
  BY DEF NotesRead, Nothing
<1>3. LinkInv'
  <2>1. \A i \in DOMAIN events' : EventRight(events'[i], i)
    BY <1>1 DEF LinkInv
  <2>. QED
    BY <1>1, <2>1, LinksKept DEF Domain
<1>4. ASSUME NEW n \in read'.notes PROVE \E f \in DOMAIN Key : n = <<f, Key[f]>> /\ Settled(f)
  <2>1. PICK c \in Domain : n = <<channels[c].freq, channels[c].notes>> /\ channels[c].notes # NoNote
    BY <1>2, <1>4 DEF Range, Domain
  <2>2. channels[c].notes = KeyOf(c)
    BY <2>1 DEF NotesInv
  <2>3. channels[c].freq \in DOMAIN Key /\ Settled(channels[c].freq)
    BY DEF LinkInv
  <2>. QED
    BY <2>1, <2>2, <2>3 DEF KeyOf
<1>5. ASSUME NEW k \in kept \cap Nominal PROVE <<k, k>> \in read'.notes
  <2>1. PICK c \in Domain : channels[c].freq = k /\ channels[c].notes = k /\ k # NoNote
    BY KeptIsRead
  <2>. QED
    BY <1>2, <2>1 DEF Range, Domain
<1>6. NotesInv'
  BY <1>1, <1>4, <1>5 DEF NotesInv, Domain, KeyOf
<1>. QED
  BY <1>3, <1>6

\* The row that is made of the events of a key
\* The events of a key, by their ids, and the row they make
Places(evs, k) == {i \in DOMAIN evs : ~evs[i].harmonic /\ Key[evs[i].freq] = k}
RowOf(evs, k) == Row(Bucket(evs, k))

LEMMA NewRowIs ==
    ASSUME TableInv, LinkInv, NEW k \in Keys(events)
    PROVE  RowRight(NewRow(k)) /\ NewRow(k).key = k /\ NewRow(k).notes = NoteFor(k)
           /\ NewRow(k).row = RowOf(events, k) /\ NewRow(k).ids = Places(events, k)
<1>. DEFINE evs == Bucket(events, k)
            I == Places(events, k)
<1>1. \A i \in DOMAIN events : events[i].id = i /\ events[i].freq \in Freqs
  BY DEF LinkInv, EventRight
<1>2. evs = {events[i] : i \in I} /\ I \subseteq DOMAIN events
  BY DEF Bucket, Traffic, Range, Places
<1>3. {e.id : e \in evs} = I
  <2>. HIDE DEF evs
  <2>. QED
    BY <1>1, <1>2
<1>4. evs # {}
  BY DEF Keys, Bucket
<1>5. IsFiniteSet(I)
  BY <1>2, EventsDomain, FS_Subset
<1>6. IsFiniteSet(evs) /\ Cardinality(evs) = Cardinality(I)
  <2>1. \A i \in I : events[i].id = i
    BY <1>1, <1>2
  <2>. HIDE DEF I, evs
  <2>. QED
    <3>1. IsFiniteSet({events[i] : i \in I}) /\ Cardinality({events[i] : i \in I}) = Cardinality(I)
      BY <1>5, <2>1, CountedByIds DEF Of
    <3>. QED
      BY <1>2, <3>1
<1>7. \A e \in evs : /\ e.freq \in Freqs /\ e.freq \in Nat /\ e.id \in Nat
                     /\ ChannelKey(e.freq) = k
  <2>1. \A i \in DOMAIN events : i \in Nat
    BY EventsDomain
  <2>2. Freqs \subseteq Nat
    BY EventsAssumption
  <2>3. \A e \in evs : Key[e.freq] = k
    BY DEF Bucket
  <2>4. \A e \in evs : \E i \in DOMAIN events : e = events[i]
    BY <1>2
  <2>5. \A e \in evs : e.freq \in Freqs /\ e.id \in Nat
    <3>. HIDE DEF evs
    <3>. QED
      BY <1>1, <2>1, <2>4
  <2>. HIDE DEF evs
  <2>. QED
    BY <2>2, <2>3, <2>5, KeyIs
<1>. HIDE DEF evs
<1>8. /\ Row(evs).freq \in Nat /\ ChannelKey(Row(evs).freq) = k /\ Settled(Row(evs).freq)
      /\ Row(evs).freq \in Centers \/ \E b \in evs : Row(evs).freq <= b.freq
  BY <1>4, <1>6, <1>7, RowStandsForKey
<1>9. Row(evs).freq \in DOMAIN Key /\ Key[Row(evs).freq] = k
  BY <1>7, <1>8, KeyIs
<1>10. Row(evs).count = Cardinality(evs)
  BY DEF Row
<1>11. /\ RowOf(events, k) = Row(evs)
       /\ NewRow(k).key = k /\ NewRow(k).row = Row(evs) /\ NewRow(k).notes = NoteFor(k)
       /\ NewRow(k).ids = {e.id : e \in evs}
  BY DEF NewRow, RowOf, evs
<1>. QED
  BY <1>3, <1>6, <1>8, <1>9, <1>10, <1>11 DEF RowRight, Places

LEMMA KeysAreKeys ==
    ASSUME TableInv, LinkInv, NEW k \in Keys(events)
    PROVE  \E f \in Nat : k = ChannelKey(f)
<1>1. PICK i \in DOMAIN events : k = Key[events[i].freq]
  BY DEF Keys, Traffic, Range
<1>2. events[i].freq \in Freqs
  BY DEF LinkInv, EventRight
<1>. QED
  BY <1>1, <1>2, KeyIs

LEMMA EventsReadLinks ==
    ASSUME TableInv, LinkInv, NotesInv, EventsRead
    PROVE  LinkInv' /\ NotesInv'
<1>1. UNCHANGED <<events, channels, kept>> /\ pc = "noted" /\ pc' = "read"
  BY DEF EventsRead, capture, At
<1>2. read'.rows = {NewRow(k) : k \in Keys(events)}
  <2>. DEFINE rows == {NewRow(k) : k \in Keys(events)}
  <2>1. read' = [read EXCEPT !.rows = rows]
    BY DEF EventsRead
  <2>. HIDE DEF rows
  <2>2. read'.rows = rows
    BY <2>1, ChangedHold DEF TableInv
  <2>. QED
    BY <2>2 DEF rows
<1>3. \A r \in read'.rows : \E k \in Keys(events) : r = NewRow(k)
  BY <1>2
<1>4. \A r \in read'.rows : RowRight(r)
  BY <1>3, NewRowIs
<1>5. \A r, s \in read'.rows : r.key = s.key => r = s
  BY <1>3, NewRowIs
<1>6. LinkInv'
  <2>1. \A r : RowRight(r)' <=> RowRight(r)
    BY <1>1 DEF RowRight
  <2>2. \A c : LinkedTo(c)' = LinkedTo(c) /\ KeyOf(c)' = KeyOf(c)
    BY <1>1 DEF LinkedTo, KeyOf
  <2>3. pc' # "rebuilt" /\ Domain' = Domain
    BY <1>1 DEF Domain
  <2>. QED
    BY <1>1, <1>4, <1>5, <2>1, <2>2, <2>3 DEF LinkInv
<1>7. ASSUME NEW k \in Keys(events)
      PROVE  /\ NoteFor(k) \in {NoNote, k}
             /\ k \in kept \cap Nominal => NoteFor(k) = k
  <2>1. PICK g \in Nat : k = ChannelKey(g)
    BY KeysAreKeys
  <2>2. \A n \in read.notes : n[1] = k => n[2] = k
    <3>. SUFFICES ASSUME NEW n \in read.notes, n[1] = k PROVE n[2] = k
      OBVIOUS
    <3>1. PICK f \in DOMAIN Key : n = <<f, Key[f]>> /\ Settled(f)
      BY <1>1 DEF NotesInv
    <3>2. f = k /\ n[2] = Key[k]
      BY <3>1
    <3>3. ChannelKey(k) = k
      BY <2>1, <3>1, <3>2, KeyOfKey
    <3>. QED
      BY <3>1, <3>2, <3>3, KeyIs
  <2>4. NoteFor(k) \in {NoNote, k}
    BY <2>2 DEF NoteFor
  <2>5. ASSUME k \in kept \cap Nominal PROVE NoteFor(k) = k
    <3>1. <<k, k>> \in read.notes
      BY <1>1, <2>5 DEF NotesInv
    <3>2. \E n \in read.notes : n[1] = k
      BY <3>1
    <3>. QED
      BY <2>2, <3>2 DEF NoteFor
  <2>. QED
    BY <2>4, <2>5
<1>8. \A r \in read'.rows : /\ r.notes \in {NoNote, r.key}
                            /\ r.key \in kept \cap Nominal => r.notes = r.key
  <2>. SUFFICES ASSUME NEW r \in read'.rows
                PROVE  /\ r.notes \in {NoNote, r.key}
                       /\ r.key \in kept \cap Nominal => r.notes = r.key
    OBVIOUS
  <2>1. PICK k \in Keys(events) : r = NewRow(k)
    BY <1>3
  <2>2. r.key = k /\ r.notes = NoteFor(k)
    BY <2>1, NewRowIs
  <2>. QED
    BY <1>7, <2>2
<1>9. NotesInv'
  BY <1>1, <1>8 DEF NotesInv, Domain, KeyOf
<1>. QED
  BY <1>6, <1>9

LEMMA RebuildLinks ==
    ASSUME TableInv, LinkInv, NotesInv, Rebuild
    PROVE  LinkInv' /\ NotesInv'
<1>. DEFINE rows == {Inserted(r) : r \in read.rows}
            n == Cardinality(rows)
<1>1. /\ pc = "read" /\ pc' = "rebuilt" /\ read' = read
      /\ kept' = kept \cap {r.key : r \in read.rows}
      /\ DOMAIN events' = DOMAIN events
      /\ \A i \in DOMAIN events : events'[i] = OnRow(events[i], 0)
  BY DEF Rebuild, At, OnRow
<1>2. /\ \A i \in DOMAIN events : EventRight(events'[i], i) /\ events'[i].freq = events[i].freq
                                 /\ events'[i].chan = 0
  <2>1. \A i \in DOMAIN events : EventFields(events[i])
    BY DEF LinkInv, EventRight
  <2>2. \A i \in DOMAIN events : Same(OnRow(events[i], 0), events[i]) /\ OnRow(events[i], 0).chan = 0
    BY <2>1, ChangedEvent
  <2>. QED
    BY <1>1, <2>2 DEF LinkInv, EventRight, Same
<1>3. \A r \in read.rows : RowRight(r) /\ \A s \in read.rows : r.key = s.key => r = s
  BY <1>1 DEF LinkInv
<1>4. \A r \in read.rows :
         /\ Inserted(r).freq = r.row.freq /\ Inserted(r).row = r.row /\ Inserted(r).notes = r.notes
         /\ Key[r.row.freq] = r.key /\ r.row.freq \in DOMAIN Key /\ Settled(r.row.freq)
  BY <1>3 DEF Inserted, RowRight
<1>5. IsFiniteSet(rows)
  <2>. DEFINE f == [r \in read.rows |-> Inserted(r)]
  <2>1. f \in Surjection(read.rows, rows)
    <3>1. f \in [read.rows -> rows] /\ \A c \in rows : \E r \in read.rows : f[r] = c
      OBVIOUS
    <3>. HIDE DEF f, rows
    <3>. QED
      BY <3>1 DEF Surjection
  <2>2. IsFiniteSet(read.rows)
    BY <1>1 DEF TableInv
  <2>. HIDE DEF f, rows
  <2>. QED
    BY <2>1, <2>2, FS_Surjection
<1>6. /\ channels' \in [1 .. n -> rows] /\ n \in Nat
      /\ \A c, d \in 1 .. n : channels'[c] = channels'[d] => c = d
  <2>1. channels' = SetToSeq(rows)
    BY DEF Rebuild
  <2>. HIDE DEF rows
  <2>. QED
    BY <1>5, <2>1, Listed, FS_CardinalityType
<1>7. \A r \in read.rows : \E c \in 1 .. n : channels'[c] = Inserted(r)
  <2>1. channels' \in Surjection(1 .. n, rows)
    <3>1. channels' \in [1 .. n -> rows] /\ IsInjective(channels')
      BY <1>6 DEF IsInjective
    <3>. HIDE DEF rows
    <3>2. channels' \in Injection(1 .. n, rows)
      BY <3>1 DEF Injection
    <3>3. IsFiniteSet(1 .. n) /\ Cardinality(1 .. n) = n
      BY <1>6, FS_Interval
    <3>. QED
      BY <1>5, <3>2, <3>3, FS_Injection
  <2>2. \A r \in read.rows : Inserted(r) \in rows
    OBVIOUS
  <2>. HIDE DEF rows
  <2>. QED
    BY <2>1, <2>2 DEF Surjection
<1>8. Domain' = 1 .. n
  <2>. HIDE DEF rows
  <2>. QED
    BY <1>6 DEF Domain
<1>9. \A c \in Domain' : \E r \in read.rows : channels'[c] = Inserted(r)
  BY <1>6, <1>8
<1>. HIDE DEF rows, n
<1>10. \A c, d \in Domain' : channels'[c].freq = channels'[d].freq => c = d
  <2>. SUFFICES ASSUME NEW c \in Domain', NEW d \in Domain', channels'[c].freq = channels'[d].freq
                PROVE  c = d
    OBVIOUS
  <2>1. PICK r \in read.rows : channels'[c] = Inserted(r)
    BY <1>9
  <2>2. PICK s \in read.rows : channels'[d] = Inserted(s)
    BY <1>9
  <2>3. r.key = s.key
    BY <1>4, <2>1, <2>2
  <2>4. r = s
    BY <1>3, <2>3
  <2>. QED
    BY <1>6, <1>8, <2>1, <2>2, <2>4
<1>11. Unlinked'
  <2>1. \A c \in Domain' : \E r \in read'.rows : channels'[c].freq = r.row.freq /\ channels'[c].row = r.row
    BY <1>1, <1>4, <1>9
  <2>2. \A r \in read'.rows : \E c \in Domain' : channels'[c].freq = r.row.freq
    BY <1>1, <1>4, <1>7, <1>8
  <2>. QED
    BY <1>1, <1>2, <2>1, <2>2 DEF Unlinked
<1>12. \A r \in read'.rows : RowRight(r)'
  BY <1>1, <1>2, <1>3 DEF RowRight
<1>13. LinkInv'
  <2>1. 0 \notin Domain'
    BY <1>6, <1>8
  <2>2. \A c \in Domain' : channels'[c].freq \in DOMAIN Key /\ Settled(channels'[c].freq)
    BY <1>4, <1>9
  <2>3. \A c \in Domain' : Cardinality(LinkedTo(c)') \in {0, channels'[c].row.count}
    <3>1. \A c \in Domain' : LinkedTo(c)' = {}
      BY <1>1, <1>2, <2>1 DEF LinkedTo
    <3>. QED
      BY <3>1, FS_EmptySet
  <2>. QED
    BY <1>1, <1>2, <1>3, <1>10, <1>11, <1>12, <2>1, <2>2, <2>3 DEF LinkInv
<1>14. NotesInv'
  <2>1. \A c \in Domain' : channels'[c].notes \in {NoNote, Key[channels'[c].freq]}
    <3>1. \A r \in read.rows : r.notes \in {NoNote, r.key}
      BY <1>1 DEF NotesInv
    <3>. QED
      BY <1>4, <1>9, <3>1
  <2>2. \A k \in kept' \cap Nominal : \E c \in Domain' : channels'[c].notes = k
    <3>. SUFFICES ASSUME NEW k \in kept' \cap Nominal
                  PROVE  \E c \in Domain' : channels'[c].notes = k
      OBVIOUS
    <3>1. PICK r \in read.rows : r.key = k
      BY <1>1
    <3>2. r.notes = k
      BY <1>1, <3>1 DEF NotesInv
    <3>. QED
      BY <1>4, <1>7, <1>8, <3>1, <3>2
  <2>. QED
    BY <1>1, <2>1, <2>2 DEF NotesInv, KeyOf
<1>. QED
  BY <1>13, <1>14

\* What the enricher holds says of each event which row it is on.
LEMMA LinkedIs ==
    ASSUME LinkInv, pc = "rebuilt"
    PROVE  /\ \A r \in read.rows : /\ IdOf(r.row.freq) \in Domain
                                 /\ channels[IdOf(r.row.freq)].freq = r.row.freq
                                 /\ \A c \in Domain : channels[c].freq = r.row.freq => c = IdOf(r.row.freq)
           /\ \A r, s \in read.rows : r.row.freq = s.row.freq \/ (\E i : i \in r.ids /\ i \in s.ids) => r = s
           /\ \A r \in read.rows : \A i \in r.ids : i \in DOMAIN events /\ Linked(i) = IdOf(r.row.freq)
<1>1. /\ \A r \in read.rows : RowRight(r)
      /\ \A r, s \in read.rows : r.key = s.key => r = s
      /\ Unlinked
  BY DEF LinkInv
<1>2. \A c, d \in Domain : channels[c].freq = channels[d].freq => c = d
  BY DEF LinkInv
<1>3. \A r \in read.rows : /\ IdOf(r.row.freq) \in Domain
                           /\ channels[IdOf(r.row.freq)].freq = r.row.freq
                           /\ \A c \in Domain : channels[c].freq = r.row.freq => c = IdOf(r.row.freq)
  <2>. SUFFICES ASSUME NEW r \in read.rows
                PROVE  /\ IdOf(r.row.freq) \in Domain
                       /\ channels[IdOf(r.row.freq)].freq = r.row.freq
                       /\ \A c \in Domain : channels[c].freq = r.row.freq => c = IdOf(r.row.freq)
    OBVIOUS
  <2>1. \E c \in Domain : channels[c].freq = r.row.freq
    BY <1>1 DEF Unlinked
  <2>. QED
    BY <1>2, <2>1 DEF IdOf, Domain
<1>4. \A r, s \in read.rows : r.row.freq = s.row.freq \/ (\E i : i \in r.ids /\ i \in s.ids) => r = s
  BY <1>1 DEF RowRight
<1>5. ASSUME NEW r \in read.rows, NEW i \in r.ids
      PROVE  i \in DOMAIN events /\ Linked(i) = IdOf(r.row.freq)
  <2>1. (CHOOSE s \in read.rows : i \in s.ids) = r
    BY <1>4, <1>5
  <2>. QED
    BY <1>1, <1>5, <2>1 DEF Linked, RowRight
<1>. QED
  BY <1>3, <1>4, <1>5

LEMMA LinkLinks ==
    ASSUME TableInv, LinkInv, NotesInv, Link
    PROVE  LinkInv' /\ NotesInv'
<1>1. /\ pc = "rebuilt" /\ pc' = "pair" /\ UNCHANGED <<channels, kept>>
      /\ DOMAIN events' = DOMAIN events
      /\ \A i \in DOMAIN events : events'[i] = OnRow(events[i], Linked(i))
  BY DEF Link, At, OnRow
<1>2. \A i \in DOMAIN events : EventRight(events'[i], i) /\ events'[i].freq = events[i].freq
                              /\ events'[i].chan = Linked(i)
  <2>1. \A i \in DOMAIN events : EventFields(events[i])
    BY DEF LinkInv, EventRight
  <2>2. \A i \in DOMAIN events : \A c : Same(OnRow(events[i], c), events[i]) /\ OnRow(events[i], c).chan = c
    BY <2>1, ChangedEvent
  <2>. QED
    BY <1>1, <2>2 DEF LinkInv, EventRight, Same
<1>3. /\ \A r \in read.rows : RowRight(r)
      /\ \A r, s \in read.rows : r.key = s.key => r = s
      /\ Unlinked
  BY <1>1 DEF LinkInv
<1>4. \A r \in read.rows : /\ IdOf(r.row.freq) \in Domain
                           /\ channels[IdOf(r.row.freq)].freq = r.row.freq
                           /\ \A c \in Domain : channels[c].freq = r.row.freq => c = IdOf(r.row.freq)
  BY <1>1, LinkedIs
<1>5. \A r, s \in read.rows : r.row.freq = s.row.freq \/ (\E i : i \in r.ids /\ i \in s.ids) => r = s
  BY <1>1, LinkedIs
<1>6. \A r \in read.rows : \A i \in r.ids : i \in DOMAIN events /\ Linked(i) = IdOf(r.row.freq)
  BY <1>1, LinkedIs
<1>7. ASSUME NEW i \in DOMAIN events, ~\E r \in read.rows : i \in r.ids
      PROVE  Linked(i) = 0
  BY <1>3, <1>7 DEF Linked, Unlinked
<1>8. ASSUME NEW i \in DOMAIN events', events'[i].chan # 0
      PROVE  events'[i].chan \in Domain' /\ Key[channels'[events'[i].chan].freq] = Key[events'[i].freq]
  <2>1. i \in DOMAIN events /\ events'[i].chan = Linked(i) /\ events'[i].freq = events[i].freq
    BY <1>1, <1>2
  <2>2. PICK r \in read.rows : i \in r.ids
    BY <1>7, <1>8, <2>1
  <2>3. Linked(i) = IdOf(r.row.freq) /\ IdOf(r.row.freq) \in Domain
        /\ channels[IdOf(r.row.freq)].freq = r.row.freq
    BY <1>4, <1>6, <2>2
  <2>4. Key[r.row.freq] = r.key /\ Key[events[i].freq] = r.key
    BY <1>3, <2>2 DEF RowRight
  <2>. QED
    BY <1>1, <2>1, <2>3, <2>4 DEF Domain
<1>9. ASSUME NEW c \in Domain
       PROVE  Cardinality(LinkedTo(c)') = channels[c].row.count
  <2>1. PICK r \in read.rows : channels[c].freq = r.row.freq /\ channels[c].row = r.row
    BY <1>3 DEF Unlinked
  <2>2. c = IdOf(r.row.freq) /\ c # 0
    BY <1>4, <2>1 DEF LinkInv
  <2>3. LinkedTo(c)' = r.ids
    <3>1. \A i \in r.ids : i \in LinkedTo(c)'
      BY <1>1, <1>2, <1>6, <2>2 DEF LinkedTo
    <3>2. ASSUME NEW i \in LinkedTo(c)' PROVE i \in r.ids
      <4>1. i \in DOMAIN events /\ Linked(i) = c
        BY <1>1, <1>2, <3>2 DEF LinkedTo
      <4>2. PICK s \in read.rows : i \in s.ids
        BY <1>7, <2>2, <4>1
      <4>3. IdOf(s.row.freq) = c
        BY <1>6, <4>1, <4>2
      <4>4. s.row.freq = r.row.freq
        BY <1>4, <2>1, <4>3
      <4>. QED
        BY <1>5, <4>2, <4>4
    <3>. QED
      BY <3>1, <3>2
  <2>. QED
    BY <1>3, <2>1, <2>3 DEF RowRight
<1>10. LinkInv'
  <2>1. Domain' = Domain
    BY <1>1 DEF Domain
  <2>. QED
    BY <1>1, <1>2, <1>8, <1>9, <2>1 DEF LinkInv, KeyOf
<1>11. NotesInv'
  BY <1>1 DEF NotesInv, Domain, KeyOf
<1>. QED
  BY <1>10, <1>11

-----------------------------------------------------------------------------
(* The operator                                                            *)

LEMMA NoteLinks ==
    ASSUME TableInv, LinkInv, NotesInv, NEW n \in Domain, Note(n)
    PROVE  LinkInv' /\ NotesInv'
<1>1. /\ UNCHANGED <<events, pc, read>> /\ Domain' = Domain
      /\ channels[n].notes = NoNote
      /\ \A c \in Domain : channels'[c] = IF c = n THEN WithNotes(channels[c], KeyOf(n)) ELSE channels[c]
      /\ kept' = IF pc \in {"noted", "read"} THEN kept ELSE kept \cup {KeyOf(n)}
  BY DEF Note, capture, Domain, WithNotes
<1>2. \A c \in Domain : Fields(channels[c])
  BY DEF TableInv
<1>3. \A c \in Domain : /\ channels'[c].freq = channels[c].freq /\ channels'[c].row = channels[c].row
                        /\ channels'[c].notes = IF c = n THEN KeyOf(n) ELSE channels[c].notes
  BY <1>1, <1>2, ChangedRow
<1>4. LinkInv'
  <2>1. \A i \in DOMAIN events' : EventRight(events'[i], i)
    BY <1>1 DEF LinkInv
  <2>. QED
    BY <1>1, <1>3, <2>1, LinksKept
<1>5. \A c \in Domain : KeyOf(c)' = KeyOf(c)
  BY <1>3 DEF KeyOf
<1>6. \A k \in kept \cap Nominal : \E c \in Domain : channels'[c].notes = k
  <2>. SUFFICES ASSUME NEW k \in kept \cap Nominal PROVE \E c \in Domain : channels'[c].notes = k
    OBVIOUS
  <2>1. PICK c \in Domain : channels[c].notes = k /\ k # NoNote
    BY KeptIsRead
  <2>2. c # n
    BY <1>1, <2>1
  <2>. QED
    BY <1>3, <2>1, <2>2
<1>7. NotesInv'
  <2>1. \A c \in Domain' : channels'[c].notes \in {NoNote, KeyOf(c)'}
    BY <1>1, <1>3, <1>5 DEF NotesInv
  <2>2. \A k \in kept' \cap Nominal : \E c \in Domain' : channels'[c].notes = k
    BY <1>1, <1>3, <1>6
  <2>3. pc' \in {"noted", "read"} => kept' = kept /\ read' = read /\ pc' = pc
    BY <1>1
  <2>. QED
    BY <2>1, <2>2, <2>3 DEF NotesInv
<1>. QED
  BY <1>4, <1>7

LEMMA InitLinks == Init => LinkInv /\ NotesInv
<1>. SUFFICES ASSUME Init PROVE LinkInv /\ NotesInv
  OBVIOUS
<1>1. DOMAIN events = {} /\ Domain = {} /\ pc = "idle" /\ kept = {}
  BY DEF Init, Domain
<1>. QED
  BY <1>1 DEF LinkInv, NotesInv

LEMMA NextLinks ==
    TableInv /\ PairInv /\ LinkInv /\ NotesInv /\ [Next]_vars => LinkInv' /\ NotesInv'
<1>. SUFFICES ASSUME TableInv, PairInv, LinkInv, NotesInv, [Next]_vars PROVE LinkInv' /\ NotesInv'
  OBVIOUS
<1>1. CASE UNCHANGED vars
  <2>1. \A c : LinkedTo(c)' = LinkedTo(c) /\ KeyOf(c)' = KeyOf(c)
    BY <1>1 DEF vars, LinkedTo, KeyOf
  <2>2. \A r : RowRight(r)' <=> RowRight(r)
    BY <1>1 DEF vars, RowRight
  <2>3. Unlinked' <=> Unlinked
    BY <1>1 DEF vars, Unlinked, Domain
  <2>. QED
    BY <1>1, <2>1, <2>2, <2>3 DEF vars, LinkInv, NotesInv, Domain
<1>2. CASE Operator
  BY <1>2, NoteLinks DEF Operator, Domain
<1>. QED
  BY <1>1, <1>2, DetectorLinks, ReadingLinks, MarkingLinks, TagLinks, NotesReadLinks,
     EventsReadLinks, RebuildLinks, LinkLinks
     DEF Next, Enricher

\* Whatever is written while the rows are made, an event is linked to the row
\* its frequency stands for, the events of a row all or none, and no two rows
\* stand for one frequency.
THEOREM LinksAreOfKeys == Spec => []LinksFollowKeys
<1>. QED
  BY InitTables, NextTables, InitLinks, NextLinks, LinksFollow, PTL DEF Spec

\* A note is on the row it was written for, and a note on a channel of the
\* band plan outlives every rebuild.
THEOREM NotesStay == Spec => []ChannelNotesSurvive
<1>1. NotesInv => ChannelNotesSurvive
  BY DEF NotesInv, ChannelNotesSurvive, Domain
<1>. QED
  BY <1>1, InitTables, NextTables, InitLinks, NextLinks, PTL DEF Spec

-----------------------------------------------------------------------------
(* What a run leaves.  Once nothing comes in between, each pass finds what  *)
(* the one before it made of the events, and the invariant says of each     *)
(* step how far the tables have come.                                       *)

Untagged(evs) == {i \in DOMAIN evs : ~evs[i].harmonic /\ evs[i].plan = NoPlan}

TagsRight(evs) == \A i \in DOMAIN evs : ~evs[i].harmonic => evs[i].plan = Best[evs[i].freq]

HeldRight(evs, rows) ==
    /\ \A r \in rows : r.key \in Keys(evs) /\ r.row = RowOf(evs, r.key) /\ r.ids = Places(evs, r.key)
    /\ \A k \in Keys(evs) : \E r \in rows : r.key = k

RowsRight(evs, ch) ==
    /\ \A c \in DOMAIN ch :
          ch[c].freq = ch[c].row.freq /\ \E k \in Keys(evs) : ch[c].row = RowOf(evs, k)
    /\ \A k \in Keys(evs) : \E c \in DOMAIN ch : ch[c].row = RowOf(evs, k)

LinksRight(evs, ch) ==
    \A i \in DOMAIN evs : ~evs[i].harmonic =>
        /\ evs[i].chan \in DOMAIN ch
        /\ ch[evs[i].chan].freq = RowOf(evs, Key[evs[i].freq]).freq

\* pair() from the events alone: RepeaterInput of the rows
Heard(evs, f) == {e \in Traffic(evs) : RowOf(evs, Key[e.freq]).freq = f}

Inputs(evs, ch) == {p \in (DOMAIN ch) \X (DOMAIN ch) :
    /\ ch[p[2]].freq - ch[p[1]].freq \in Offsets
    /\ Paired(Heard(evs, ch[p[1]].freq), Heard(evs, ch[p[2]].freq))}

MarksRight(ch, ps) == \A c \in DOMAIN ch : ch[c].paired <=> \E p \in ps : p[1] = c

TiersRight(ch) == \A c \in DOMAIN ch : ch[c].tier = Tier(ch[c].row, ch[c].paired)

PairedStages == {"score", "scored", "idle"}
LinkedStages == {"pair", "cleared", "matched"} \cup PairedStages
RowedStages == {"rebuilt"} \cup LinkedStages
TaggedStages == {"rollup", "noted", "read"} \cup RowedStages

Derived ==
    /\ \A i \in DOMAIN events : events[i].plan \in {NoPlan, Best[events[i].freq]}
    /\ fresh =>
        /\ pc = "tagged" => read.ids = Untagged(events)
        /\ pc \in TaggedStages => TagsRight(events)
        /\ pc \in {"read", "rebuilt"} => HeldRight(events, read.rows)
        /\ pc \in RowedStages => RowsRight(events, channels)
        /\ pc \in LinkedStages => LinksRight(events, channels)
        /\ pc \in {"cleared", "matched"} =>
              pairs = {} /\ \A c \in DOMAIN channels : ~channels[c].paired
        /\ pc = "matched" => read.found = Inputs(events, channels)
        /\ pc \in PairedStages => pairs = Inputs(events, channels) /\ MarksRight(channels, pairs)
        /\ pc = "idle" => TiersRight(channels)

LEMMA RowsUnchanged ==
    ASSUME NEW a, NEW b, DOMAIN b = DOMAIN a, IsFiniteSet(DOMAIN a), DOMAIN a \subseteq Nat,
           \A i \in DOMAIN a : a[i].id = i /\ AsHeard(b[i], a[i])
    PROVE  /\ Keys(b) = Keys(a)
           /\ \A k : Places(b, k) = Places(a, k) /\ RowOf(b, k) = RowOf(a, k)
<1>1. \A i \in DOMAIN a : b[i].harmonic = a[i].harmonic /\ b[i].freq = a[i].freq
  BY DEF AsHeard
<1>2. Keys(b) = Keys(a)
  <2>1. Keys(a) = {Key[a[i].freq] : i \in {j \in DOMAIN a : ~a[j].harmonic}}
    BY DEF Keys, Traffic, Range
  <2>2. Keys(b) = {Key[b[i].freq] : i \in {j \in DOMAIN b : ~b[j].harmonic}}
    BY DEF Keys, Traffic, Range
  <2>. QED
    BY <1>1, <2>1, <2>2
<1>3. ASSUME NEW k
      PROVE  Places(b, k) = Places(a, k) /\ RowOf(b, k) = RowOf(a, k)
  <2>1. Places(b, k) = Places(a, k) /\ Places(a, k) \subseteq DOMAIN a
    BY <1>1 DEF Places
  <2>2. Alike(Places(a, k), a, b)
    <3>1. IsFiniteSet(Places(a, k))
      BY <2>1, FS_Subset
    <3>. QED
      BY <2>1, <3>1 DEF Alike, AsHeard
  <2>3. Bucket(a, k) = Of(a, Places(a, k)) /\ Bucket(b, k) = Of(b, Places(b, k))
    BY DEF Bucket, Traffic, Range, Of, Places
  <2>. QED
    BY <2>1, <2>2, <2>3, RowSame DEF RowOf
<1>. QED
  BY <1>2, <1>3

\* A step after which the events are the same but for their plans and links
LEMMA EventsUnchanged ==
    ASSUME TableInv, LinkInv, DOMAIN events' = DOMAIN events,
           \A i \in DOMAIN events : AsHeard(events'[i], events[i])
    PROVE  /\ Keys(events') = Keys(events)
           /\ \A k : Places(events', k) = Places(events, k) /\ RowOf(events', k) = RowOf(events, k)
<1>1. IsFiniteSet(DOMAIN events) /\ DOMAIN events \subseteq Nat
  BY EventsDomain
<1>2. \A i \in DOMAIN events : events[i].id = i /\ AsHeard(events'[i], events[i])
  BY DEF LinkInv, EventRight
<1>. QED
  BY <1>1, <1>2, RowsUnchanged

\* A step after which the rows are the same but for notes, tiers and marks
LEMMA ChannelsUnchanged ==
    ASSUME NEW evs, NEW c, NEW d, DOMAIN d = DOMAIN c,
           \A i \in DOMAIN c : d[i].freq = c[i].freq /\ d[i].row = c[i].row
    PROVE  /\ RowsRight(evs, c) => RowsRight(evs, d)
           /\ LinksRight(evs, c) => LinksRight(evs, d)
           /\ Inputs(evs, d) = Inputs(evs, c)
<1>1. RowsRight(evs, c) => RowsRight(evs, d)
  BY DEF RowsRight
<1>2. LinksRight(evs, c) => LinksRight(evs, d)
  BY DEF LinksRight
<1>3. Inputs(evs, d) = Inputs(evs, c)
  <2>. DEFINE in(f, g) == g - f \in Offsets /\ Paired(Heard(evs, f), Heard(evs, g))
  <2>1. /\ Inputs(evs, c) = {p \in (DOMAIN c) \X (DOMAIN c) : in(c[p[1]].freq, c[p[2]].freq)}
        /\ Inputs(evs, d) = {p \in (DOMAIN d) \X (DOMAIN d) : in(d[p[1]].freq, d[p[2]].freq)}
    BY DEF Inputs
  <2>. HIDE DEF in
  <2>2. ASSUME NEW p \in (DOMAIN c) \X (DOMAIN c)
        PROVE  d[p[1]].freq = c[p[1]].freq /\ d[p[2]].freq = c[p[2]].freq
    OBVIOUS
  <2>. QED
    BY <2>1, <2>2
<1>. QED
  BY <1>1, <1>2, <1>3

\* What the events of a channel are
LEMMA OnIs ==
    ASSUME LinkInv, LinksRight(events, channels), NEW c \in Domain
    PROVE  On(c) = Heard(events, channels[c].freq)
<1>1. ASSUME NEW e \in Traffic(events)
      PROVE  e.chan = c <=> RowOf(events, Key[e.freq]).freq = channels[c].freq
  <2>1. PICK i \in DOMAIN events : e = events[i] /\ ~events[i].harmonic
    BY DEF Traffic, Range
  <2>2. /\ e.chan \in Domain
        /\ channels[e.chan].freq = RowOf(events, Key[e.freq]).freq
    BY <2>1 DEF LinksRight, Domain
  <2>3. \A x, y \in Domain : channels[x].freq = channels[y].freq => x = y
    BY DEF LinkInv
  <2>. QED
    BY <2>2, <2>3
<1>. QED
  BY <1>1 DEF On, Heard

\* What was to be shown
LEMMA RederivedFollows ==
    ASSUME TableInv, LinkInv, Derived
    PROVE  Rederived
<1>. SUFFICES ASSUME pc = "idle", fresh
              PROVE  /\ {c.row : c \in Range(channels)} = {Row(Bucket(events, k)) : k \in Keys(events)}
                     /\ \A e \in Traffic(events) : e.plan = Best[e.freq] /\ e.chan # 0
                     /\ {<<channels[p[1]].freq, channels[p[2]].freq>> : p \in pairs} =
                        {<<q[1].freq, q[2].freq>> : q \in
                            {q \in Range(channels) \X Range(channels) : RepeaterInput(q[1].freq, q[2].freq)}}
                     /\ \A c \in Range(channels) :
                           c.tier = Tier(c.row, \E d \in Range(channels) : RepeaterInput(c.freq, d.freq))
  BY DEF Rederived
<1>1. /\ TagsRight(events) /\ RowsRight(events, channels) /\ LinksRight(events, channels)
      /\ pairs = Inputs(events, channels) /\ MarksRight(channels, pairs) /\ TiersRight(channels)
  BY DEF Derived, PairedStages, LinkedStages, RowedStages, TaggedStages
<1>2. {c.row : c \in Range(channels)} = {Row(Bucket(events, k)) : k \in Keys(events)}
  <2>1. \A c \in DOMAIN channels : \E k \in Keys(events) : channels[c].row = Row(Bucket(events, k))
    BY <1>1 DEF RowsRight, RowOf
  <2>2. \A k \in Keys(events) : \E c \in DOMAIN channels : channels[c].row = Row(Bucket(events, k))
    BY <1>1 DEF RowsRight, RowOf
  <2>. QED
    BY <2>1, <2>2 DEF Range
<1>3. ASSUME NEW e \in Traffic(events)
      PROVE  e.plan = Best[e.freq] /\ e.chan # 0
  <2>1. PICK i \in DOMAIN events : e = events[i] /\ ~events[i].harmonic
    BY DEF Traffic, Range
  <2>2. 0 \notin DOMAIN channels
    BY DEF LinkInv, Domain
  <2>. QED
    BY <1>1, <2>1, <2>2 DEF TagsRight, LinksRight
<1>4. \A o, i : RepeaterInput(o, i) <=>
                   i - o \in Offsets /\ Paired(Heard(events, o), Heard(events, i))
  BY DEF RepeaterInput, Heard, RowOf
<1>5. \A p : p \in pairs <=> /\ p \in (DOMAIN channels) \X (DOMAIN channels)
                             /\ RepeaterInput(channels[p[1]].freq, channels[p[2]].freq)
  BY <1>1, <1>4 DEF Inputs
<1>6. {<<channels[p[1]].freq, channels[p[2]].freq>> : p \in pairs} =
      {<<q[1].freq, q[2].freq>> : q \in
          {q \in Range(channels) \X Range(channels) : RepeaterInput(q[1].freq, q[2].freq)}}
  <2>. DEFINE Q == {q \in Range(channels) \X Range(channels) : RepeaterInput(q[1].freq, q[2].freq)}
  <2>1. ASSUME NEW p \in pairs
        PROVE  \E q \in Q : <<channels[p[1]].freq, channels[p[2]].freq>> = <<q[1].freq, q[2].freq>>
    <3>1. /\ p[1] \in DOMAIN channels /\ p[2] \in DOMAIN channels
          /\ RepeaterInput(channels[p[1]].freq, channels[p[2]].freq)
      BY <1>5, <2>1
    <3>2. <<channels[p[1]], channels[p[2]]>> \in Q
      BY <3>1 DEF Range
    <3>. HIDE DEF Q
    <3>. QED
      BY <3>2
  <2>2. ASSUME NEW q \in Q
        PROVE  \E p \in pairs : <<channels[p[1]].freq, channels[p[2]].freq>> = <<q[1].freq, q[2].freq>>
    <3>1. PICK c \in DOMAIN channels, d \in DOMAIN channels : q[1] = channels[c] /\ q[2] = channels[d]
      BY DEF Range
    <3>2. RepeaterInput(channels[c].freq, channels[d].freq)
      BY <2>2, <3>1
    <3>3. <<c, d>> \in pairs
      BY <1>5, <3>1, <3>2
    <3>. QED
      BY <3>1, <3>3
  <2>. HIDE DEF Q
  <2>3. {<<channels[p[1]].freq, channels[p[2]].freq>> : p \in pairs} = {<<q[1].freq, q[2].freq>> : q \in Q}
    BY <2>1, <2>2
  <2>. QED
    BY <2>3 DEF Q
<1>7. ASSUME NEW c \in DOMAIN channels
      PROVE  channels[c].tier = Tier(channels[c].row,
                \E d \in Range(channels) : RepeaterInput(channels[c].freq, d.freq))
  <2>1. channels[c].paired <=> \E d \in Range(channels) : RepeaterInput(channels[c].freq, d.freq)
    <3>1. channels[c].paired <=> \E p \in pairs : p[1] = c
      BY <1>1 DEF MarksRight
    <3>2. ASSUME NEW p \in pairs, p[1] = c
          PROVE  \E d \in Range(channels) : RepeaterInput(channels[c].freq, d.freq)
      BY <1>5, <3>2 DEF Range
    <3>3. ASSUME NEW d \in DOMAIN channels, RepeaterInput(channels[c].freq, channels[d].freq)
          PROVE  \E p \in pairs : p[1] = c
      <4>1. <<c, d>> \in pairs
        BY <1>5, <3>3
      <4>. QED
        BY <4>1
    <3>. QED
      BY <3>1, <3>2, <3>3 DEF Range
  <2>2. channels[c].paired \in BOOLEAN
    BY DEF TableInv, Domain
  <2>3. channels[c].paired = (\E d \in Range(channels) : RepeaterInput(channels[c].freq, d.freq))
    BY <2>1, <2>2
  <2>4. channels[c].tier = Tier(channels[c].row, channels[c].paired)
    BY <1>1 DEF TiersRight
  <2>. QED
    BY <2>3, <2>4, Zenon
<1>8. \A c \in Range(channels) :
         c.tier = Tier(c.row, \E d \in Range(channels) : RepeaterInput(c.freq, d.freq))
  BY <1>7 DEF Range
<1>. QED
  BY <1>2, <1>3, <1>6, <1>8

-----------------------------------------------------------------------------
LEMMA DetectorDerived ==
    ASSUME TableInv, LinkInv, Derived, Detector
    PROVE  Derived'
<1>1. ~fresh'
  BY DEF Detector
<1>2. /\ DOMAIN events \subseteq DOMAIN events'
      /\ \A i \in DOMAIN events : events'[i].freq = events[i].freq /\ events'[i].plan = events[i].plan
      /\ \A i \in DOMAIN events' \ DOMAIN events : events'[i].plan = NoPlan
  BY DetectorEvents DEF Unmoved, Kept
<1>3. \A i \in DOMAIN events' : events'[i].plan \in {NoPlan, Best[events'[i].freq]}
  BY <1>2 DEF Derived
<1>. QED
  BY <1>1, <1>3 DEF Derived

\* What is read of tables that stay as they are
LEMMA ReadingDerived ==
    ASSUME TableInv, LinkInv, Derived,
           Begin \/ TagRead \/ NotesRead \/ EventsRead \/ Match \/ ScoreRead \/ Killed
    PROVE  Derived'
<1>1. UNCHANGED <<events, channels, pairs>>
  BY DEF Begin, TagRead, NotesRead, EventsRead, Match, ScoreRead, Killed, capture
<1>2. \A i \in DOMAIN events' : events'[i].plan \in {NoPlan, Best[events'[i].freq]}
  BY <1>1 DEF Derived
<1>3. CASE Begin
  BY <1>2, <1>3 DEF Begin, At, Derived, TaggedStages, RowedStages, LinkedStages, PairedStages
<1>4. CASE Killed
  BY <1>2, <1>4 DEF Killed, Derived
<1>5. CASE TagRead
  <2>1. read'.ids = {e.id : e \in {d \in Traffic(events) : d.plan = NoPlan}}
    <3>. DEFINE ids == {e.id : e \in {d \in Traffic(events) : d.plan = NoPlan}}
    <3>1. read' = [Nothing EXCEPT !.ids = ids]
      BY <1>5 DEF TagRead
    <3>. HIDE DEF ids
    <3>2. read'.ids = ids
      BY <3>1 DEF Nothing
    <3>. QED
      BY <3>2 DEF ids
  <2>2. \A i \in DOMAIN events : events[i].id = i
    BY DEF LinkInv, EventRight
  <2>3. read'.ids = Untagged(events)
    BY <2>1, <2>2 DEF Untagged, Traffic, Range
  <2>4. pc' = "tagged"
    BY <1>5 DEF TagRead, At
  <2>. QED
    BY <1>1, <1>2, <2>3, <2>4 DEF Derived, TaggedStages, RowedStages, LinkedStages, PairedStages
<1>6. CASE NotesRead
  <2>1. pc = "rollup" /\ pc' = "noted" /\ fresh' = fresh
    BY <1>6 DEF NotesRead, At, capture
  <2>2. fresh => TagsRight(events)
    BY <2>1 DEF Derived, TaggedStages
  <2>. QED
    BY <1>1, <1>2, <2>1, <2>2 DEF Derived, TaggedStages, RowedStages, LinkedStages, PairedStages
<1>7. CASE EventsRead
  <2>1. pc = "noted" /\ pc' = "read" /\ fresh' = fresh
    BY <1>7 DEF EventsRead, At, capture
  <2>2. fresh => TagsRight(events)
    BY <2>1 DEF Derived, TaggedStages
  <2>3. read'.rows = {NewRow(k) : k \in Keys(events)}
    <3>. DEFINE rows == {NewRow(k) : k \in Keys(events)}
    <3>1. read' = [read EXCEPT !.rows = rows]
      BY <1>7 DEF EventsRead
    <3>. HIDE DEF rows
    <3>2. read'.rows = rows
      BY <3>1, ChangedHold DEF TableInv
    <3>. QED
      BY <3>2 DEF rows
  <2>4. \A k \in Keys(events) : /\ NewRow(k).key = k /\ NewRow(k).row = RowOf(events, k)
                                /\ NewRow(k).ids = Places(events, k)
    BY NewRowIs
  <2>5. HeldRight(events, read'.rows)
    BY <2>3, <2>4 DEF HeldRight
  <2>. QED
    BY <1>1, <1>2, <2>1, <2>2, <2>5
       DEF Derived, TaggedStages, RowedStages, LinkedStages, PairedStages
<1>8. CASE Match
  <2>1. pc = "cleared" /\ pc' = "matched" /\ fresh' = fresh
    BY <1>8 DEF Match, At, capture
  <2>. DEFINE found == {p \in (DOMAIN channels) \X (DOMAIN channels) :
                           /\ channels[p[2]].freq - channels[p[1]].freq \in Offsets
                           /\ Paired(On(p[1]), On(p[2]))}
  <2>2. read'.found = found
    <3>1. read' = [read EXCEPT !.found = found]
      BY <1>8 DEF Match
    <3>. HIDE DEF found
    <3>. QED
      BY <3>1, ChangedHold DEF TableInv
  <2>3. ASSUME LinksRight(events, channels) PROVE found = Inputs(events, channels)
    <3>1. ASSUME NEW p \in (DOMAIN channels) \X (DOMAIN channels)
          PROVE  Paired(On(p[1]), On(p[2])) <=>
                    Paired(Heard(events, channels[p[1]].freq), Heard(events, channels[p[2]].freq))
      <4>1. p[1] \in Domain /\ p[2] \in Domain
        BY DEF Domain
      <4>2. /\ On(p[1]) = Heard(events, channels[p[1]].freq)
            /\ On(p[2]) = Heard(events, channels[p[2]].freq)
        BY <2>3, <4>1, OnIs
      <4>. QED
        BY <4>2
    <3>. QED
      BY <3>1 DEF Inputs
  <2>. HIDE DEF found
  <2>4. fresh => /\ TagsRight(events) /\ RowsRight(events, channels) /\ LinksRight(events, channels)
                 /\ pairs = {} /\ \A c \in DOMAIN channels : ~channels[c].paired
                 /\ read'.found = Inputs(events, channels)
    BY <2>1, <2>2, <2>3 DEF Derived, TaggedStages, RowedStages, LinkedStages
  <2>. QED
    BY <1>1, <1>2, <2>1, <2>4 DEF Derived, PairedStages
<1>9. CASE ScoreRead
  <2>1. pc = "score" /\ pc' = "scored" /\ fresh' = fresh
    BY <1>9 DEF ScoreRead, At, capture
  <2>2. fresh => /\ TagsRight(events) /\ RowsRight(events, channels) /\ LinksRight(events, channels)
                 /\ pairs = Inputs(events, channels) /\ MarksRight(channels, pairs)
    BY <2>1 DEF Derived, TaggedStages, RowedStages, LinkedStages, PairedStages
  <2>. QED
    BY <1>1, <1>2, <2>1, <2>2 DEF Derived
<1>. QED
  BY <1>3, <1>4, <1>5, <1>6, <1>7, <1>8, <1>9

LEMMA TagDerived ==
    ASSUME TableInv, LinkInv, Derived, TagWrite
    PROVE  Derived'
<1>1. /\ DOMAIN events' = DOMAIN events /\ fresh' = fresh /\ pc = "tagged" /\ pc' = "rollup"
      /\ \A i \in DOMAIN events :
            events'[i] = IF i \in read.ids THEN Tagged(events[i], Best[events[i].freq]) ELSE events[i]
  BY DEF TagWrite, At, Tagged
<1>2. \A i \in DOMAIN events : EventFields(events[i])
  BY DEF LinkInv, EventRight
<1>3. \A i \in DOMAIN events :
         /\ events'[i].freq = events[i].freq /\ events'[i].harmonic = events[i].harmonic
         /\ events'[i].plan = IF i \in read.ids THEN Best[events[i].freq] ELSE events[i].plan
  <2>. TAKE i \in DOMAIN events
  <2>1. \A p : AsHeard(Tagged(events[i], p), events[i]) /\ Tagged(events[i], p).plan = p
    BY <1>2, PlanOfEvent
  <2>2. CASE i \in read.ids
    <3>1. events'[i] = Tagged(events[i], Best[events[i].freq])
      BY <1>1, <2>2
    <3>. QED
      BY <2>1, <2>2, <3>1 DEF AsHeard
  <2>3. CASE i \notin read.ids
    BY <1>1, <2>3
  <2>. QED
    BY <2>2, <2>3
<1>4. \A i \in DOMAIN events' : events'[i].plan \in {NoPlan, Best[events'[i].freq]}
  BY <1>1, <1>3 DEF Derived
<1>5. fresh => TagsRight(events')
  <2>. SUFFICES ASSUME fresh, NEW i \in DOMAIN events', ~events'[i].harmonic
                PROVE  events'[i].plan = Best[events'[i].freq]
    BY DEF TagsRight
  <2>1. i \in DOMAIN events /\ ~events[i].harmonic
    BY <1>1, <1>3
  <2>2. read.ids = Untagged(events) /\ events[i].plan \in {NoPlan, Best[events[i].freq]}
    BY <1>1, <2>1 DEF Derived
  <2>3. i \notin read.ids => events[i].plan = Best[events[i].freq]
    BY <2>1, <2>2 DEF Untagged
  <2>. QED
    BY <1>3, <2>1, <2>3
<1>. QED
  BY <1>1, <1>4, <1>5 DEF Derived, RowedStages, LinkedStages, PairedStages

\* The rows are written as they were made.
LEMMA RebuildDerived ==
    ASSUME TableInv, LinkInv, Derived, Rebuild, LinkInv'
    PROVE  Derived'
<1>1. /\ pc = "read" /\ pc' = "rebuilt" /\ read' = read /\ fresh' = fresh
      /\ DOMAIN events' = DOMAIN events
      /\ \A i \in DOMAIN events : events'[i] = OnRow(events[i], 0)
  BY DEF Rebuild, At, OnRow
<1>2. \A i \in DOMAIN events : AsHeard(events'[i], events[i]) /\ events'[i].plan = events[i].plan
  <2>1. \A i \in DOMAIN events : EventFields(events[i])
    BY DEF LinkInv, EventRight
  <2>. QED
    BY <1>1, <2>1, PlanOfEvent
<1>3. /\ Keys(events') = Keys(events)
      /\ \A k : Places(events', k) = Places(events, k) /\ RowOf(events', k) = RowOf(events, k)
  BY <1>1, <1>2, EventsUnchanged
<1>4. \A i \in DOMAIN events' : events'[i].plan \in {NoPlan, Best[events'[i].freq]}
  BY <1>1, <1>2 DEF Derived, AsHeard
<1>5. ASSUME fresh
      PROVE  TagsRight(events') /\ HeldRight(events', read.rows)
  <2>1. TagsRight(events) /\ HeldRight(events, read.rows)
    BY <1>1, <1>5 DEF Derived, TaggedStages
  <2>2. TagsRight(events')
    BY <1>1, <1>2, <2>1 DEF TagsRight, AsHeard
  <2>3. HeldRight(events', read.rows)
    BY <1>3, <2>1 DEF HeldRight
  <2>. QED
    BY <2>2, <2>3
<1>6. ASSUME fresh
      PROVE  RowsRight(events', channels')
  <2>1. /\ \A r \in read.rows : r.key \in Keys(events') /\ r.row = RowOf(events', r.key)
        /\ \A k \in Keys(events') : \E r \in read.rows : r.key = k
    BY <1>5, <1>6 DEF HeldRight
  <2>2. /\ \A c \in DOMAIN channels' : \E r \in read.rows :
              channels'[c].freq = r.row.freq /\ channels'[c].row = r.row
        /\ \A r \in read.rows : \E c \in DOMAIN channels' : channels'[c].freq = r.row.freq
    BY <1>1 DEF LinkInv, Unlinked, Domain
  <2>3. \A r, s \in read.rows : r.row.freq = s.row.freq => r = s
    BY <1>1 DEF LinkInv, RowRight
  <2>4. \A k \in Keys(events') : \E c \in DOMAIN channels' : channels'[c].row = RowOf(events', k)
    <3>. TAKE k \in Keys(events')
    <3>1. PICK r \in read.rows : r.key = k
      BY <2>1
    <3>2. PICK c \in DOMAIN channels' : channels'[c].freq = r.row.freq
      BY <2>2
    <3>3. PICK s \in read.rows : channels'[c].freq = s.row.freq /\ channels'[c].row = s.row
      BY <2>2
    <3>. QED
      BY <2>1, <2>3, <3>1, <3>2, <3>3
  <2>. QED
    BY <2>1, <2>2, <2>4 DEF RowsRight
<1>. QED
  BY <1>1, <1>4, <1>5, <1>6 DEF Derived, LinkedStages, PairedStages

LEMMA LinkDerived ==
    ASSUME TableInv, LinkInv, Derived, Link
    PROVE  Derived'
<1>1. /\ pc = "rebuilt" /\ pc' = "pair" /\ fresh' = fresh /\ channels' = channels
      /\ DOMAIN events' = DOMAIN events
      /\ \A i \in DOMAIN events : events'[i] = OnRow(events[i], Linked(i))
  BY DEF Link, At, OnRow
<1>2. \A i \in DOMAIN events : /\ AsHeard(events'[i], events[i]) /\ events'[i].plan = events[i].plan
                              /\ events'[i].chan = Linked(i)
  <2>. TAKE i \in DOMAIN events
  <2>1. EventFields(events[i])
    BY DEF LinkInv, EventRight
  <2>2. \A c : /\ AsHeard(OnRow(events[i], c), events[i]) /\ OnRow(events[i], c).plan = events[i].plan
               /\ OnRow(events[i], c).chan = c
    BY <2>1, PlanOfEvent, ChangedEvent
  <2>. QED
    BY <1>1, <2>2
<1>3. /\ Keys(events') = Keys(events)
      /\ \A k : Places(events', k) = Places(events, k) /\ RowOf(events', k) = RowOf(events, k)
  BY <1>1, <1>2, EventsUnchanged
<1>4. \A i \in DOMAIN events' : events'[i].plan \in {NoPlan, Best[events'[i].freq]}
  BY <1>1, <1>2 DEF Derived, AsHeard
<1>5. ASSUME fresh
      PROVE  TagsRight(events') /\ RowsRight(events', channels')
  <2>1. TagsRight(events) /\ RowsRight(events, channels)
    BY <1>1, <1>5 DEF Derived, TaggedStages, RowedStages
  <2>2. TagsRight(events')
    BY <1>1, <1>2, <2>1 DEF TagsRight, AsHeard
  <2>3. RowsRight(events', channels')
    BY <1>1, <1>3, <2>1 DEF RowsRight
  <2>. QED
    BY <2>2, <2>3
<1>6. ASSUME fresh, NEW i \in DOMAIN events', ~events'[i].harmonic
      PROVE  /\ events'[i].chan \in DOMAIN channels'
             /\ channels'[events'[i].chan].freq = RowOf(events', Key[events'[i].freq]).freq
  <2>. DEFINE k == Key[events[i].freq]
  <2>1. i \in DOMAIN events /\ ~events[i].harmonic /\ events'[i].freq = events[i].freq
    BY <1>1, <1>2, <1>6 DEF AsHeard
  <2>2. k \in Keys(events) /\ i \in Places(events, k)
    BY <2>1 DEF Keys, Traffic, Range, Places
  <2>3. HeldRight(events, read.rows)
    BY <1>1, <1>6 DEF Derived
  <2>4. PICK r \in read.rows : r.key = k /\ r.row = RowOf(events, k) /\ i \in r.ids
    <3>. HIDE DEF k
    <3>. QED
      BY <2>2, <2>3 DEF HeldRight
  <2>5. /\ IdOf(r.row.freq) \in Domain /\ channels[IdOf(r.row.freq)].freq = r.row.freq
        /\ Linked(i) = IdOf(r.row.freq)
    BY <1>1, <2>4, LinkedIs
  <2>6. RowOf(events', Key[events'[i].freq]) = r.row
    BY <1>3, <2>1, <2>4
  <2>. QED
    BY <1>1, <1>2, <2>1, <2>5, <2>6 DEF Domain
<1>7. fresh => LinksRight(events', channels')
  BY <1>6 DEF LinksRight
<1>. QED
  BY <1>1, <1>4, <1>5, <1>7 DEF Derived, PairedStages

\* A step that writes no more of the rows than notes, tiers and marks
LEMMA MarkingDerived ==
    ASSUME TableInv, LinkInv, Derived, events' = events, fresh' = fresh, pc \in LinkedStages,
           Domain' = Domain,
           \A c \in Domain : channels'[c].freq = channels[c].freq /\ channels'[c].row = channels[c].row
    PROVE  /\ \A i \in DOMAIN events' : events'[i].plan \in {NoPlan, Best[events'[i].freq]}
           /\ fresh' => /\ TagsRight(events') /\ RowsRight(events', channels')
                        /\ LinksRight(events', channels')
                        /\ Inputs(events', channels') = Inputs(events, channels)
<1>1. \A i \in DOMAIN events' : events'[i].plan \in {NoPlan, Best[events'[i].freq]}
  BY DEF Derived
<1>2. fresh => TagsRight(events) /\ RowsRight(events, channels) /\ LinksRight(events, channels)
  BY DEF Derived, TaggedStages, RowedStages
<1>3. /\ RowsRight(events, channels) => RowsRight(events, channels')
      /\ LinksRight(events, channels) => LinksRight(events, channels')
      /\ Inputs(events, channels') = Inputs(events, channels)
  <2>1. /\ DOMAIN channels' = DOMAIN channels
        /\ \A c \in DOMAIN channels : channels'[c].freq = channels[c].freq /\ channels'[c].row = channels[c].row
    BY DEF Domain
  <2>. QED
    BY <2>1, ChannelsUnchanged
<1>. QED
  BY <1>1, <1>2, <1>3

LEMMA ClearDerived ==
    ASSUME TableInv, LinkInv, Derived, Clear
    PROVE  Derived'
<1>1. /\ pc = "pair" /\ pc' = "cleared" /\ pairs' = {} /\ events' = events /\ fresh' = fresh
      /\ Domain' = Domain
      /\ \A c \in Domain : channels'[c] = WithPaired(channels[c], FALSE)
  BY DEF Clear, At, capture, Domain, WithPaired
<1>2. \A c \in Domain : /\ channels'[c].freq = channels[c].freq /\ channels'[c].row = channels[c].row
                        /\ channels'[c].paired = FALSE
  <2>1. \A c \in Domain : Fields(channels[c])
    BY DEF TableInv
  <2>. TAKE c \in Domain
  <2>2. channels'[c] = WithPaired(channels[c], FALSE)
    BY <1>1
  <2>3. /\ WithPaired(channels[c], FALSE).freq = channels[c].freq
        /\ WithPaired(channels[c], FALSE).row = channels[c].row
    BY <2>1, ChangedRow, Zenon
  <2>4. WithPaired(channels[c], FALSE).paired = FALSE
    BY <2>1, ChangedPaired
  <2>. QED
    BY <2>2, <2>3, <2>4, Zenon
<1>3. /\ \A i \in DOMAIN events' : events'[i].plan \in {NoPlan, Best[events'[i].freq]}
      /\ fresh' => /\ TagsRight(events') /\ RowsRight(events', channels')
                   /\ LinksRight(events', channels')
  BY <1>1, <1>2, MarkingDerived DEF LinkedStages
<1>4. \A c \in DOMAIN channels' : ~channels'[c].paired
  BY <1>1, <1>2 DEF Domain
<1>. QED
  BY <1>1, <1>3, <1>4 DEF Derived, PairedStages

LEMMA PairsDerived ==
    ASSUME TableInv, LinkInv, Derived, PairsWrite
    PROVE  Derived'
<1>1. /\ pc = "matched" /\ pc' = "score" /\ pairs' = pairs \cup read.found
      /\ events' = events /\ fresh' = fresh /\ Domain' = Domain
      /\ \A c \in Domain :
            channels'[c] = IF \E p \in pairs' : p[1] = c THEN WithPaired(channels[c], TRUE)
                           ELSE channels[c]
  BY DEF PairsWrite, At, capture, Domain, WithPaired
<1>2. ASSUME NEW c \in Domain
      PROVE  /\ channels'[c].freq = channels[c].freq /\ channels'[c].row = channels[c].row
             /\ (\E p \in pairs' : p[1] = c) => channels'[c].paired
             /\ ~(\E p \in pairs' : p[1] = c) => channels'[c] = channels[c]
  <2>1. Fields(channels[c])
    BY <1>2 DEF TableInv
  <2>2. CASE \E p \in pairs' : p[1] = c
    <3>1. channels'[c] = WithPaired(channels[c], TRUE)
      BY <1>1, <2>2
    <3>2. WithPaired(channels[c], TRUE).paired = TRUE
      BY <2>1, ChangedPaired
    <3>3. /\ WithPaired(channels[c], TRUE).freq = channels[c].freq
          /\ WithPaired(channels[c], TRUE).row = channels[c].row
      BY <2>1, ChangedRow, Zenon
    <3>. QED
      BY <2>2, <3>1, <3>2, <3>3, Zenon
  <2>3. CASE ~\E p \in pairs' : p[1] = c
    BY <1>1, <2>3
  <2>. QED
    BY <2>2, <2>3
<1>3. /\ \A i \in DOMAIN events' : events'[i].plan \in {NoPlan, Best[events'[i].freq]}
      /\ fresh' => /\ TagsRight(events') /\ RowsRight(events', channels')
                   /\ LinksRight(events', channels')
                   /\ Inputs(events', channels') = Inputs(events, channels)
  <2>1. pc \in LinkedStages
    BY <1>1 DEF LinkedStages
  <2>. QED
    BY <1>1, <1>2, <2>1, MarkingDerived
<1>4. ASSUME fresh
      PROVE  pairs' = Inputs(events', channels') /\ MarksRight(channels', pairs')
  <2>1. /\ pairs = {} /\ read.found = Inputs(events, channels)
        /\ \A c \in DOMAIN channels : ~channels[c].paired
    BY <1>1, <1>4 DEF Derived
  <2>2. pairs' = Inputs(events', channels')
    BY <1>1, <1>3, <1>4, <2>1
  <2>3. MarksRight(channels', pairs')
    BY <1>1, <1>2, <2>1 DEF MarksRight, Domain
  <2>. QED
    BY <2>2, <2>3
<1>. QED
  BY <1>1, <1>3, <1>4 DEF Derived

LEMMA ScoreDerived ==
    ASSUME TableInv, PairInv, LinkInv, Derived, ScoreWrite
    PROVE  Derived'
<1>1. /\ pc = "scored" /\ pc' = "idle" /\ pairs' = pairs
      /\ events' = events /\ fresh' = fresh /\ Domain' = Domain
  BY DEF ScoreWrite, At, capture, Domain
<1>2. ASSUME NEW c \in Domain
      PROVE  /\ channels'[c].freq = channels[c].freq /\ channels'[c].row = channels[c].row
             /\ channels'[c].paired = channels[c].paired
             /\ channels'[c].tier = Tier(channels[c].row, channels[c].paired)
  <2>1. channels'[c] = WithTier(channels[c], Tier(channels[c].row, channels[c].paired))
    BY <1>1 DEF ScoreWrite, Domain, PairInv, WithTier
  <2>2. Fields(channels[c])
    BY DEF TableInv
  <2>. QED
    BY <2>1, <2>2, ChangedRow, ChangedField
<1>3. /\ \A i \in DOMAIN events' : events'[i].plan \in {NoPlan, Best[events'[i].freq]}
      /\ fresh' => /\ TagsRight(events') /\ RowsRight(events', channels')
                   /\ LinksRight(events', channels')
                   /\ Inputs(events', channels') = Inputs(events, channels)
  <2>1. pc \in LinkedStages
    BY <1>1 DEF LinkedStages, PairedStages
  <2>. QED
    BY <1>1, <1>2, <2>1, MarkingDerived
<1>4. ASSUME fresh
      PROVE  pairs' = Inputs(events', channels') /\ MarksRight(channels', pairs')
  <2>1. pairs = Inputs(events, channels) /\ MarksRight(channels, pairs)
    BY <1>1, <1>4 DEF Derived, PairedStages
  <2>. QED
    BY <1>1, <1>2, <1>3, <1>4, <2>1 DEF MarksRight, Domain
<1>5. TiersRight(channels')
  <2>. SUFFICES ASSUME NEW c \in DOMAIN channels'
                PROVE  channels'[c].tier = Tier(channels'[c].row, channels'[c].paired)
    BY DEF TiersRight
  <2>. QED
    BY <1>1, <1>2, Zenon DEF Domain
<1>. QED
  BY <1>1, <1>3, <1>4, <1>5 DEF Derived

LEMMA NoteDerived ==
    ASSUME TableInv, LinkInv, Derived, NEW n \in Domain, Note(n)
    PROVE  Derived'
<1>1. /\ UNCHANGED <<events, fresh, pairs, pc, read>> /\ Domain' = Domain
      /\ \A c \in Domain : channels'[c] = IF c = n THEN WithNotes(channels[c], KeyOf(n)) ELSE channels[c]
  BY DEF Note, capture, Domain, WithNotes
<1>2. ASSUME NEW c \in Domain
      PROVE  /\ channels'[c].freq = channels[c].freq /\ channels'[c].row = channels[c].row
             /\ channels'[c].paired = channels[c].paired /\ channels'[c].tier = channels[c].tier
  <2>1. Fields(channels[c])
    BY DEF TableInv
  <2>. QED
    BY <1>1, <2>1, ChangedRow, ChangedField
<1>3. /\ RowsRight(events, channels) => RowsRight(events, channels')
      /\ LinksRight(events, channels) => LinksRight(events, channels')
      /\ Inputs(events, channels') = Inputs(events, channels)
  <2>1. /\ DOMAIN channels' = DOMAIN channels
        /\ \A c \in DOMAIN channels : channels'[c].freq = channels[c].freq /\ channels'[c].row = channels[c].row
    BY <1>1, <1>2 DEF Domain
  <2>. QED
    BY <2>1, ChannelsUnchanged
<1>4. /\ MarksRight(channels, pairs) => MarksRight(channels', pairs)
      /\ (\A c \in DOMAIN channels : ~channels[c].paired) => \A c \in DOMAIN channels' : ~channels'[c].paired
  BY <1>1, <1>2 DEF MarksRight, Domain
<1>5. TiersRight(channels) => TiersRight(channels')
  <2>. SUFFICES ASSUME TiersRight(channels), NEW c \in DOMAIN channels'
                PROVE  channels'[c].tier = Tier(channels'[c].row, channels'[c].paired)
    BY DEF TiersRight
  <2>1. c \in Domain /\ channels[c].tier = Tier(channels[c].row, channels[c].paired)
    BY <1>1 DEF TiersRight, Domain
  <2>. QED
    BY <1>2, <2>1, Zenon
<1>. QED
  BY <1>1, <1>3, <1>4, <1>5 DEF Derived

LEMMA InitDerived == Init => Derived
BY DEF Init, Derived

LEMMA NextDerived ==
    TableInv /\ PairInv /\ LinkInv /\ Derived /\ [Next]_vars /\ LinkInv' => Derived'
<1>. SUFFICES ASSUME TableInv, PairInv, LinkInv, Derived, [Next]_vars, LinkInv' PROVE Derived'
  OBVIOUS
<1>1. CASE UNCHANGED vars
  BY <1>1 DEF vars, Derived
<1>2. CASE Operator
  BY <1>2, NoteDerived DEF Operator, Domain
<1>. QED
  BY <1>1, <1>2, DetectorDerived, ReadingDerived, TagDerived, RebuildDerived, LinkDerived,
     ClearDerived, PairsDerived, ScoreDerived
     DEF Next, Enricher

\* When nothing was detected while the enricher ran, its tables are what one
\* look at the events gives, whatever runs were killed before.
THEOREM RunsAreRepeatable == Spec => []Rederived
<1>. QED
  BY InitTables, NextTables, InitLinks, NextLinks, InitDerived, NextDerived, RederivedFollows,
     PTL DEF Spec
=============================================================================
