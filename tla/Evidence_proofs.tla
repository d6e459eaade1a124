--------------------------- MODULE Evidence_proofs ---------------------------
(***************************************************************************)
(* The windows seed_band_plan.py computes do not overlap, for channel      *)
(* lists of any length, spacing and bandwidth; and what rollup() files of  *)
(* a channel rests on most of its events, however many there are; what     *)
(* analyze_analog() files of a tone is never a code; and a code that is    *)
(* sent is read as itself, or as its inverted pair, wherever the window    *)
(* begins, however long it is and whichever three bits of it are wrong.    *)
(***************************************************************************)
EXTENDS Evidence, WellFoundedInduction, FiniteSetTheorems, TLAPS

\* A set of natural numbers that is not empty has a least element, and Min
\* is it.
LEMMA MinOfNaturals ==
    ASSUME NEW S \in SUBSET Nat, S # {}
    PROVE  Min(S) \in S /\ \A y \in S : Min(S) <= y
<1>1. \E x \in S : \A y \in S : ~ (<<y, x>> \in OpToRel(<, Nat))
  BY NatLessThanWellFounded, WFMin, Zenon
<1>2. PICK x \in S : \A y \in S : ~ (<<y, x>> \in OpToRel(<, Nat))
  BY <1>1
<1>3. \A y \in S : ~ (y < x)
  BY <1>2, Zenon DEF OpToRel
<1>4. \A y \in S : x <= y
  BY <1>3
<1>. QED
  BY <1>4 DEF Min

\* The distance of two frequencies
LEMMA DistanceType ==
    ASSUME NEW f \in Int, NEW g \in Int
    PROVE  Distance(f, g) \in Nat
BY DEF Distance

\* Half a window is no wider than half the gap to any channel of the service.
LEMMA HalfWindowBound ==
    ASSUME NEW chans \in SUBSET Channels, NEW c \in chans
    PROVE  /\ HalfWindow(chans, c) \in Nat
           /\ \A p \in Peers(chans, c) : HalfWindow(chans, c) <= Distance(p.center, c.center) \div 2
<1>. DEFINE halves == {c.bw \div 2} \cup {g \div 2 : g \in Gaps(chans, c)}
<1>1. c.bw \in Nat /\ c.center \in Nat
  BY ChannelsAssumption
<1>2. \A p \in Peers(chans, c) : p.center \in Nat
  BY ChannelsAssumption DEF Peers
<1>3. ASSUME NEW g \in Gaps(chans, c)
      PROVE  g \in Nat
  <2>1. PICK p \in Peers(chans, c) : g = Distance(p.center, c.center)
    BY DEF Gaps
  <2>2. p.center \in Int /\ c.center \in Int
    BY <1>1, <1>2
  <2>. QED
    BY <2>1, <2>2, DistanceType
<1>4. \A n \in Nat : n \div 2 \in Nat
  OBVIOUS
<1>5. halves \in SUBSET Nat /\ halves # {}
  BY <1>1, <1>3, <1>4
<1>6. Min(halves) \in halves /\ \A y \in halves : Min(halves) <= y
  BY <1>5, MinOfNaturals
<1>7. HalfWindow(chans, c) = Min(halves)
  BY DEF HalfWindow
<1>8. \A p \in Peers(chans, c) : Distance(p.center, c.center) \div 2 \in halves
  BY DEF Gaps
<1>. QED
  BY <1>5, <1>6, <1>7, <1>8

\* Two channels of a service that are not on one frequency claim nothing in
\* common, and no frequency that is nearer to the other.
LEMMA TwoWindows ==
    ASSUME NEW a \in Nat, NEW b \in Nat, a # b, NEW m \in Nat, NEW n \in Nat,
           m <= Distance(a, b) \div 2, n <= Distance(a, b) \div 2,
           NEW f \in Int, a - m <= f, f <= a + m - 1
    PROVE  /\ ~(b - n <= f /\ f <= b + n - 1)
           /\ Distance(a, f) <= Distance(b, f)
<1>1. CASE a < b
  <2>1. Distance(a, b) = b - a
    BY <1>1 DEF Distance
  <2>2. 2 * m <= b - a /\ 2 * n <= b - a
    BY <1>1, <2>1
  <2>3. f < b - n
    BY <2>2
  <2>. QED
    BY <1>1, <2>2, <2>3 DEF Distance
<1>2. CASE b < a
  <2>1. Distance(a, b) = a - b
    BY <1>2 DEF Distance
  <2>2. 2 * m <= a - b /\ 2 * n <= a - b
    BY <1>2, <2>1
  <2>3. b + n - 1 < f
    BY <2>2
  <2>. QED
    BY <1>2, <2>2, <2>3 DEF Distance
<1>. QED
  BY <1>1, <1>2

\* The list is one the seeder accepts.
SeededRight == seeded \in SUBSET Channels /\ ~Refused(seeded)

LEMMA SeededIsRight == Spec => []SeededRight
<1>1. Init => SeededRight
  BY DEF Init, SeededRight, Refused
<1>2. SeededRight /\ [Next]_vars => SeededRight'
  <2>. SUFFICES ASSUME SeededRight, [Next]_vars
                PROVE  SeededRight'
    OBVIOUS
  <2>1. CASE UNCHANGED seeded
    BY <2>1 DEF SeededRight, Refused, Peers
  <2>2. ASSUME NEW c \in Channels, Seed(c)
        PROVE  SeededRight'
    BY <2>2 DEF Seed, SeededRight, Refused, Peers
  <2>3. CASE HearTone \/ HearDeviation
    BY <2>1, <2>3 DEF HearTone, HearDeviation, Hear
  <2>4. ASSUME NEW c, NEW p, NEW from, KeyUp(c, p, from)
        PROVE  SeededRight'
    BY <2>1, <2>4 DEF KeyUp
  <2>5. ASSUME NEW t, Flip(t)
        PROVE  SeededRight'
    BY <2>1, <2>5 DEF Flip
  <2>6. UNCHANGED vars => UNCHANGED seeded
    BY DEF vars
  <2>. QED
    BY <2>1, <2>2, <2>3, <2>4, <2>5, <2>6 DEF Next
<1>. QED
  BY <1>1, <1>2, PTL DEF Spec

LEMMA RightIsDisjoint == SeededRight => WindowsDisjoint
<1>. SUFFICES ASSUME SeededRight,
                     NEW c \in seeded, NEW p \in Peers(seeded, c),
                     NEW f \in LowEnd(seeded, c) .. HighEnd(seeded, c)
              PROVE  ~Claims(seeded, p, f) /\ Distance(c.center, f) <= Distance(p.center, f)
  BY DEF WindowsDisjoint
<1>1. p \in seeded /\ c \in Peers(seeded, p)
  BY DEF Peers
<1>2. c.center \in Nat /\ p.center \in Nat
  BY <1>1, ChannelsAssumption DEF SeededRight
<1>3. p.center # c.center
  BY DEF Refused, SeededRight
<1>4. /\ HalfWindow(seeded, c) \in Nat
      /\ HalfWindow(seeded, c) <= Distance(p.center, c.center) \div 2
  BY HalfWindowBound DEF SeededRight
<1>5. /\ HalfWindow(seeded, p) \in Nat
      /\ HalfWindow(seeded, p) <= Distance(c.center, p.center) \div 2
  BY <1>1, HalfWindowBound DEF SeededRight
<1>6. Distance(c.center, p.center) = Distance(p.center, c.center)
  BY <1>2 DEF Distance
<1>7. /\ f \in Int
      /\ c.center - HalfWindow(seeded, c) <= f
      /\ f <= c.center + HalfWindow(seeded, c) - 1
  BY <1>2, <1>4 DEF LowEnd, HighEnd
<1>8. /\ ~(p.center - HalfWindow(seeded, p) <= f /\ f <= p.center + HalfWindow(seeded, p) - 1)
      /\ Distance(c.center, f) <= Distance(p.center, f)
  BY <1>2, <1>3, <1>4, <1>5, <1>6, <1>7, TwoWindows
<1>. QED
  BY <1>8 DEF Claims, LowEnd, HighEnd

\* No two channels of one service claim a frequency, and none claims one
\* that is nearer to another of its service, whatever channels are seeded.
THEOREM WindowsAreDisjoint == Spec => []WindowsDisjoint
<1>. QED
  BY SeededIsRight, RightIsDisjoint, PTL

-----------------------------------------------------------------------------
(* The rank of a value among those of a set of events.                     *)

UpTo(evs, field, v) == {d \in evs : d[field] <= v}
Under(evs, field, v) == {d \in evs : d[field] < v}

\* Of finitely many events one has the highest value.
LEMMA Highest ==
    ASSUME NEW evs, IsFiniteSet(evs), evs # {}, NEW field, \A e \in evs : e[field] \in Nat
    PROVE  \E e \in evs : \A d \in evs : d[field] <= e[field]
<1>. DEFINE over(e) == {d \in evs : e[field] < d[field]}
            overs == {over(e) : e \in evs}
<1>1. overs \subseteq FiniteSubsetsOf(evs) /\ overs # {}
  <2>1. \A e \in evs : over(e) \in SUBSET evs /\ IsFiniteSet(over(e))
    BY FS_Subset
  <2>. QED
    BY <2>1 DEF FiniteSubsetsOf
<1>2. \E T \in overs : \A U \in overs : ~(<<U, T>> \in StrictSubsetOrdering(evs))
  <2>. HIDE DEF overs
  <2>. QED
    BY <1>1, FS_StrictSubsetOrderingWellFounded, WFMin, Zenon
<1>3. PICK e \in evs : \A d \in evs : ~(<<over(d), over(e)>> \in StrictSubsetOrdering(evs))
  BY <1>2
<1>4. ASSUME NEW d \in evs PROVE d[field] <= e[field]
  <2>. SUFFICES ASSUME e[field] < d[field] PROVE FALSE
    OBVIOUS
  <2>1. d \in over(e) /\ d \notin over(d) /\ over(d) \subseteq over(e)
    OBVIOUS
  <2>2. <<over(d), over(e)>> \in (SUBSET evs) \X (SUBSET evs)
    OBVIOUS
  <2>. HIDE DEF over
  <2>3. <<over(d), over(e)>> \in StrictSubsetOrdering(evs)
    BY <2>1, <2>2 DEF StrictSubsetOrdering
  <2>. QED
    BY <1>3, <2>3
<1>. QED
  BY <1>4

LEMMA RankCounts ==
    ASSUME NEW evs, IsFiniteSet(evs), NEW field, NEW v
    PROVE  /\ Cardinality(UpTo(evs, field, v)) \in 0 .. Cardinality(evs)
           /\ Cardinality(Under(evs, field, v)) \in 0 .. Cardinality(evs)
           /\ Cardinality(evs) \in Nat
<1>1. UpTo(evs, field, v) \in SUBSET evs /\ Under(evs, field, v) \in SUBSET evs
  BY DEF UpTo, Under
<1>2. /\ IsFiniteSet(UpTo(evs, field, v)) /\ Cardinality(UpTo(evs, field, v)) <= Cardinality(evs)
      /\ IsFiniteSet(Under(evs, field, v)) /\ Cardinality(Under(evs, field, v)) <= Cardinality(evs)
  BY <1>1, FS_Subset
<1>. QED
  BY <1>2, FS_CardinalityType

\* The k-th smallest value is one of the values, and less than k are under it.
LEMMA RankedIs ==
    ASSUME NEW evs, IsFiniteSet(evs), NEW field, \A e \in evs : e[field] \in Nat,
           NEW k \in 1 .. Cardinality(evs)
    PROVE  \E e \in evs : /\ Ranked(evs, field, k) = e[field]
                          /\ Cardinality(Under(evs, field, e[field])) < k
<1>. DEFINE high == {e \in evs : k <= Cardinality(UpTo(evs, field, e[field]))}
            values == {e[field] : e \in high}
<1>1. Cardinality(evs) \in Nat /\ k <= Cardinality(evs) /\ evs # {}
  BY RankCounts, FS_EmptySet
<1>2. high # {}
  <2>1. PICK e \in evs : \A d \in evs : d[field] <= e[field]
    BY <1>1, Highest
  <2>2. UpTo(evs, field, e[field]) = evs
    BY <2>1 DEF UpTo
  <2>. QED
    BY <1>1, <2>2
<1>3. values \in SUBSET Nat /\ values # {}
  BY <1>2
<1>4. Ranked(evs, field, k) = Min(values)
  BY DEF Ranked, UpTo
<1>5. PICK e \in high : Min(values) = e[field]
  <2>1. Min(values) \in values
    <3>. HIDE DEF values
    <3>. QED
      BY <1>3, MinOfNaturals
  <2>. QED
    BY <2>1
<1>6. \A d \in high : e[field] <= d[field]
  <2>1. \A v \in values : e[field] <= v
    <3>. HIDE DEF values
    <3>. QED
      BY <1>3, <1>5, MinOfNaturals
  <2>. QED
    BY <2>1
<1>7. Cardinality(Under(evs, field, e[field])) < k
  <2>. DEFINE low == Under(evs, field, e[field])
  <2>. SUFFICES ASSUME k <= Cardinality(low) PROVE FALSE
    BY RankCounts
  <2>1. IsFiniteSet(low) /\ low \subseteq evs /\ low # {}
    BY FS_Subset, FS_EmptySet DEF Under
  <2>2. PICK d \in low : \A b \in low : b[field] <= d[field]
    <3>. HIDE DEF low, high, values
    <3>. QED
      BY <2>1, Highest
  <2>3. d \in evs /\ d[field] < e[field] /\ e \in evs
    BY <2>1 DEF Under
  <2>4. low \subseteq UpTo(evs, field, d[field]) /\ IsFiniteSet(UpTo(evs, field, d[field]))
    BY <2>1, <2>2, FS_Subset DEF UpTo
  <2>5. Cardinality(low) <= Cardinality(UpTo(evs, field, d[field]))
    BY <2>4, FS_Subset
  <2>6. k <= Cardinality(UpTo(evs, field, d[field]))
    BY <2>1, <2>5, RankCounts
  <2>. QED
    BY <1>6, <2>3, <2>6
<1>. QED
  BY <1>4, <1>5, <1>7

\* If the median is over x, at least half of the values are.
LEMMA HalfOverMedian ==
    ASSUME NEW evs, IsFiniteSet(evs), evs # {}, NEW field, \A e \in evs : e[field] \in Nat,
           NEW x \in Int, TwiceMedian(evs, field) > 2 * x
    PROVE  2 * Cardinality({e \in evs : e[field] > x}) >= Cardinality(evs)
<1>. DEFINE n == Cardinality(evs)
            over == {e \in evs : e[field] > x}
<1>1. n \in Nat \ {0}
  BY FS_CardinalityType, FS_EmptySet
<1>2. /\ (n + 1) \div 2 \in 1 .. n /\ n \div 2 + 1 \in 1 .. n
      /\ 2 * ((n + 1) \div 2 - 1) <= n /\ 2 * (n \div 2) <= n
  BY <1>1
<1>3. PICK e \in evs : /\ Ranked(evs, field, (n + 1) \div 2) = e[field]
                       /\ Cardinality(Under(evs, field, e[field])) < (n + 1) \div 2
  BY <1>2, RankedIs
<1>4. PICK d \in evs : /\ Ranked(evs, field, n \div 2 + 1) = d[field]
                       /\ Cardinality(Under(evs, field, d[field])) < n \div 2 + 1
  BY <1>2, RankedIs
<1>5. e[field] + d[field] > 2 * x
  BY <1>3, <1>4 DEF TwiceMedian
<1>6. ASSUME NEW b \in evs, b[field] > x, 2 * Cardinality(Under(evs, field, b[field])) <= n
      PROVE  2 * Cardinality(over) >= n
  <2>1. evs \ Under(evs, field, b[field]) \subseteq over
    BY <1>6 DEF Under
  <2>2. evs \cap Under(evs, field, b[field]) = Under(evs, field, b[field])
    BY DEF Under
  <2>3. Cardinality(evs \ Under(evs, field, b[field])) = n - Cardinality(Under(evs, field, b[field]))
    BY <2>2, FS_Difference
  <2>4. IsFiniteSet(over)
    BY FS_Subset
  <2>5. Cardinality(evs \ Under(evs, field, b[field])) <= Cardinality(over)
    BY <2>1, <2>4, FS_Subset
  <2>6. Cardinality(over) \in Nat /\ Cardinality(Under(evs, field, b[field])) \in Nat
    BY <2>4, FS_CardinalityType, RankCounts
  <2>. QED
    BY <1>1, <1>6, <2>3, <2>5, <2>6
<1>7. /\ Cardinality(Under(evs, field, e[field])) \in Nat
      /\ Cardinality(Under(evs, field, d[field])) \in Nat
  BY RankCounts
<1>8. e[field] > x \/ d[field] > x
  BY <1>5
<1>. QED
  BY <1>1, <1>2, <1>3, <1>4, <1>6, <1>7, <1>8


\* The events are as analysis files them.
HeardRight ==
    /\ IsFiniteSet(heard)
    /\ \A e \in heard : /\ e.tone \in {"unknown", "none", "ctcss", "dcs"}
                        /\ e.tone = "ctcss" <=> e.ctcss # None
                        /\ e.dev \in Nat \cup {None} /\ e.snr \in Nat \cup {None}

LEMMA HearRight ==
    ASSUME HeardRight,
           NEW r, r.tone \in {"unknown", "none", "ctcss", "dcs"}, r.tone = "ctcss" <=> r.ctcss # None,
           NEW m, m.dev \in Nat \cup {None}, m.snr \in Nat \cup {None},
           heard' = heard \cup {Heard(r, m)}
    PROVE  HeardRight'
<1>. DEFINE e == Heard(r, m)
<1>1. e.tone = r.tone /\ e.ctcss = r.ctcss /\ e.dev = m.dev /\ e.snr = m.snr
  BY DEF Heard
<1>2. /\ e.tone \in {"unknown", "none", "ctcss", "dcs"}
      /\ e.tone = "ctcss" <=> e.ctcss # None
  BY <1>1
<1>3. IsFiniteSet(heard \cup {e})
  BY FS_AddElement DEF HeardRight
<1>. HIDE DEF e
<1>4. heard' = heard \cup {e}
  BY DEF e
<1>. QED
  BY <1>1, <1>2, <1>3, <1>4 DEF HeardRight

LEMMA HeardIsRight == Spec => []HeardRight
<1>1. Init => HeardRight
  BY FS_EmptySet DEF Init, HeardRight
<1>2. HeardRight /\ [Next]_vars => HeardRight'
  <2>. SUFFICES ASSUME HeardRight, [Next]_vars
                PROVE  HeardRight'
    OBVIOUS
  <2>1. CASE UNCHANGED heard
    BY <2>1 DEF HeardRight
  <2>2. CASE HearTone
    <3>1. PICK r \in Results : Hear(r, Unmeasured)
      BY <2>2 DEF HearTone
    <3>2. /\ r.tone \in {"unknown", "none", "ctcss", "dcs"}
          /\ r.tone = "ctcss" <=> r.ctcss # None
      BY <3>1, HeardAssumption
    <3>3. Unmeasured.dev = None /\ Unmeasured.snr = None
      BY DEF Unmeasured
    <3>. QED
      BY <3>1, <3>2, <3>3, HearRight DEF Hear
  <2>3. CASE HearDeviation
    <3>1. PICK m \in Measurements : Hear(Unknown, m)
      BY <2>3 DEF HearDeviation
    <3>2. /\ Unknown.tone \in {"unknown", "none", "ctcss", "dcs"}
          /\ Unknown.tone = "ctcss" <=> Unknown.ctcss # None
      BY DEF Unknown
    <3>3. m.dev \in Nat \cup {None} /\ m.snr \in Nat \cup {None}
      BY HeardAssumption
    <3>. QED
      BY <3>1, <3>2, <3>3, HearRight DEF Hear
  <2>4. ASSUME NEW c, NEW p, NEW from, KeyUp(c, p, from)
        PROVE  HeardRight'
    BY <2>1, <2>4 DEF KeyUp
  <2>5. ASSUME NEW t, Flip(t)
        PROVE  HeardRight'
    BY <2>1, <2>5 DEF Flip
  <2>6. ASSUME NEW c, Seed(c)
        PROVE  HeardRight'
    BY <2>1, <2>6 DEF Seed
  <2>7. UNCHANGED vars => UNCHANGED heard
    BY DEF vars
  <2>. QED
    BY <2>1, <2>2, <2>3, <2>4, <2>5, <2>6, <2>7 DEF Next
<1>. QED
  BY <1>1, <1>2, PTL DEF Spec

-----------------------------------------------------------------------------
LEMMA UsableAreStrong ==
    ASSUME HeardRight
    PROVE  /\ Usable(heard) = {e \in heard : e.dev # None /\ e.snr >= MinSnr}
           /\ IsFiniteSet(Usable(heard)) /\ \A e \in Usable(heard) : e.dev \in Nat
<1>1. \A e \in heard : e.snr >= MinSnr => e.snr # None
  BY HeardAssumption DEF HeardRight, None
<1>2. Usable(heard) \in SUBSET heard
  BY DEF Usable
<1>. QED
  BY <1>1, <1>2, FS_Subset DEF Usable, HeardRight

\* Some service stays, and what strikes one off.
LEMMA NarrowByMedian ==
    ASSUME HeardRight, NEW tied, tied # {}
    PROVE  /\ NarrowByDeviation(tied, heard) # {}
           /\ \A r \in tied \ NarrowByDeviation(tied, heard) :
                 /\ Cardinality(Usable(heard)) >= MinMeasured
                 /\ LimitOf(r) # None
                 /\ ~(TwiceMedian(Usable(heard), "dev") <= 2 * (LimitOf(r) + Margin))
<1>. DEFINE n == Cardinality(Usable(heard))
<1>1. n \in Nat /\ MinMeasured \in Nat
  BY UsableAreStrong, FS_CardinalityType, HeardAssumption
<1>2. CASE NarrowByDeviation(tied, heard) = tied
  BY <1>2
<1>3. CASE NarrowByDeviation(tied, heard) # tied
  <2>1. /\ ~(n < MinMeasured) /\ WithinLimit(tied, heard) # {}
        /\ NarrowByDeviation(tied, heard) = WithinLimit(tied, heard)
    BY <1>3 DEF NarrowByDeviation
  <2>2. n >= MinMeasured
    BY <1>1, <2>1
  <2>3. ASSUME NEW r \in tied \ WithinLimit(tied, heard)
        PROVE  LimitOf(r) # None /\ ~(TwiceMedian(Usable(heard), "dev") <= 2 * (LimitOf(r) + Margin))
    BY <2>3 DEF WithinLimit
  <2>. QED
    BY <2>1, <2>2, <2>3
<1>. QED
  BY <1>2, <1>3

\* A median is a sum of two values, so it is a number.
LEMMA MedianType ==
    ASSUME NEW evs, IsFiniteSet(evs), evs # {}, NEW field, \A e \in evs : e[field] \in Nat
    PROVE  TwiceMedian(evs, field) \in Int
<1>. DEFINE n == Cardinality(evs)
<1>1. n \in Nat \ {0}
  BY FS_CardinalityType, FS_EmptySet
<1>2. (n + 1) \div 2 \in 1 .. n /\ n \div 2 + 1 \in 1 .. n
  BY <1>1
<1>3. Ranked(evs, field, (n + 1) \div 2) \in Int /\ Ranked(evs, field, n \div 2 + 1) \in Int
  BY <1>2, RankedIs
<1>. QED
  BY <1>3 DEF TwiceMedian

LEMMA HalfTooWide ==
    ASSUME HeardRight, NEW tied, tied # {}, NEW r \in tied \ NarrowByDeviation(tied, heard),
           NEW strong, strong = {e \in heard : e.dev # None /\ e.snr >= MinSnr}
    PROVE  /\ Cardinality(strong) >= MinMeasured
           /\ 2 * Cardinality({e \in strong : e.dev > DeviationLimit[r.bw] + Margin}) >=
                 Cardinality(strong)
<1>1. strong = Usable(heard) /\ IsFiniteSet(strong) /\ \A e \in strong : e.dev \in Nat
  BY UsableAreStrong
<1>2. /\ Cardinality(strong) >= MinMeasured /\ LimitOf(r) # None
      /\ ~(TwiceMedian(strong, "dev") <= 2 * (LimitOf(r) + Margin))
  BY <1>1, NarrowByMedian
<1>3. r.bw \in DOMAIN DeviationLimit /\ LimitOf(r) = DeviationLimit[r.bw]
  BY <1>2 DEF LimitOf
<1>4. LimitOf(r) + Margin \in Int
  BY <1>3, HeardAssumption
<1>5. strong # {}
  BY <1>1, <1>2, FS_EmptySet, HeardAssumption
<1>6. \A e \in strong : e["dev"] \in Nat
  BY <1>1
<1>7. TwiceMedian(strong, "dev") > 2 * (LimitOf(r) + Margin)
  BY <1>1, <1>2, <1>4, <1>5, <1>6, MedianType
<1>8. 2 * Cardinality({e \in strong : e["dev"] > LimitOf(r) + Margin}) >= Cardinality(strong)
  BY <1>1, <1>4, <1>5, <1>6, <1>7, HalfOverMedian
<1>. QED
  BY <1>2, <1>3, <1>8

LEMMA RightIsRuledOut == HeardRight => RuledOutByMost
<1>. SUFFICES ASSUME HeardRight PROVE RuledOutByMost
  OBVIOUS
<1>. DEFINE Ties == SUBSET {r \in Plan : r.kind = "channel"}
            strong == {e \in heard : e.dev # None /\ e.snr >= MinSnr}
            wide(r) == {e \in strong : e.dev > DeviationLimit[r.bw] + Margin}
<1>1. ASSUME NEW tied, tied # {}
      PROVE  NarrowByDeviation(tied, heard) # {}
  BY <1>1, NarrowByMedian
<1>2. ASSUME NEW tied, tied # {}, NEW r \in tied \ NarrowByDeviation(tied, heard)
      PROVE  Cardinality(strong) >= MinMeasured /\ 2 * Cardinality(wide(r)) >= Cardinality(strong)
  BY <1>2, HalfTooWide
<1>3. \A tied \in Ties \ {{}} :
          /\ NarrowByDeviation(tied, heard) # {}
          /\ \A r \in tied \ NarrowByDeviation(tied, heard) :
                Cardinality(strong) >= MinMeasured /\ 2 * Cardinality(wide(r)) >= Cardinality(strong)
  <2>. HIDE DEF Ties, wide, strong
  <2>. QED
    BY <1>1, <1>2
<1>. QED
  BY <1>3, Zenon DEF RuledOutByMost

\* A service is struck off a shared frequency only by enough strong signals,
\* half of which are too wide for it, and never the last one.
THEOREM MedianRulesOut == Spec => []RuledOutByMost
<1>. QED
  BY HeardIsRight, RightIsRuledOut, PTL


\* What four in five agree on is the most common value, and the only one.
LEMMA Minority ==
    ASSUME NEW evs, IsFiniteSet(evs), NEW field, NEW v, NEW w, v # w
    PROVE  /\ Count(evs, field, v) \in Nat /\ Count(evs, field, w) \in Nat
           /\ Cardinality(evs) \in Nat
           /\ Count(evs, field, v) + Count(evs, field, w) <= Cardinality(evs)
<1>. DEFINE A == {e \in evs : e[field] = v}
            B == {e \in evs : e[field] = w}
<1>1. IsFiniteSet(A) /\ IsFiniteSet(B)
  BY FS_Subset
<1>2. A \cap B = {} /\ A \cup B \in SUBSET evs
  OBVIOUS
<1>3. Count(evs, field, v) = Cardinality(A) /\ Count(evs, field, w) = Cardinality(B)
  BY DEF Count
<1>. HIDE DEF A, B
<1>4. /\ Cardinality(A \cup B) = Cardinality(A) + Cardinality(B)
      /\ Cardinality(A \cup B) <= Cardinality(evs)
      /\ Cardinality(A) \in Nat /\ Cardinality(B) \in Nat /\ Cardinality(evs) \in Nat
  <2>1. Cardinality(A \cup B) = Cardinality(A) + Cardinality(B) - Cardinality(A \cap B)
    BY <1>1, FS_Union
  <2>2. Cardinality(A \cap B) = 0
    BY <1>2, FS_EmptySet
  <2>3. Cardinality(A) \in Nat /\ Cardinality(B) \in Nat /\ Cardinality(evs) \in Nat
    BY <1>1, FS_CardinalityType
  <2>4. Cardinality(A \cup B) <= Cardinality(evs)
    BY <1>2, FS_Subset
  <2>. QED
    BY <2>1, <2>2, <2>3, <2>4
<1>. QED
  BY <1>3, <1>4

LEMMA AgreedOutnumbers ==
    ASSUME NEW evs, IsFiniteSet(evs), evs # {}, NEW field, NEW v,
           Agreed(Count(evs, field, v), Cardinality(evs)), NEW w, v # w
    PROVE  Count(evs, field, v) > Count(evs, field, w)
<1>. DEFINE n == Cardinality(evs)
            a == Count(evs, field, v)
            b == Count(evs, field, w)
<1>1. n # 0
  BY FS_EmptySet
<1>2. n \in Nat /\ a \in Nat /\ b \in Nat /\ a + b <= n
  BY Minority
<1>3. 10 * a >= 8 * n
  BY DEF Agreed
<1>. HIDE DEF n, a, b
<1>4. a > b
  BY <1>1, <1>2, <1>3
<1>. QED
  BY <1>4 DEF a, b

LEMMA AgreedIsSome ==
    ASSUME NEW evs, IsFiniteSet(evs), evs # {}, NEW field, NEW v,
           Agreed(Count(evs, field, v), Cardinality(evs))
    PROVE  \E e \in evs : e[field] = v
<1>1. Cardinality(evs) \in Nat /\ Cardinality(evs) # 0
  BY FS_EmptySet, FS_CardinalityType
<1>2. SUFFICES ASSUME {e \in evs : e[field] = v} = {} PROVE FALSE
  OBVIOUS
<1>3. Count(evs, field, v) = 0
  BY <1>2, FS_EmptySet DEF Count
<1>. QED
  BY <1>1, <1>3 DEF Agreed

LEMMA ModalIsAgreed ==
    ASSUME NEW evs, IsFiniteSet(evs), evs # {}, NEW field, NEW v, NEW Order,
           Agreed(Count(evs, field, v), Cardinality(evs))
    PROVE  Modal(evs, field, Order) = v
<1>. DEFINE values == {e[field] : e \in evs}
            before(a, b) == \E i, j \in DOMAIN Order : i < j /\ Order[i] = a /\ Order[j] = b
            first(a) == \A b \in values \ {a} :
                           \/ Count(evs, field, a) > Count(evs, field, b)
                           \/ Count(evs, field, a) = Count(evs, field, b) /\ before(a, b)
<1>1. v \in values
  BY AgreedIsSome
<1>2. \A w : v # w => /\ Count(evs, field, v) > Count(evs, field, w)
                      /\ Count(evs, field, v) \in Nat /\ Count(evs, field, w) \in Nat
  BY AgreedOutnumbers, Minority
<1>3. first(v)
  <2>. HIDE DEF values, before
  <2>. QED
    BY <1>2
<1>4. ASSUME NEW a \in values, first(a)
      PROVE  a = v
  <2>1. SUFFICES ASSUME a # v PROVE FALSE
    OBVIOUS
  <2>2. \/ Count(evs, field, a) > Count(evs, field, v)
        \/ Count(evs, field, a) = Count(evs, field, v)
    <3>. HIDE DEF values, before
    <3>. QED
      BY <1>1, <1>4, <2>1
  <2>. QED
    BY <1>2, <2>1, <2>2
<1>5. (CHOOSE a \in values : first(a)) = v
  <2>. HIDE DEF values, first
  <2>. QED
    BY <1>1, <1>3, <1>4
<1>. QED
  BY <1>5 DEF Modal


Known == {e \in heard : e.tone # "unknown"}
Toned == {e \in heard : e.ctcss # None}
Worded == {e \in heard : e.dcs # None}

State == Modal(Known, "tone", ToneStates)
Agree(evs, field, v) == Agreed(Count(evs, field, v), Cardinality(evs))

\* What the row is given, and what it takes.
LEMMA ToneIs ==
    /\ Known = {} \/ ~Agree(Known, "tone", State) => Tone(heard) = Unknown
    /\ Known # {} /\ Agree(Known, "tone", State) =>
          /\ State = "none" => Tone(heard) = [Unknown EXCEPT !.tone = "none"]
          /\ State = "ctcss" =>
                LET v == Modal(Toned, "ctcss", Tones)
                IN Tone(heard) = IF Agree(Toned, "ctcss", v)
                                 THEN [Unknown EXCEPT !.tone = "ctcss", !.ctcss = v] ELSE Unknown
          /\ State = "dcs" =>
                LET v == Modal(Worded, "dcs", Tones)
                IN Tone(heard) = IF Worded = {} THEN [Unknown EXCEPT !.tone = "dcs"]
                                 ELSE IF Agree(Worded, "dcs", v)
                                      THEN [Unknown EXCEPT !.tone = "dcs", !.dcs = v] ELSE Unknown
<1>1. /\ Known = {} \/ ~Agree(Known, "tone", State) => Tone(heard) = Unknown
      /\ Known # {} /\ Agree(Known, "tone", State) /\ State = "none" =>
            Tone(heard) = [Unknown EXCEPT !.tone = State]
  BY DEF Tone, Known, State, Agree
<1>. DEFINE t == Modal(Toned, "ctcss", Tones)
            w == Modal(Worded, "dcs", Tones)
<1>2. Known # {} /\ Agree(Known, "tone", State) /\ State = "ctcss" =>
         Tone(heard) = IF Agree(Toned, "ctcss", t)
                       THEN [Unknown EXCEPT !.tone = State, !.ctcss = t] ELSE Unknown
  BY DEF Tone, Known, State, Agree, Toned
<1>3. Known # {} /\ Agree(Known, "tone", State) /\ State = "dcs" =>
         Tone(heard) = IF Worded = {} THEN [Unknown EXCEPT !.tone = State]
                       ELSE IF Agree(Worded, "dcs", w)
                            THEN [Unknown EXCEPT !.tone = State, !.dcs = w] ELSE Unknown
  BY DEF Tone, Known, State, Agree, Worded
<1>. QED
  BY <1>1, <1>2, <1>3

LEMMA ToneFields ==
    /\ Unknown.tone = "unknown" /\ Unknown.ctcss = None /\ Unknown.dcs = None
    /\ \A s : LET r == [Unknown EXCEPT !.tone = s] IN r.tone = s /\ r.ctcss = None /\ r.dcs = None
    /\ \A s, v : LET r == [Unknown EXCEPT !.tone = s, !.ctcss = v]
                 IN r.tone = s /\ r.ctcss = v /\ r.dcs = None
    /\ \A s, v : LET r == [Unknown EXCEPT !.tone = s, !.dcs = v]
                 IN r.tone = s /\ r.ctcss = None /\ r.dcs = v
BY DEF Unknown

LEMMA KnownFinite ==
    ASSUME HeardRight
    PROVE  /\ IsFiniteSet(Known) /\ IsFiniteSet(Toned) /\ IsFiniteSet(Worded)
           /\ Known # {} /\ Agree(Known, "tone", State) => State \in {"none", "ctcss", "dcs"}
<1>1. Known \in SUBSET heard /\ Toned \in SUBSET heard /\ Worded \in SUBSET heard
  BY DEF Known, Toned, Worded
<1>2. IsFiniteSet(Known) /\ IsFiniteSet(Toned) /\ IsFiniteSet(Worded)
  BY <1>1, FS_Subset DEF HeardRight
<1>3. ASSUME Known # {}, Agree(Known, "tone", State)
      PROVE  State \in {"none", "ctcss", "dcs"}
  <2>1. PICK e \in Known : e["tone"] = State
    BY <1>2, <1>3, AgreedIsSome DEF Agree
  <2>. QED
    BY <2>1 DEF Known, HeardRight
<1>. QED
  BY <1>2, <1>3

\* What a row that has a tone rests on
LEMMA ToneRests ==
    ASSUME HeardRight
    PROVE  /\ Tone(heard).tone = "none" => Agree(Known, "tone", "none")
           /\ Tone(heard).ctcss # None =>
                 /\ Known # {} /\ Agree(Known, "tone", "ctcss")
                 /\ Agree(Toned, "ctcss", Tone(heard).ctcss)
           /\ Tone(heard).dcs # None =>
                 /\ Known # {} /\ Agree(Known, "tone", "dcs")
                 /\ Worded # {} /\ Agree(Worded, "dcs", Tone(heard).dcs)
<1>1. CASE Known = {} \/ ~Agree(Known, "tone", State)
  BY <1>1, ToneIs, ToneFields
<1>2. CASE Known # {} /\ Agree(Known, "tone", State) /\ State = "none"
  <2>1. Tone(heard) = [Unknown EXCEPT !.tone = "none"]
    BY <1>2, ToneIs
  <2>. QED
    BY <1>2, <2>1, ToneFields
<1>3. CASE Known # {} /\ Agree(Known, "tone", State) /\ State = "ctcss"
  <2>. DEFINE v == Modal(Toned, "ctcss", Tones)
  <2>1. Tone(heard) = IF Agree(Toned, "ctcss", v)
                      THEN [Unknown EXCEPT !.tone = "ctcss", !.ctcss = v] ELSE Unknown
    BY <1>3, ToneIs
  <2>. HIDE DEF v
  <2>2. \/ Tone(heard) = Unknown
        \/ Agree(Toned, "ctcss", v) /\ Tone(heard) = [Unknown EXCEPT !.tone = "ctcss", !.ctcss = v]
    BY <2>1
  <2>3. CASE Tone(heard) = Unknown
    BY <2>3, ToneFields
  <2>4. CASE Agree(Toned, "ctcss", v) /\ Tone(heard) = [Unknown EXCEPT !.tone = "ctcss", !.ctcss = v]
    <3>1. Tone(heard).tone = "ctcss" /\ Tone(heard).ctcss = v /\ Tone(heard).dcs = None
      BY <2>4, ToneFields
    <3>. QED
      BY <1>3, <2>4, <3>1
  <2>. QED
    BY <2>2, <2>3, <2>4
<1>4. CASE Known # {} /\ Agree(Known, "tone", State) /\ State = "dcs"
  <2>. DEFINE v == Modal(Worded, "dcs", Tones)
  <2>1. Tone(heard) = IF Worded = {} THEN [Unknown EXCEPT !.tone = "dcs"]
                      ELSE IF Agree(Worded, "dcs", v)
                           THEN [Unknown EXCEPT !.tone = "dcs", !.dcs = v] ELSE Unknown
    BY <1>4, ToneIs
  <2>. HIDE DEF v
  <2>2. \/ Tone(heard) = Unknown
        \/ Tone(heard) = [Unknown EXCEPT !.tone = "dcs"]
        \/ /\ Worded # {} /\ Agree(Worded, "dcs", v)
           /\ Tone(heard) = [Unknown EXCEPT !.tone = "dcs", !.dcs = v]
    BY <2>1
  <2>3. CASE Tone(heard) = Unknown \/ Tone(heard) = [Unknown EXCEPT !.tone = "dcs"]
    <3>1. Tone(heard).tone # "none" /\ Tone(heard).ctcss = None /\ Tone(heard).dcs = None
      BY <2>3, ToneFields
    <3>. QED
      BY <3>1
  <2>4. CASE /\ Worded # {} /\ Agree(Worded, "dcs", v)
             /\ Tone(heard) = [Unknown EXCEPT !.tone = "dcs", !.dcs = v]
    <3>1. Tone(heard).tone = "dcs" /\ Tone(heard).dcs = v /\ Tone(heard).ctcss = None
      BY <2>4, ToneFields
    <3>. QED
      BY <1>4, <2>4, <3>1
  <2>. QED
    BY <2>2, <2>3, <2>4
<1>. QED
  BY <1>1, <1>2, <1>3, <1>4, KnownFinite


\* Counted among all that was heard
LEMMA CountAll ==
    /\ \A s : s # "unknown" => Count(Known, "tone", s) = Count(heard, "tone", s)
    /\ \A v : v # None => Count(Toned, "ctcss", v) = Count(heard, "ctcss", v)
    /\ \A v : v # None => Count(Worded, "dcs", v) = Count(heard, "dcs", v)
<1>1. ASSUME NEW s, s # "unknown"
      PROVE  {e \in Known : e["tone"] = s} = {e \in heard : e["tone"] = s}
  BY <1>1 DEF Known
<1>2. ASSUME NEW v, v # None
      PROVE  /\ {e \in Toned : e["ctcss"] = v} = {e \in heard : e["ctcss"] = v}
             /\ {e \in Worded : e["dcs"] = v} = {e \in heard : e["dcs"] = v}
  BY <1>2 DEF Toned, Worded
<1>. QED
  BY <1>1, <1>2 DEF Count

LEMMA TonedIsCounted ==
    ASSUME HeardRight
    PROVE  /\ Cardinality(Toned) = Count(heard, "tone", "ctcss")
           /\ Toned \subseteq Known
           /\ Cardinality(Toned) \in Nat /\ Cardinality(Known) \in Nat
           /\ Cardinality(Toned) <= Cardinality(Known)
<1>1. Toned = {e \in heard : e["tone"] = "ctcss"} /\ Toned \subseteq Known
  BY DEF Toned, Known, HeardRight
<1>. QED
  BY <1>1, KnownFinite, FS_Subset, FS_CardinalityType DEF Count

LEMMA CountType ==
    ASSUME NEW evs, IsFiniteSet(evs), NEW field, NEW v
    PROVE  Count(evs, field, v) \in Nat
<1>1. {e \in evs : e[field] = v} \in SUBSET evs
  OBVIOUS
<1>. QED
  BY <1>1, FS_Subset, FS_CardinalityType DEF Count

\* A tone that four in five carry is the one that is filed.
LEMMA CommonToneIsFiled ==
    ASSUME HeardRight, NEW v, v # None, \E e \in heard : e.ctcss = v,
           5 * Count(heard, "ctcss", v) >= 4 * Cardinality(Known)
    PROVE  Tone(heard).ctcss = v
<1>. DEFINE n == Cardinality(Known)
            t == Cardinality(Toned)
            c == Count(heard, "ctcss", v)
            s == Count(heard, "tone", "ctcss")
<1>1. Toned # {} /\ Known # {}
  BY TonedIsCounted DEF Toned
<1>2. c = Count(Toned, "ctcss", v) /\ s = Count(Known, "tone", "ctcss") /\ s = t
  BY CountAll, TonedIsCounted
<1>3. c \in Nat /\ t \in Nat /\ n \in Nat /\ t <= n /\ 5 * c >= 4 * n
  BY CountType, TonedIsCounted DEF HeardRight
<1>4. c <= t
  <2>1. {e \in Toned : e["ctcss"] = v} \in SUBSET Toned
    OBVIOUS
  <2>. QED
    BY <1>2, <2>1, KnownFinite, FS_Subset DEF Count
<1>5. Agree(Toned, "ctcss", v)
  <2>1. 10 * c >= 8 * t
    <3>. HIDE DEF n, t, c
    <3>. QED
      BY <1>3
  <2>. QED
    BY <1>2, <2>1 DEF Agree, Agreed
<1>6. Agree(Known, "tone", "ctcss")
  <2>1. 10 * t >= 8 * n
    <3>. HIDE DEF n, t, c
    <3>. QED
      BY <1>3, <1>4
  <2>. QED
    BY <1>2, <2>1 DEF Agree, Agreed
<1>7. State = "ctcss" /\ Modal(Toned, "ctcss", Tones) = v
  BY <1>1, <1>5, <1>6, ModalIsAgreed, KnownFinite DEF State, Agree
<1>8. Tone(heard) = [Unknown EXCEPT !.tone = "ctcss", !.ctcss = v]
  BY <1>1, <1>5, <1>6, <1>7, ToneIs
<1>. QED
  BY <1>8, ToneFields

LEMMA RightIsAgreed == HeardRight => ToneAgreed
<1>. SUFFICES ASSUME HeardRight PROVE ToneAgreed
  OBVIOUS
<1>. DEFINE n == Cardinality(Known)
            tone == Tone(heard)
<1>1. n \in Nat /\ Cardinality(Toned) \in Nat /\ Cardinality(Worded) \in Nat
  BY KnownFinite, FS_CardinalityType
<1>2. tone.tone = "none" => 5 * Count(heard, "tone", "none") >= 4 * n
  <2>. SUFFICES ASSUME tone.tone = "none" PROVE 5 * Count(heard, "tone", "none") >= 4 * n
    OBVIOUS
  <2>1. Count(heard, "tone", "none") \in Nat
    BY CountType DEF HeardRight
  <2>2. 10 * Count(heard, "tone", "none") >= 8 * n
    BY ToneRests, CountAll DEF Agree, Agreed
  <2>. HIDE DEF n
  <2>. QED
    BY <1>1, <2>1, <2>2
<1>3. tone.ctcss # None => 25 * Count(heard, "ctcss", tone.ctcss) >= 16 * n
  <2>. SUFFICES ASSUME tone.ctcss # None PROVE 25 * Count(heard, "ctcss", tone.ctcss) >= 16 * n
    OBVIOUS
  <2>1. Count(heard, "ctcss", tone.ctcss) \in Nat
    BY CountType DEF HeardRight
  <2>2. 10 * Count(heard, "ctcss", tone.ctcss) >= 8 * Cardinality(Toned)
    BY ToneRests, CountAll DEF Agree, Agreed
  <2>3. 10 * Cardinality(Toned) >= 8 * n
    BY ToneRests, CountAll, TonedIsCounted DEF Agree, Agreed
  <2>. HIDE DEF n, tone
  <2>. QED
    BY <1>1, <2>1, <2>2, <2>3
<1>4. ASSUME tone.dcs # None
      PROVE  /\ 5 * Count(heard, "tone", "dcs") >= 4 * n
             /\ \A e \in heard : e.dcs \in {None, tone.dcs} \/
                   Count(heard, "dcs", tone.dcs) > Count(heard, "dcs", e.dcs)
  <2>1. 5 * Count(heard, "tone", "dcs") >= 4 * n
    <3>1. Count(heard, "tone", "dcs") \in Nat
      BY CountType DEF HeardRight
    <3>2. 10 * Count(heard, "tone", "dcs") >= 8 * n
      BY <1>4, ToneRests, CountAll DEF Agree, Agreed
    <3>. HIDE DEF n
    <3>. QED
      BY <1>1, <3>1, <3>2
  <2>2. ASSUME NEW e \in heard, e.dcs # None, e.dcs # tone.dcs
        PROVE  Count(heard, "dcs", tone.dcs) > Count(heard, "dcs", e.dcs)
    <3>1. Count(Worded, "dcs", tone.dcs) > Count(Worded, "dcs", e.dcs)
      BY <1>4, <2>2, ToneRests, AgreedOutnumbers, KnownFinite DEF Agree
    <3>. QED
      BY <1>4, <2>2, <3>1, CountAll
  <2>. QED
    BY <2>1, <2>2
<1>5. \A v \in {e.ctcss : e \in heard} \ {None} :
         5 * Count(heard, "ctcss", v) >= 4 * n => tone.ctcss = v
  BY CommonToneIsFiled
<1>. QED
  BY <1>2, <1>3, <1>4, <1>5, Zenon DEF ToneAgreed, Known

\* A tone a row is given is what nearly all of its events carry, and one that
\* nearly all carry is never left out.
THEOREM ToneIsAgreed == Spec => []ToneAgreed
<1>. QED
  BY HeardIsRight, RightIsAgreed, PTL

-----------------------------------------------------------------------------
(* What analyze_analog() and apply() make of a dwell, whatever word        *)
(* decode_dcs() finds in it.                                               *)

\* A code is filed only of a dwell that is long enough, and of a band in which
\* no tone has 0.3 of the power; the two tests exclude each other; and the state
\* says "dcs" only of such a band, decoded or not.
LEMMA FiledByRatio ==
    ASSUME NEW dwell \in {"short", "long"}, NEW t \in Nat, NEW b \in Nat, NEW found
    PROVE  LET r == Analysis(dwell, t, b, found)
           IN /\ dwell = "short" => r.dcs = NoCode /\ ToneState(r) = "unknown"
              /\ dwell = "long" /\ IsTone(t, b) => r.dcs = NoCode /\ ToneState(r) = "ctcss"
              /\ dwell = "long" /\ Suspected(t, b) => r.dcs = found /\ ToneState(r) = "dcs"
              /\ dwell = "long" /\ ~IsTone(t, b) /\ ~Suspected(t, b) =>
                   r.dcs = NoCode /\ ToneState(r) = "none"
<1>. DEFINE r == Analysis(dwell, t, b, found)
<1>1. ~(IsTone(t, b) /\ Suspected(t, b))
  BY DEF Suspected
<1>2. /\ r.checked <=> dwell = "long"
      /\ r.ctcss <=> dwell = "long" /\ IsTone(t, b)
      /\ r.suspected <=> dwell = "long" /\ Suspected(t, b)
      /\ r.dcs = IF dwell = "long" /\ Suspected(t, b) THEN found ELSE NoCode
  BY Zenon DEF Analysis
<1>3. CASE dwell = "short"
  <2>1. r.dcs = NoCode /\ ~r.ctcss /\ ~r.suspected /\ ~r.checked
    BY <1>2, <1>3
  <2>. QED
    BY <1>3, <2>1 DEF ToneState
<1>4. CASE dwell = "long" /\ IsTone(t, b)
  <2>1. r.dcs = NoCode /\ r.ctcss
    BY <1>1, <1>2, <1>4
  <2>. QED
    BY <1>1, <1>4, <2>1 DEF ToneState
<1>5. CASE dwell = "long" /\ Suspected(t, b)
  <2>1. r.dcs = found /\ ~r.ctcss /\ r.suspected
    BY <1>1, <1>2, <1>5
  <2>. QED
    BY <1>1, <1>5, <2>1 DEF ToneState
<1>6. CASE dwell = "long" /\ ~IsTone(t, b) /\ ~Suspected(t, b)
  <2>1. r.dcs = NoCode /\ ~r.ctcss /\ ~r.suspected /\ r.checked
    BY <1>2, <1>6
  <2>. QED
    BY <1>6, <2>1 DEF ToneState
<1>. QED
  BY <1>3, <1>4, <1>5, <1>6

-----------------------------------------------------------------------------
(* The Golay code.  ModG() is a fold over the twelve places; that it is    *)
(* defined follows from there being no least number of places for which it *)
(* is not so.                                                              *)

LEMMA MaxUpTo ==
    ASSUME NEW k \in Nat, NEW S \in SUBSET (1 .. k), S # {}
    PROVE  Max(S) \in S /\ \A y \in S : y <= Max(S)
<1>. DEFINE T == {k - y : y \in S}
<1>1. T \in SUBSET Nat /\ T # {}
  <2>1. PICK y \in S : TRUE
    OBVIOUS
  <2>2. k - y \in T
    BY <2>1
  <2>3. T \in SUBSET Nat
    OBVIOUS
  <2>. HIDE DEF T
  <2>. QED
    BY <2>2, <2>3
<1>2. Min(T) \in T /\ \A u \in T : Min(T) <= u
  <2>. HIDE DEF T
  <2>. QED
    BY <1>1, MinOfNaturals
<1>3. PICK x \in S : Min(T) = k - x
  BY <1>2
<1>4. ASSUME NEW y \in S PROVE x >= y
  <2>1. k - y \in T
    OBVIOUS
  <2>2. k - x <= k - y
    BY <1>2, <1>3, <2>1
  <2>3. x \in Nat /\ y \in Nat
    OBVIOUS
  <2>. HIDE DEF T
  <2>. QED
    BY <2>2, <2>3
<1>. HIDE DEF T
<1>5. Max(S) \in S /\ \A y \in S : Max(S) >= y
  BY <1>4 DEF Max
<1>. QED
  BY <1>5

Places == <<22, 21, 20, 19, 18, 17, 16, 15, 14, 13, 12, 11>>

\* What the places in s leave of the word v
LeftBy(v, f, s) == IF s = {} THEN v ELSE Cancel(f[s \ {Max(s)}], Places[Max(s)])

Leaves(v, n, f) == f = [s \in SUBSET (1 .. n) |-> LeftBy(v, f, s)]

LEMMA LeavesAtAll ==
    ASSUME NEW v, NEW n \in Nat
    PROVE  \E f : Leaves(v, n, f)
<1>. DEFINE bad == {k \in Nat : ~\E f : Leaves(v, k, f)}
<1>1. \E f : Leaves(v, 0, f)
  <2>. DEFINE f == [s \in SUBSET (1 .. 0) |-> v]
  <2>1. SUBSET (1 .. 0) = {{}}
    OBVIOUS
  <2>2. \A s \in SUBSET (1 .. 0) : LeftBy(v, f, s) = v
    BY <2>1 DEF LeftBy
  <2>3. Leaves(v, 0, f)
    BY <2>2 DEF Leaves
  <2>. QED
    BY <2>3
<1>2. ASSUME NEW k \in Nat, NEW f, Leaves(v, k, f)
      PROVE  \E g : Leaves(v, k + 1, g)
  <2>. DEFINE g == [s \in SUBSET (1 .. k + 1) |-> LeftBy(v, f, s)]
  <2>1. \A s \in SUBSET (1 .. k) : f[s] = LeftBy(v, f, s)
    BY <1>2 DEF Leaves
  <2>2. \A s \in SUBSET (1 .. k) : s \in SUBSET (1 .. k + 1) /\ g[s] = LeftBy(v, f, s)
    <3>1. 1 .. k \subseteq 1 .. k + 1
      OBVIOUS
    <3>. QED
      BY <3>1
  <2>3. ASSUME NEW s \in SUBSET (1 .. k + 1), s # {}
        PROVE  s \ {Max(s)} \in SUBSET (1 .. k)
    <3>1. k + 1 \in Nat
      OBVIOUS
    <3>2. Max(s) \in s /\ \A y \in s : y <= Max(s)
      BY <2>3, <3>1, MaxUpTo
    <3>3. ASSUME NEW y \in s, y # Max(s) PROVE y \in 1 .. k
      <4>1. y \in 1 .. k + 1 /\ Max(s) \in 1 .. k + 1
        BY <3>2
      <4>2. y <= Max(s) /\ y # Max(s)
        BY <3>2, <3>3
      <4>. QED
        BY <4>1, <4>2
    <3>. QED
      BY <3>3
  <2>4. ASSUME NEW s \in SUBSET (1 .. k + 1)
        PROVE  LeftBy(v, f, s) = LeftBy(v, g, s)
    <3>1. CASE s = {}
      BY <3>1 DEF LeftBy
    <3>2. CASE s # {}
      <4>1. s \ {Max(s)} \in SUBSET (1 .. k)
        BY <2>3, <3>2
      <4>2. f[s \ {Max(s)}] = g[s \ {Max(s)}]
        BY <2>1, <2>2, <4>1, Zenon
      <4>. HIDE DEF g
      <4>. QED
        BY <3>2, <4>2 DEF LeftBy
    <3>. QED
      BY <3>1, <3>2
  <2>5. g = [s \in SUBSET (1 .. k + 1) |-> LeftBy(v, g, s)]
    BY <2>4, Zenon
  <2>. HIDE DEF g
  <2>6. Leaves(v, k + 1, g)
    BY <2>5 DEF Leaves
  <2>. QED
    BY <2>6
<1>3. ASSUME bad # {} PROVE FALSE
  <2>1. PICK k \in bad : \A j \in bad : k <= j
    <3>1. bad \in SUBSET Nat
      OBVIOUS
    <3>. HIDE DEF bad
    <3>. QED
      BY <1>3, <3>1, MinOfNaturals
  <2>2. k \in Nat /\ k # 0 /\ k - 1 \in Nat
    BY <1>1
  <2>3. \E f : Leaves(v, k - 1, f)
    BY <2>1, <2>2
  <2>4. k = (k - 1) + 1
    BY <2>2
  <2>5. \E f : Leaves(v, k, f)
    BY <1>2, <2>2, <2>3, <2>4
  <2>. QED
    BY <2>5
<1>. QED
  BY <1>3

\* The remainder is what is left by the twelve places, one after the other.
LEMMA ModGIs ==
    ASSUME NEW v
    PROVE  \E f : /\ f[0] = v /\ f[12] = ModG(v)
                  /\ \A k \in 0 .. 11 : f[k + 1] = Cancel(f[k], 22 - k)
<1>. DEFINE g == CHOOSE h : Leaves(v, 12, h)
            f == [k \in 0 .. 12 |-> g[1 .. k]]
<1>1. ModG(v) = g[1 .. 12]
  <2>1. DOMAIN Places = 1 .. 12
    BY DEF Places
  <2>2. ModG(v) = (CHOOSE h : h = [s \in SUBSET DOMAIN Places |->
                      IF s = {} THEN v ELSE Cancel(h[s \ {Max(s)}], Places[Max(s)])])[DOMAIN Places]
    BY DEF ModG, FoldLeft, MapThenFoldSet, Places
  <2>. QED
    BY <2>1, <2>2 DEF Leaves, LeftBy
<1>2. Leaves(v, 12, g)
  BY LeavesAtAll
<1>. HIDE DEF g
<1>3. \A s \in SUBSET (1 .. 12) : g[s] = LeftBy(v, g, s)
  BY <1>2 DEF Leaves
<1>4. g[1 .. 0] = v
  <2>1. 1 .. 0 = {} /\ 1 .. 0 \in SUBSET (1 .. 12)
    OBVIOUS
  <2>. QED
    BY <1>3, <2>1 DEF LeftBy
<1>5. ASSUME NEW k \in 0 .. 11
      PROVE  g[1 .. k + 1] = Cancel(g[1 .. k], 22 - k)
  <2>. DEFINE S == 1 .. k + 1
  <2>1. S \in SUBSET (1 .. 12) /\ S # {} /\ k + 1 \in S
    OBVIOUS
  <2>2. Max(S) = k + 1
    <3>1. Max(S) \in S /\ \A y \in S : y <= Max(S)
      <4>. HIDE DEF S
      <4>. QED
        BY <2>1, MaxUpTo
    <3>. QED
      BY <3>1, <2>1
  <2>3. S \ {k + 1} = 1 .. k
    OBVIOUS
  <2>4. Places[k + 1] = 22 - k
    BY DEF Places
  <2>. HIDE DEF S
  <2>5. g[S] = Cancel(g[1 .. k], 22 - k)
    BY <1>3, <2>1, <2>2, <2>3, <2>4 DEF LeftBy
  <2>. QED
    BY <2>5 DEF S
<1>6. f[0] = v /\ f[12] = ModG(v)
  BY <1>1, <1>4
<1>7. ASSUME NEW k \in 0 .. 11
      PROVE  f[k + 1] = Cancel(f[k], 22 - k)
  <2>1. k \in 0 .. 12 /\ k + 1 \in 0 .. 12
    OBVIOUS
  <2>2. f[k] = g[1 .. k] /\ f[k + 1] = g[1 .. k + 1]
    BY <2>1
  <2>. HIDE DEF f
  <2>. QED
    BY <1>5, <2>2
<1>. HIDE DEF f
<1>. QED
  BY <1>6, <1>7

\* What is so before the first place and after each one if it was before it,
\* is so after the last.
LEMMA StepByStep ==
    ASSUME NEW S, 0 \in S, \A k \in 0 .. 11 : k \in S => k + 1 \in S
    PROVE  12 \in S
<1>. DEFINE bad == {k \in 0 .. 12 : k \notin S}
<1>1. ASSUME bad # {} PROVE FALSE
  <2>1. bad \in SUBSET Nat
    OBVIOUS
  <2>2. PICK k \in bad : \A j \in bad : k <= j
    <3>. HIDE DEF bad
    <3>. QED
      BY <1>1, <2>1, MinOfNaturals
  <2>3. k \in 1 .. 12 /\ k - 1 \in 0 .. 11 /\ (k - 1) + 1 = k
    OBVIOUS
  <2>4. k - 1 \in S
    BY <2>2, <2>3
  <2>. QED
    BY <2>3, <2>4
<1>. QED
  BY <1>1

LEMMA CancelSum ==
    ASSUME NEW v, NEW w, NEW i
    PROVE  Cancel(Xor(v, w), i) = Xor(Cancel(v, i), Cancel(w, i))
<1>1. PICK p : p = Shifted(GolayPoly, i - 11)
  OBVIOUS
<1>2. \A x : Cancel(x, i) = IF i \in x THEN Xor(x, p) ELSE x
  BY <1>1 DEF Cancel
<1>3. i \in Xor(v, w) <=> ~(i \in v <=> i \in w)
  BY DEF Xor
<1>4. /\ Xor(Xor(v, w), p) = Xor(Xor(v, p), w)
      /\ Xor(Xor(v, w), p) = Xor(v, Xor(w, p))
      /\ Xor(v, w) = Xor(Xor(v, p), Xor(w, p))
  BY Zenon DEF Xor
<1>5. CASE i \in v /\ i \in w
  <2>1. Cancel(v, i) = Xor(v, p) /\ Cancel(w, i) = Xor(w, p) /\ Cancel(Xor(v, w), i) = Xor(v, w)
    BY <1>2, <1>3, <1>5, Zenon
  <2>. QED
    BY <1>4, <2>1, Zenon
<1>6. CASE i \in v /\ i \notin w
  <2>1. Cancel(v, i) = Xor(v, p) /\ Cancel(w, i) = w /\ Cancel(Xor(v, w), i) = Xor(Xor(v, w), p)
    BY <1>2, <1>3, <1>6, Zenon
  <2>. QED
    BY <1>4, <2>1, Zenon
<1>7. CASE i \notin v /\ i \in w
  <2>1. Cancel(v, i) = v /\ Cancel(w, i) = Xor(w, p) /\ Cancel(Xor(v, w), i) = Xor(Xor(v, w), p)
    BY <1>2, <1>3, <1>7, Zenon
  <2>. QED
    BY <1>4, <2>1, Zenon
<1>8. CASE i \notin v /\ i \notin w
  <2>1. Cancel(v, i) = v /\ Cancel(w, i) = w /\ Cancel(Xor(v, w), i) = Xor(v, w)
    BY <1>2, <1>3, <1>8, Zenon
  <2>. QED
    BY <2>1, Zenon
<1>. QED
  BY <1>5, <1>6, <1>7, <1>8, Zenon

\* The remainder of a sum is the sum of the remainders.
LEMMA ModGSum ==
    ASSUME NEW v, NEW w
    PROVE  ModG(Xor(v, w)) = Xor(ModG(v), ModG(w))
<1>1. PICK f : /\ f[0] = v /\ f[12] = ModG(v)
               /\ \A k \in 0 .. 11 : f[k + 1] = Cancel(f[k], 22 - k)
  BY ModGIs
<1>2. PICK g : /\ g[0] = w /\ g[12] = ModG(w)
               /\ \A k \in 0 .. 11 : g[k + 1] = Cancel(g[k], 22 - k)
  BY ModGIs
<1>3. PICK h : /\ h[0] = Xor(v, w) /\ h[12] = ModG(Xor(v, w))
               /\ \A k \in 0 .. 11 : h[k + 1] = Cancel(h[k], 22 - k)
  BY ModGIs
<1>. DEFINE S == {k \in 0 .. 12 : h[k] = Xor(f[k], g[k])}
<1>4. ASSUME NEW k \in 0 .. 11, h[k] = Xor(f[k], g[k])
      PROVE  h[k + 1] = Xor(f[k + 1], g[k + 1])
  BY <1>1, <1>2, <1>3, <1>4, CancelSum
<1>5. 0 \in S /\ \A k \in 0 .. 11 : k \in S => k + 1 \in S
  BY <1>1, <1>2, <1>3, <1>4
<1>6. 12 \in S
  <2>. HIDE DEF S
  <2>. QED
    BY <1>5, StepByStep
<1>. QED
  BY <1>1, <1>2, <1>3, <1>6

\* A remainder has eleven bits, and is its own.
LEMMA ModGBits ==
    ASSUME NEW v \in SUBSET WordBits
    PROVE  ModG(v) \in SUBSET (0 .. 10)
<1>1. PICK f : /\ f[0] = v /\ f[12] = ModG(v)
               /\ \A k \in 0 .. 11 : f[k + 1] = Cancel(f[k], 22 - k)
  BY ModGIs
<1>. DEFINE S == {k \in 0 .. 12 : f[k] \in SUBSET (0 .. 22 - k)}
<1>2. ASSUME NEW k \in 0 .. 11, NEW x \in SUBSET (0 .. 22 - k)
      PROVE  Cancel(x, 22 - k) \in SUBSET (0 .. 22 - (k + 1))
  <2>1. CASE 22 - k \notin x
    BY <2>1 DEF Cancel
  <2>2. CASE 22 - k \in x
    <3>1. PICK p : p = Shifted(GolayPoly, (22 - k) - 11)
      OBVIOUS
    <3>2. p \subseteq 0 .. 22 - k /\ 22 - k \in p
      BY <3>1 DEF Shifted, GolayPoly
    <3>3. Cancel(x, 22 - k) = Xor(x, p)
      BY <2>2, <3>1 DEF Cancel
    <3>. HIDE <3>1
    <3>4. 22 - k \notin Xor(x, p) /\ Xor(x, p) \subseteq 0 .. 22 - k
      BY <2>2, <3>2 DEF Xor
    <3>5. Xor(x, p) \in SUBSET (0 .. 22 - (k + 1))
      BY <3>4
    <3>. QED
      BY <3>3, <3>5
  <2>. QED
    BY <2>1, <2>2
<1>3. 0 \in S
  <2>1. 22 - 0 = 22 /\ 0 \in 0 .. 12
    OBVIOUS
  <2>2. f[0] \in SUBSET (0 .. 22 - 0)
    BY <1>1, <2>1 DEF WordBits
  <2>. QED
    BY <2>1, <2>2
<1>4. ASSUME NEW k \in 0 .. 11, k \in S
      PROVE  k + 1 \in S
  <2>1. f[k] \in SUBSET (0 .. 22 - k)
    BY <1>4
  <2>2. f[k + 1] \in SUBSET (0 .. 22 - (k + 1))
    BY <1>1, <1>2, <2>1
  <2>3. k + 1 \in 0 .. 12
    OBVIOUS
  <2>. QED
    BY <2>2, <2>3
<1>5. 12 \in S
  <2>. HIDE DEF S
  <2>. QED
    BY <1>3, <1>4, StepByStep
<1>6. f[12] \in SUBSET (0 .. 22 - 12)
  BY <1>5
<1>. QED
  BY <1>1, <1>6

LEMMA ModGOfFew ==
    ASSUME NEW v \in SUBSET (0 .. 10)
    PROVE  ModG(v) = v
<1>1. PICK f : /\ f[0] = v /\ f[12] = ModG(v)
               /\ \A k \in 0 .. 11 : f[k + 1] = Cancel(f[k], 22 - k)
  BY ModGIs
<1>. DEFINE S == {k \in 0 .. 12 : f[k] = v}
<1>2. \A k \in 0 .. 11 : Cancel(v, 22 - k) = v
  BY DEF Cancel
<1>3. 0 \in S /\ \A k \in 0 .. 11 : k \in S => k + 1 \in S
  BY <1>1, <1>2
<1>4. 12 \in S
  <2>. HIDE DEF S
  <2>. QED
    BY <1>3, StepByStep
<1>. QED
  BY <1>1, <1>4

\* Up to three errors in a word of the code are corrected.
LEMMA Corrects ==
    ASSUME NEW v, ModG(v) = {}, NEW e \in Errors
    PROVE  Corrected(Xor(v, e)) = v /\ Corrected(v) = v /\ Decode(Xor(v, e)) = Decode(v)
<1>1. {} \in Errors /\ ModG({}) = {}
  BY ModGOfFew DEF Errors
<1>2. Syndromes[Number({})] = {} /\ Syndromes[Number(ModG(e))] = e
  BY <1>1, PerfectCode
<1>3. ModG(Xor(v, e)) = ModG(e)
  <2>1. ModG(Xor(v, e)) = Xor({}, ModG(e))
    BY ModGSum
  <2>2. Xor({}, ModG(e)) = ModG(e)
    BY Zenon DEF Xor
  <2>. QED
    BY <2>1, <2>2
<1>4. Xor(Xor(v, e), e) = v /\ Xor(v, {}) = v
  BY Zenon DEF Xor
<1>5. Corrected(Xor(v, e)) = v
  BY <1>2, <1>3, <1>4, Zenon DEF Corrected
<1>6. Corrected(v) = v
  BY <1>2, <1>4, Zenon DEF Corrected
<1>. QED
  BY <1>5, <1>6, Zenon DEF Decode

LEMMA EncodeIs ==
    ASSUME NEW c \in StandardCodes
    PROVE  /\ Encode(c) = GolayEncode(BitsOf(c) \cup FixedTriple)
           /\ <<c, Encode(c)>> \in Codewords
           /\ \A w \in Codewords : w[1] = c => w = <<c, Encode(c)>>
<1>1. \A w \in Codewords : \E d \in StandardCodes : w = <<d, GolayEncode(BitsOf(d) \cup FixedTriple)>>
  BY Zenon DEF Codewords
<1>2. <<c, GolayEncode(BitsOf(c) \cup FixedTriple)>> \in Codewords
  BY Zenon DEF Codewords
<1>3. ASSUME NEW w \in Codewords, w[1] = c
      PROVE  w = <<c, GolayEncode(BitsOf(c) \cup FixedTriple)>>
  <2>1. PICK d \in StandardCodes : w = <<d, GolayEncode(BitsOf(d) \cup FixedTriple)>>
    BY <1>1
  <2>2. w[1] = d
    BY <2>1
  <2>. QED
    BY <1>3, <2>1, <2>2, Zenon
<1>4. PICK x : x = <<c, GolayEncode(BitsOf(c) \cup FixedTriple)>>
  OBVIOUS
<1>5. x \in Codewords /\ x[1] = c /\ \A w \in Codewords : w[1] = c => w = x
  BY <1>2, <1>3, <1>4
<1>6. (CHOOSE w \in Codewords : w[1] = c) = x
  <2>. HIDE <1>4
  <2>. QED
    BY <1>5
<1>7. Encode(c) = x[2]
  BY <1>6, Zenon DEF Encode
<1>8. Encode(c) = GolayEncode(BitsOf(c) \cup FixedTriple)
  BY <1>4, <1>7
<1>. QED
  BY <1>2, <1>3, <1>8, Zenon

\* The code is systematic: the data are the upper twelve bits of the word.
LEMMA Systematic ==
    ASSUME NEW data \in SUBSET (0 .. 11)
    PROVE  /\ GolayEncode(data) \in SUBSET WordBits
           /\ ModG(GolayEncode(data)) = {}
           /\ Data(GolayEncode(data)) = data
<1>1. PICK s : s = Shifted(data, 11)
  OBVIOUS
<1>2. s \in SUBSET (11 .. 22) /\ s \in SUBSET WordBits
  BY <1>1 DEF Shifted, WordBits
<1>3. PICK r \in SUBSET (0 .. 10) : r = ModG(s)
  BY <1>2, ModGBits
<1>4. GolayEncode(data) = s \cup r
  BY <1>1, <1>3 DEF GolayEncode
<1>5. s \cup r = Xor(s, r)
  <2>1. s \cap r = {}
    BY <1>2
  <2>. QED
    BY <2>1, Zenon DEF Xor
<1>6. ModG(Xor(s, r)) = Xor(r, r)
  BY <1>3, ModGSum, ModGOfFew
<1>7. Xor(r, r) = {}
  BY Zenon DEF Xor
<1>8. Data(s \cup r) = data
  <2>1. (\A c \in s : c >= 11) /\ \A c \in r : ~(c >= 11)
    BY <1>2
  <2>2. {c \in s \cup r : c >= 11} = s
    BY <2>1, Zenon
  <2>3. {b - 11 : b \in s} = data
    <3>1. \A b \in data : (b + 11) - 11 = b
      OBVIOUS
    <3>2. \A a : a \in s <=> \E b \in data : a = b + 11
      BY <1>1 DEF Shifted
    <3>3. ASSUME NEW b \in s PROVE b - 11 \in data
      <4>1. PICK a \in data : b = a + 11
        BY <3>2
      <4>. QED
        BY <3>1, <4>1
    <3>4. ASSUME NEW a \in data PROVE \E b \in s : a = b - 11
      <4>1. a + 11 \in s
        BY <3>2
      <4>. QED
        BY <3>1, <4>1
    <3>. QED
      BY <3>3, <3>4, Zenon
  <2>. QED
    BY <2>2, <2>3 DEF Data
<1>9. s \cup r \in SUBSET WordBits
  BY <1>2 DEF WordBits
<1>. QED
  BY <1>4, <1>5, <1>6, <1>7, <1>8, <1>9

LEMMA CodeBits ==
    ASSUME NEW c \in StandardCodes
    PROVE  BitsOf(c) \in SUBSET (0 .. 8) /\ BitsOf(c) \cup FixedTriple \in SUBSET (0 .. 11)
<1>1. BitsOf(c) \in SUBSET (0 .. 8)
  BY DEF BitsOf
<1>. QED
  BY <1>1 DEF FixedTriple

LEMMA EncodedWord ==
    ASSUME NEW c \in StandardCodes
    PROVE  /\ Encode(c) \in SUBSET WordBits /\ ModG(Encode(c)) = {}
           /\ Data(Encode(c)) = BitsOf(c) \cup FixedTriple
           /\ Decode(Encode(c)) = c
<1>1. /\ Encode(c) \in SUBSET WordBits /\ ModG(Encode(c)) = {}
      /\ Data(Encode(c)) = BitsOf(c) \cup FixedTriple
  BY EncodeIs, CodeBits, Systematic
<1>2. Corrected(Encode(c)) = Encode(c)
  BY <1>1, Corrects DEF Errors
<1>3. /\ (BitsOf(c) \cup FixedTriple) \cap 0 .. 8 = BitsOf(c)
      /\ (BitsOf(c) \cup FixedTriple) \ 0 .. 8 = FixedTriple
  BY CodeBits DEF FixedTriple
<1>4. Digits(Number(BitsOf(c))) = c
  BY OctalDigits
<1>. QED
  BY <1>1, <1>2, <1>3, <1>4, Zenon DEF Decode

\* A word of the code is what its data are encoded as.
LEMMA SameData ==
    ASSUME NEW v \in SUBSET WordBits, NEW w \in SUBSET WordBits,
           ModG(v) = {}, ModG(w) = {}, Data(v) = Data(w)
    PROVE  v = w
<1>1. \A b \in WordBits : b >= 11 => (b \in v <=> b \in w)
  <2>1. ASSUME NEW x \in SUBSET WordBits, NEW b \in WordBits, b >= 11
        PROVE  b \in x <=> b - 11 \in Data(x)
    BY <2>1 DEF Data, WordBits
  <2>. QED
    BY <2>1
<1>2. Xor(v, w) \in SUBSET (0 .. 10)
  BY <1>1 DEF Xor, WordBits
<1>3. ModG(Xor(v, w)) = Xor({}, {}) /\ ModG(Xor(v, w)) = Xor(v, w)
  <2>1. ModG(Xor(v, w)) = Xor(ModG(v), ModG(w))
    BY ModGSum
  <2>2. ModG(Xor(v, w)) = Xor(v, w)
    BY <1>2, ModGOfFew
  <2>. QED
    BY <2>1, <2>2, Zenon
<1>4. Xor(v, w) = {}
  BY <1>3, Zenon DEF Xor
<1>. QED
  BY <1>4, Zenon DEF Xor

LEMMA DecodedIsEncoded ==
    ASSUME NEW v \in SUBSET WordBits, ModG(v) = {}, Decode(v) # NoCode
    PROVE  Decode(v) \in StandardCodes /\ v = Encode(Decode(v))
<1>1. Corrected(v) = v
  <2>1. {} \in Errors
    BY DEF Errors
  <2>. QED
    BY <2>1, Corrects
<1>2. PICK data : data = Data(v)
  OBVIOUS
<1>3. PICK d : d = Digits(Number(data \cap 0 .. 8))
  OBVIOUS
<1>4. /\ data \ 0 .. 8 = FixedTriple /\ d \in StandardCodes
      /\ Decode(v) = d
  BY <1>1, <1>2, <1>3, Zenon DEF Decode
<1>5. BitsOf(d) = data \cap 0 .. 8
  <2>1. data \cap 0 .. 8 \in SUBSET (0 .. 8)
    OBVIOUS
  <2>. QED
    BY <1>3, <2>1, OctalDigits
<1>6. data = BitsOf(d) \cup FixedTriple
  BY <1>4, <1>5, Zenon
<1>7. v = Encode(d)
  BY <1>2, <1>4, <1>6, EncodedWord, SameData
<1>. QED
  BY <1>4, <1>7

-----------------------------------------------------------------------------
(* The waveforms.  A word and the word it is framed as from another place  *)
(* on are of one waveform.                                                 *)

Turned(word, n) == {(b - n) % 23 : b \in word}

LEMMA TurnedHas ==
    ASSUME NEW word \in SUBSET WordBits, NEW n \in Int, NEW b \in WordBits
    PROVE  b \in Turned(word, n) <=> (b + n) % 23 \in word
<1>1. \A a \in WordBits : (a - n) % 23 = b <=> a = (b + n) % 23
  <2> SUFFICES ASSUME NEW a \in WordBits PROVE (a - n) % 23 = b <=> a = (b + n) % 23
    OBVIOUS
  <2>1. a \in 0 .. 22 /\ b \in 0 .. 22 /\ a - n \in Int /\ b + n \in Int
    BY DEF WordBits
  <2>2. (a - n) % 23 = b => a = (b + n) % 23
    BY <2>1, SMTT(30)
  <2>3. a = (b + n) % 23 => (a - n) % 23 = b
    BY <2>1, SMTT(30)
  <2>. QED
    BY <2>2, <2>3
<1>2. b \in Turned(word, n) <=> \E a \in word : (a - n) % 23 = b
  BY DEF Turned
<1>. QED
  BY <1>1, <1>2

LEMMA TurnedWord ==
    ASSUME NEW word, word \in SUBSET WordBits, NEW n \in Int
    PROVE  Turned(word, n) \in SUBSET WordBits
<1>1. \A b \in word : (b - n) % 23 \in 0 .. 22
  BY DEF WordBits
<1>. QED
  BY <1>1 DEF Turned, WordBits

LEMMA SameWord ==
    ASSUME NEW v \in SUBSET WordBits, NEW w \in SUBSET WordBits,
           \A b \in WordBits : b \in v <=> b \in w
    PROVE  v = w
OBVIOUS

LEMMA TurnedTwice ==
    ASSUME NEW word \in SUBSET WordBits, NEW m \in Int, NEW n \in Int
    PROVE  /\ Turned(Turned(word, m), n) = Turned(word, m + n)
           /\ Turned(word, 23 * m) = word
           /\ Turned(word, n % 23) = Turned(word, n)
<1>1. \A i \in Int : Turned(word, i) \in SUBSET WordBits
  BY TurnedWord
<1>2. m + n \in Int /\ 23 * m \in Int /\ n % 23 \in Int
  OBVIOUS
<1>3. Turned(Turned(word, m), n) \in SUBSET WordBits
  BY <1>1, TurnedWord
<1>4. ASSUME NEW b \in WordBits
      PROVE  /\ (b + n) % 23 \in WordBits
             /\ (((b + n) % 23) + m) % 23 = (b + (m + n)) % 23
             /\ (b + 23 * m) % 23 = b
             /\ (b + (n % 23)) % 23 = (b + n) % 23
  <2>1. b \in 0 .. 22
    BY DEF WordBits
  <2>2. (b + n) % 23 \in 0 .. 22
    BY <2>1
  <2>3. (((b + n) % 23) + m) % 23 = (b + (m + n)) % 23
    BY <2>1, SMTT(30)
  <2>4. (b + 23 * m) % 23 = b
    BY <2>1, SMTT(30)
  <2>5. (b + (n % 23)) % 23 = (b + n) % 23
    BY <2>1, SMTT(30)
  <2>. QED
    BY <2>2, <2>3, <2>4, <2>5 DEF WordBits
<1>5. Turned(Turned(word, m), n) = Turned(word, m + n)
  <2>1. ASSUME NEW b \in WordBits
        PROVE  b \in Turned(Turned(word, m), n) <=> b \in Turned(word, m + n)
    <3>1. b \in Turned(Turned(word, m), n) <=> (b + n) % 23 \in Turned(word, m)
      BY <1>1, TurnedHas
    <3>2. (b + n) % 23 \in Turned(word, m) <=> (((b + n) % 23) + m) % 23 \in word
      BY <1>4, TurnedHas
    <3>3. b \in Turned(word, m + n) <=> (b + (m + n)) % 23 \in word
      BY <1>2, TurnedHas
    <3>. QED
      BY <1>4, <3>1, <3>2, <3>3
  <2>. QED
    BY <1>1, <1>2, <1>3, <2>1, SameWord
<1>6. Turned(word, 23 * m) = word
  <2>1. PICK k \in Int : k = 23 * m
    BY <1>2
  <2>2. ASSUME NEW b \in WordBits
        PROVE  b \in Turned(word, k) <=> b \in word
    <3>1. (b + k) % 23 = b
      BY <1>4, <2>1
    <3>2. b \in Turned(word, k) <=> (b + k) % 23 \in word
      BY TurnedHas
    <3>. QED
      BY <3>1, <3>2
  <2>3. Turned(word, k) = word
    BY <1>1, <2>2, SameWord
  <2>. QED
    BY <2>1, <2>3
<1>7. Turned(word, n % 23) = Turned(word, n)
  <2>1. \A b \in WordBits : b \in Turned(word, n % 23) <=> b \in Turned(word, n)
    BY <1>2, <1>4, TurnedHas
  <2>. QED
    BY <1>1, <1>2, <2>1, SameWord
<1>. QED
  BY <1>5, <1>6, <1>7

LEMMA RotationsAre ==
    ASSUME NEW word \in SUBSET WordBits, NEW v
    PROVE  v \in Rotations(word) <=> \E n \in Int : v = Turned(word, n)
<1>1. v \in Rotations(word) <=> \E n \in WordBits : v = Turned(word, n)
  BY Zenon DEF Rotations, Turned
<1>2. WordBits \subseteq Int
  BY DEF WordBits
<1>3. ASSUME NEW n \in Int, v = Turned(word, n)
      PROVE  \E k \in WordBits : v = Turned(word, k)
  <2>1. n % 23 \in WordBits
    BY DEF WordBits
  <2>2. Turned(word, n % 23) = Turned(word, n)
    BY TurnedTwice
  <2>. QED
    BY <1>3, <2>1, <2>2, Zenon
<1>. QED
  BY <1>1, <1>2, <1>3

\* To be framed as one another is an equivalence.
LEMMA OneWaveform ==
    ASSUME NEW v \in SUBSET WordBits, NEW w \in SUBSET WordBits, v \in Rotations(w)
    PROVE  /\ w \in Rotations(w) /\ Rotations(w) \in SUBSET SUBSET WordBits
           /\ w \in Rotations(v)
           /\ Rotations(v) = Rotations(w)
<1>1. ASSUME NEW x \in SUBSET WordBits, NEW y \in SUBSET WordBits, x \in Rotations(y)
      PROVE  y \in Rotations(x)
  <2>1. PICK n \in Int : x = Turned(y, n)
    BY <1>1, RotationsAre
  <2>2. PICK k \in Int : k = -n
    OBVIOUS
  <2>3. Turned(x, k) = Turned(y, n + k)
    BY <2>1, TurnedTwice
  <2>4. n + k = 23 * 0 /\ 0 \in Int
    BY <2>2
  <2>5. Turned(y, 23 * 0) = y
    BY <2>4, TurnedTwice
  <2>6. y = Turned(x, k)
    BY <2>3, <2>4, <2>5, Zenon
  <2>. QED
    BY <2>6, RotationsAre
<1>2. ASSUME NEW x \in SUBSET WordBits, NEW y \in SUBSET WordBits, x \in Rotations(y),
             NEW z \in Rotations(x)
      PROVE  z \in Rotations(y)
  <2>1. PICK m \in Int : x = Turned(y, m)
    BY <1>2, RotationsAre
  <2>2. PICK n \in Int : z = Turned(x, n)
    BY RotationsAre
  <2>3. z = Turned(y, m + n)
    <3>1. Turned(Turned(y, m), n) = Turned(y, m + n)
      BY TurnedTwice
    <3>. QED
      BY <2>1, <2>2, <3>1, Zenon
  <2>4. m + n \in Int
    OBVIOUS
  <2>. QED
    BY <2>3, <2>4, RotationsAre, Zenon
<1>3. w \in Rotations(v)
  BY <1>1
<1>4. w \in Rotations(w)
  BY <1>2, <1>3
<1>5. Rotations(v) = Rotations(w)
  <2>1. \A z \in Rotations(v) : z \in Rotations(w)
    BY <1>2
  <2>2. \A z \in Rotations(w) : z \in Rotations(v)
    BY <1>2, <1>3
  <2>. QED
    BY <2>1, <2>2
<1>6. Rotations(w) \in SUBSET SUBSET WordBits
  <2>1. \A z \in Rotations(w) : z \in SUBSET WordBits
    BY RotationsAre, TurnedWord
  <2>. QED
    BY <2>1
<1>. QED
  BY <1>3, <1>4, <1>5, <1>6

LEMMA InvertedWaveform ==
    ASSUME NEW v \in SUBSET WordBits, NEW w \in SUBSET WordBits
    PROVE  /\ Inverted(w) \in SUBSET WordBits /\ Inverted(Inverted(w)) = w
           /\ v \in Rotations(w) => Inverted(v) \in Rotations(Inverted(w))
<1>1. Inverted(w) \in SUBSET WordBits /\ Inverted(Inverted(w)) = w /\ Inverted(v) \in SUBSET WordBits
  BY DEF Inverted
<1>2. ASSUME v \in Rotations(w)
      PROVE  Inverted(v) \in Rotations(Inverted(w))
  <2>1. PICK n \in Int : v = Turned(w, n)
    BY <1>2, RotationsAre
  <2>2. ASSUME NEW b \in WordBits
        PROVE  b \in Inverted(v) <=> b \in Turned(Inverted(w), n)
    <3>1. (b + n) % 23 \in WordBits
      BY DEF WordBits
    <3>2. b \in v <=> (b + n) % 23 \in w
      BY <2>1, TurnedHas
    <3>3. b \in Turned(Inverted(w), n) <=> (b + n) % 23 \in Inverted(w)
      BY <1>1, TurnedHas
    <3>. QED
      BY <3>1, <3>2, <3>3 DEF Inverted
  <2>3. Inverted(v) = Turned(Inverted(w), n)
    BY <1>1, <2>2, TurnedWord, SameWord
  <2>. QED
    BY <1>1, <2>3, RotationsAre
<1>. QED
  BY <1>1, <1>2

-----------------------------------------------------------------------------
(* The code is cyclic: a word of it is one wherever it is begun, and       *)
(* inverted.                                                               *)

LEMMA AllOnes == ModG(WordBits) = {}
<1>1. PICK f : /\ f[0] = WordBits /\ f[12] = ModG(WordBits)
               /\ \A k \in 0 .. 11 : f[k + 1] = Cancel(f[k], 22 - k)
  BY ModGIs
<1>2. \A n \in Nat : Shifted(GolayPoly, n) = {n + 11, n + 10, n + 6, n + 5, n + 4, n + 2, n}
  BY DEF Shifted, GolayPoly
<1>3. f[0] = {22, 21, 20, 19, 18, 17, 16, 15, 14, 13, 12, 11, 10, 9, 8, 7, 6, 5, 4, 3, 2, 1, 0}
  BY <1>1 DEF WordBits
<1>4. f[1] = {20, 19, 18, 14, 12, 10, 9, 8, 7, 6, 5, 4, 3, 2, 1, 0}
  <2>1. f[0 + 1] = Cancel(f[0], 22 - 0)
    BY <1>1
  <2>2. Shifted(GolayPoly, 22 - 11) = {22, 21, 17, 16, 15, 13, 11}
    BY <1>2
  <2>3. Xor({22, 21, 20, 19, 18, 17, 16, 15, 14, 13, 12, 11, 10, 9, 8, 7, 6, 5, 4, 3, 2, 1, 0},
            {22, 21, 17, 16, 15, 13, 11}) = {20, 19, 18, 14, 12, 10, 9, 8, 7, 6, 5, 4, 3, 2, 1, 0}
    BY DEF Xor
  <2>. QED
    BY <1>3, <2>1, <2>2, <2>3 DEF Cancel
<1>5. f[2] = {20, 19, 18, 14, 12, 10, 9, 8, 7, 6, 5, 4, 3, 2, 1, 0}
  <2>1. f[1 + 1] = Cancel(f[1], 22 - 1)
    BY <1>1
  <2>. QED
    BY <1>4, <2>1 DEF Cancel
<1>6. f[3] = {18, 15, 13, 12, 11, 10, 8, 7, 6, 5, 4, 3, 2, 1, 0}
  <2>1. f[2 + 1] = Cancel(f[2], 22 - 2)
    BY <1>1
  <2>2. Shifted(GolayPoly, 20 - 11) = {20, 19, 15, 14, 13, 11, 9}
    BY <1>2
  <2>3. Xor({20, 19, 18, 14, 12, 10, 9, 8, 7, 6, 5, 4, 3, 2, 1, 0},
            {20, 19, 15, 14, 13, 11, 9}) = {18, 15, 13, 12, 11, 10, 8, 7, 6, 5, 4, 3, 2, 1, 0}
    BY DEF Xor
  <2>. QED
    BY <1>5, <2>1, <2>2, <2>3 DEF Cancel
<1>7. f[4] = {18, 15, 13, 12, 11, 10, 8, 7, 6, 5, 4, 3, 2, 1, 0}
  <2>1. f[3 + 1] = Cancel(f[3], 22 - 3)
    BY <1>1
  <2>. QED
    BY <1>6, <2>1 DEF Cancel
<1>8. f[5] = {17, 15, 10, 9, 8, 6, 5, 4, 3, 2, 1, 0}
  <2>1. f[4 + 1] = Cancel(f[4], 22 - 4)
    BY <1>1
  <2>2. Shifted(GolayPoly, 18 - 11) = {18, 17, 13, 12, 11, 9, 7}
    BY <1>2
  <2>3. Xor({18, 15, 13, 12, 11, 10, 8, 7, 6, 5, 4, 3, 2, 1, 0},
            {18, 17, 13, 12, 11, 9, 7}) = {17, 15, 10, 9, 8, 6, 5, 4, 3, 2, 1, 0}
    BY DEF Xor
  <2>. QED
    BY <1>7, <2>1, <2>2, <2>3 DEF Cancel
<1>9. f[6] = {16, 15, 12, 11, 9, 5, 4, 3, 2, 1, 0}
  <2>1. f[5 + 1] = Cancel(f[5], 22 - 5)
    BY <1>1
  <2>2. Shifted(GolayPoly, 17 - 11) = {17, 16, 12, 11, 10, 8, 6}
    BY <1>2
  <2>3. Xor({17, 15, 10, 9, 8, 6, 5, 4, 3, 2, 1, 0},
            {17, 16, 12, 11, 10, 8, 6}) = {16, 15, 12, 11, 9, 5, 4, 3, 2, 1, 0}
    BY DEF Xor
  <2>. QED
    BY <1>8, <2>1, <2>2, <2>3 DEF Cancel
<1>10. f[7] = {12, 10, 7, 4, 3, 2, 1, 0}
  <2>1. f[6 + 1] = Cancel(f[6], 22 - 6)
    BY <1>1
  <2>2. Shifted(GolayPoly, 16 - 11) = {16, 15, 11, 10, 9, 7, 5}
    BY <1>2
  <2>3. Xor({16, 15, 12, 11, 9, 5, 4, 3, 2, 1, 0},
            {16, 15, 11, 10, 9, 7, 5}) = {12, 10, 7, 4, 3, 2, 1, 0}
    BY DEF Xor
  <2>. QED
    BY <1>9, <2>1, <2>2, <2>3 DEF Cancel
<1>11. f[8] = {12, 10, 7, 4, 3, 2, 1, 0}
  <2>1. f[7 + 1] = Cancel(f[7], 22 - 7)
    BY <1>1
  <2>. QED
    BY <1>10, <2>1 DEF Cancel
<1>12. f[9] = {12, 10, 7, 4, 3, 2, 1, 0}
  <2>1. f[8 + 1] = Cancel(f[8], 22 - 8)
    BY <1>1
  <2>. QED
    BY <1>11, <2>1 DEF Cancel
<1>13. f[10] = {12, 10, 7, 4, 3, 2, 1, 0}
  <2>1. f[9 + 1] = Cancel(f[9], 22 - 9)
    BY <1>1
  <2>. QED
    BY <1>12, <2>1 DEF Cancel
<1>14. f[11] = {11, 10, 6, 5, 4, 2, 0}
  <2>1. f[10 + 1] = Cancel(f[10], 22 - 10)
    BY <1>1
  <2>2. Shifted(GolayPoly, 12 - 11) = {12, 11, 7, 6, 5, 3, 1}
    BY <1>2
  <2>3. Xor({12, 10, 7, 4, 3, 2, 1, 0},
            {12, 11, 7, 6, 5, 3, 1}) = {11, 10, 6, 5, 4, 2, 0}
    BY DEF Xor
  <2>. QED
    BY <1>13, <2>1, <2>2, <2>3 DEF Cancel
<1>15. f[12] = {}
  <2>1. f[11 + 1] = Cancel(f[11], 22 - 11)
    BY <1>1
  <2>2. Shifted(GolayPoly, 11 - 11) = {11, 10, 6, 5, 4, 2, 0}
    BY <1>2
  <2>3. Xor({11, 10, 6, 5, 4, 2, 0},
            {11, 10, 6, 5, 4, 2, 0}) = {}
    BY DEF Xor
  <2>. QED
    BY <1>14, <2>1, <2>2, <2>3 DEF Cancel
<1>. QED
  BY <1>1, <1>15

LEMMA PolyIsWord == ModG(GolayPoly) = {}
<1>1. PICK f : /\ f[0] = GolayPoly /\ f[12] = ModG(GolayPoly)
               /\ \A k \in 0 .. 11 : f[k + 1] = Cancel(f[k], 22 - k)
  BY ModGIs
<1>2. \A n \in Nat : Shifted(GolayPoly, n) = {n + 11, n + 10, n + 6, n + 5, n + 4, n + 2, n}
  BY DEF Shifted, GolayPoly
<1>3. f[0] = {11, 10, 6, 5, 4, 2, 0}
  BY <1>1 DEF GolayPoly
<1>4. f[1] = {11, 10, 6, 5, 4, 2, 0}
  <2>1. f[0 + 1] = Cancel(f[0], 22 - 0)
    BY <1>1
  <2>. QED
    BY <1>3, <2>1 DEF Cancel
<1>5. f[2] = {11, 10, 6, 5, 4, 2, 0}
  <2>1. f[1 + 1] = Cancel(f[1], 22 - 1)
    BY <1>1
  <2>. QED
    BY <1>4, <2>1 DEF Cancel
<1>6. f[3] = {11, 10, 6, 5, 4, 2, 0}
  <2>1. f[2 + 1] = Cancel(f[2], 22 - 2)
    BY <1>1
  <2>. QED
    BY <1>5, <2>1 DEF Cancel
<1>7. f[4] = {11, 10, 6, 5, 4, 2, 0}
  <2>1. f[3 + 1] = Cancel(f[3], 22 - 3)
    BY <1>1
  <2>. QED
    BY <1>6, <2>1 DEF Cancel
<1>8. f[5] = {11, 10, 6, 5, 4, 2, 0}
  <2>1. f[4 + 1] = Cancel(f[4], 22 - 4)
    BY <1>1
  <2>. QED
    BY <1>7, <2>1 DEF Cancel
<1>9. f[6] = {11, 10, 6, 5, 4, 2, 0}
  <2>1. f[5 + 1] = Cancel(f[5], 22 - 5)
    BY <1>1
  <2>. QED
    BY <1>8, <2>1 DEF Cancel
<1>10. f[7] = {11, 10, 6, 5, 4, 2, 0}
  <2>1. f[6 + 1] = Cancel(f[6], 22 - 6)
    BY <1>1
  <2>. QED
    BY <1>9, <2>1 DEF Cancel
<1>11. f[8] = {11, 10, 6, 5, 4, 2, 0}
  <2>1. f[7 + 1] = Cancel(f[7], 22 - 7)
    BY <1>1
  <2>. QED
    BY <1>10, <2>1 DEF Cancel
<1>12. f[9] = {11, 10, 6, 5, 4, 2, 0}
  <2>1. f[8 + 1] = Cancel(f[8], 22 - 8)
    BY <1>1
  <2>. QED
    BY <1>11, <2>1 DEF Cancel
<1>13. f[10] = {11, 10, 6, 5, 4, 2, 0}
  <2>1. f[9 + 1] = Cancel(f[9], 22 - 9)
    BY <1>1
  <2>. QED
    BY <1>12, <2>1 DEF Cancel
<1>14. f[11] = {11, 10, 6, 5, 4, 2, 0}
  <2>1. f[10 + 1] = Cancel(f[10], 22 - 10)
    BY <1>1
  <2>. QED
    BY <1>13, <2>1 DEF Cancel
<1>15. f[12] = {}
  <2>1. f[11 + 1] = Cancel(f[11], 22 - 11)
    BY <1>1
  <2>2. Shifted(GolayPoly, 11 - 11) = {11, 10, 6, 5, 4, 2, 0}
    BY <1>2
  <2>3. Xor({11, 10, 6, 5, 4, 2, 0},
            {11, 10, 6, 5, 4, 2, 0}) = {}
    BY DEF Xor
  <2>. QED
    BY <1>14, <2>1, <2>2, <2>3 DEF Cancel
<1>. QED
  BY <1>1, <1>15

TurnedPoly == {22, 10, 9, 5, 4, 3, 1}

LEMMA TurnedPolyIsWord == ModG(TurnedPoly) = {}
<1>1. PICK f : /\ f[0] = TurnedPoly /\ f[12] = ModG(TurnedPoly)
               /\ \A k \in 0 .. 11 : f[k + 1] = Cancel(f[k], 22 - k)
  BY ModGIs
<1>2. \A n \in Nat : Shifted(GolayPoly, n) = {n + 11, n + 10, n + 6, n + 5, n + 4, n + 2, n}
  BY DEF Shifted, GolayPoly
<1>3. f[0] = {22, 10, 9, 5, 4, 3, 1}
  BY <1>1 DEF TurnedPoly
<1>4. f[1] = {21, 17, 16, 15, 13, 11, 10, 9, 5, 4, 3, 1}
  <2>1. f[0 + 1] = Cancel(f[0], 22 - 0)
    BY <1>1
  <2>2. Shifted(GolayPoly, 22 - 11) = {22, 21, 17, 16, 15, 13, 11}
    BY <1>2
  <2>3. Xor({22, 10, 9, 5, 4, 3, 1},
            {22, 21, 17, 16, 15, 13, 11}) = {21, 17, 16, 15, 13, 11, 10, 9, 5, 4, 3, 1}
    BY DEF Xor
  <2>. QED
    BY <1>3, <2>1, <2>2, <2>3 DEF Cancel
<1>5. f[2] = {20, 17, 14, 13, 12, 11, 9, 5, 4, 3, 1}
  <2>1. f[1 + 1] = Cancel(f[1], 22 - 1)
    BY <1>1
  <2>2. Shifted(GolayPoly, 21 - 11) = {21, 20, 16, 15, 14, 12, 10}
    BY <1>2
  <2>3. Xor({21, 17, 16, 15, 13, 11, 10, 9, 5, 4, 3, 1},
            {21, 20, 16, 15, 14, 12, 10}) = {20, 17, 14, 13, 12, 11, 9, 5, 4, 3, 1}
    BY DEF Xor
  <2>. QED
    BY <1>4, <2>1, <2>2, <2>3 DEF Cancel
<1>6. f[3] = {19, 17, 15, 12, 5, 4, 3, 1}
  <2>1. f[2 + 1] = Cancel(f[2], 22 - 2)
    BY <1>1
  <2>2. Shifted(GolayPoly, 20 - 11) = {20, 19, 15, 14, 13, 11, 9}
    BY <1>2
  <2>3. Xor({20, 17, 14, 13, 12, 11, 9, 5, 4, 3, 1},
            {20, 19, 15, 14, 13, 11, 9}) = {19, 17, 15, 12, 5, 4, 3, 1}
    BY DEF Xor
  <2>. QED
    BY <1>5, <2>1, <2>2, <2>3 DEF Cancel
<1>7. f[4] = {18, 17, 15, 14, 13, 10, 8, 5, 4, 3, 1}
  <2>1. f[3 + 1] = Cancel(f[3], 22 - 3)
    BY <1>1
  <2>2. Shifted(GolayPoly, 19 - 11) = {19, 18, 14, 13, 12, 10, 8}
    BY <1>2
  <2>3. Xor({19, 17, 15, 12, 5, 4, 3, 1},
            {19, 18, 14, 13, 12, 10, 8}) = {18, 17, 15, 14, 13, 10, 8, 5, 4, 3, 1}
    BY DEF Xor
  <2>. QED
    BY <1>6, <2>1, <2>2, <2>3 DEF Cancel
<1>8. f[5] = {15, 14, 12, 11, 10, 9, 8, 7, 5, 4, 3, 1}
  <2>1. f[4 + 1] = Cancel(f[4], 22 - 4)
    BY <1>1
  <2>2. Shifted(GolayPoly, 18 - 11) = {18, 17, 13, 12, 11, 9, 7}
    BY <1>2
  <2>3. Xor({18, 17, 15, 14, 13, 10, 8, 5, 4, 3, 1},
            {18, 17, 13, 12, 11, 9, 7}) = {15, 14, 12, 11, 10, 9, 8, 7, 5, 4, 3, 1}
    BY DEF Xor
  <2>. QED
    BY <1>7, <2>1, <2>2, <2>3 DEF Cancel
<1>9. f[6] = {15, 14, 12, 11, 10, 9, 8, 7, 5, 4, 3, 1}
  <2>1. f[5 + 1] = Cancel(f[5], 22 - 5)
    BY <1>1
  <2>. QED
    BY <1>8, <2>1 DEF Cancel
<1>10. f[7] = {15, 14, 12, 11, 10, 9, 8, 7, 5, 4, 3, 1}
  <2>1. f[6 + 1] = Cancel(f[6], 22 - 6)
    BY <1>1
  <2>. QED
    BY <1>9, <2>1 DEF Cancel
<1>11. f[8] = {12, 11, 7, 6, 5, 3, 1}
  <2>1. f[7 + 1] = Cancel(f[7], 22 - 7)
    BY <1>1
  <2>2. Shifted(GolayPoly, 15 - 11) = {15, 14, 10, 9, 8, 6, 4}
    BY <1>2
  <2>3. Xor({15, 14, 12, 11, 10, 9, 8, 7, 5, 4, 3, 1},
            {15, 14, 10, 9, 8, 6, 4}) = {12, 11, 7, 6, 5, 3, 1}
    BY DEF Xor
  <2>. QED
    BY <1>10, <2>1, <2>2, <2>3 DEF Cancel
<1>12. f[9] = {12, 11, 7, 6, 5, 3, 1}
  <2>1. f[8 + 1] = Cancel(f[8], 22 - 8)
    BY <1>1
  <2>. QED
    BY <1>11, <2>1 DEF Cancel
<1>13. f[10] = {12, 11, 7, 6, 5, 3, 1}
  <2>1. f[9 + 1] = Cancel(f[9], 22 - 9)
    BY <1>1
  <2>. QED
    BY <1>12, <2>1 DEF Cancel
<1>14. f[11] = {}
  <2>1. f[10 + 1] = Cancel(f[10], 22 - 10)
    BY <1>1
  <2>2. Shifted(GolayPoly, 12 - 11) = {12, 11, 7, 6, 5, 3, 1}
    BY <1>2
  <2>3. Xor({12, 11, 7, 6, 5, 3, 1},
            {12, 11, 7, 6, 5, 3, 1}) = {}
    BY DEF Xor
  <2>. QED
    BY <1>13, <2>1, <2>2, <2>3 DEF Cancel
<1>15. f[12] = {}
  <2>1. f[11 + 1] = Cancel(f[11], 22 - 11)
    BY <1>1
  <2>. QED
    BY <1>14, <2>1 DEF Cancel
<1>. QED
  BY <1>1, <1>15

LEMMA ShiftedHas ==
    ASSUME NEW y \in SUBSET Int, NEW m \in Int
    PROVE  /\ Shifted(y, m) \in SUBSET Int
           /\ \A n \in Int : n \in Shifted(y, m) <=> n - m \in y
BY DEF Shifted

\* Of a polynomial with no term 22, the remainder is nothing if that of x times
\* it is: the same places are cancelled, but for the last one, and x times a
\* remainder has no term 0, so it is not the code's polynomial.
LEMMA OncePlaced ==
    ASSUME NEW w \in SUBSET (0 .. 21), ModG(Shifted(w, 1)) = {}
    PROVE  ModG(w) = {}
<1>1. PICK f : /\ f[0] = w /\ f[12] = ModG(w)
               /\ \A k \in 0 .. 11 : f[k + 1] = Cancel(f[k], 22 - k)
  BY ModGIs
<1>2. PICK g : /\ g[0] = Shifted(w, 1) /\ g[12] = {}
               /\ \A k \in 0 .. 11 : g[k + 1] = Cancel(g[k], 22 - k)
  BY ModGIs
<1>3. ASSUME NEW x \in SUBSET Int, NEW i \in 11 .. 21
      PROVE  Cancel(Shifted(x, 1), i + 1) = Shifted(Cancel(x, i), 1)
  <2>1. i + 1 \in Shifted(x, 1) <=> i \in x
    BY DEF Shifted
  <2>2. Shifted(GolayPoly, (i + 1) - 11) = Shifted(Shifted(GolayPoly, i - 11), 1)
    <3>1. GolayPoly \in SUBSET Int
      BY DEF GolayPoly
    <3>2. PICK m \in Int : m = i - 11
      OBVIOUS
    <3>3. (i + 1) - 11 = m + 1 /\ m + 1 \in Int
      BY <3>2
    <3>4. ASSUME NEW n \in Int
          PROVE  n \in Shifted(GolayPoly, m + 1) <=> n \in Shifted(Shifted(GolayPoly, m), 1)
      <4>1. n \in Shifted(GolayPoly, m + 1) <=> n - (m + 1) \in GolayPoly
        BY <3>1, <3>3, ShiftedHas
      <4>2. n \in Shifted(Shifted(GolayPoly, m), 1) <=> n - 1 \in Shifted(GolayPoly, m)
        BY <3>1, ShiftedHas
      <4>3. n - 1 \in Shifted(GolayPoly, m) <=> (n - 1) - m \in GolayPoly
        BY <3>1, ShiftedHas
      <4>4. (n - 1) - m = n - (m + 1)
        OBVIOUS
      <4>. QED
        BY <4>1, <4>2, <4>3, <4>4, Zenon
    <3>5. /\ Shifted(GolayPoly, m + 1) \in SUBSET Int
          /\ Shifted(Shifted(GolayPoly, m), 1) \in SUBSET Int
      BY <3>1, <3>3, ShiftedHas
    <3>6. Shifted(GolayPoly, m + 1) = Shifted(Shifted(GolayPoly, m), 1)
      BY <3>4, <3>5
    <3>. QED
      BY <3>2, <3>3, <3>6, Zenon
  <2>3. PICK p : p = Shifted(GolayPoly, i - 11)
    OBVIOUS
  <2>4. p \in SUBSET Int
    <3>1. GolayPoly \in SUBSET Int /\ i - 11 \in Int
      BY DEF GolayPoly
    <3>. QED
      BY <2>3, <3>1, ShiftedHas
  <2>5. Xor(Shifted(x, 1), Shifted(p, 1)) = Shifted(Xor(x, p), 1)
    <3>1. ASSUME NEW y \in SUBSET Int, NEW n \in Int
          PROVE  n \in Shifted(y, 1) <=> n - 1 \in y
      BY ShiftedHas
    <3>2. \A y \in SUBSET Int : Shifted(y, 1) \in SUBSET Int
      BY ShiftedHas
    <3>3. Xor(x, p) \in SUBSET Int
      BY <2>4 DEF Xor
    <3>4. Xor(Shifted(x, 1), Shifted(p, 1)) \in SUBSET Int
      BY <2>4, <3>2 DEF Xor
    <3>5. ASSUME NEW n \in Int
          PROVE  n \in Xor(Shifted(x, 1), Shifted(p, 1)) <=> n \in Shifted(Xor(x, p), 1)
      <4>1. n \in Shifted(Xor(x, p), 1) <=> n - 1 \in Xor(x, p)
        BY <3>1, <3>3
      <4>2. /\ n \in Shifted(x, 1) <=> n - 1 \in x
            /\ n \in Shifted(p, 1) <=> n - 1 \in p
        BY <2>4, <3>1
      <4>. QED
        BY <4>1, <4>2, Zenon DEF Xor
    <3>. QED
      BY <3>2, <3>3, <3>4, <3>5
  <2>. QED
    BY <2>1, <2>2, <2>3, <2>5, Zenon DEF Cancel
<1>4. \A x \in SUBSET Int : \A i \in 11 .. 22 : Cancel(x, i) \in SUBSET Int
  <2>. SUFFICES ASSUME NEW x \in SUBSET Int, NEW i \in 11 .. 22
                PROVE  Cancel(x, i) \in SUBSET Int
    OBVIOUS
  <2>1. PICK p : p = Shifted(GolayPoly, i - 11)
    OBVIOUS
  <2>2. GolayPoly \in SUBSET Int /\ i - 11 \in Int
    BY DEF GolayPoly
  <2>3. p \in SUBSET Int
    BY <2>1, <2>2, ShiftedHas
  <2>4. Xor(x, p) \in SUBSET Int
    BY <2>3 DEF Xor
  <2>. QED
    BY <2>1, <2>4 DEF Cancel
<1>. DEFINE S == {k \in 0 .. 12 : k < 12 => f[k + 1] \in SUBSET Int /\ g[k] = Shifted(f[k + 1], 1)}
<1>5. 0 \in S
  <2>1. f[0 + 1] = Cancel(f[0], 22 - 0)
    BY <1>1
  <2>2. f[0 + 1] = w
    BY <1>1, <2>1 DEF Cancel
  <2>3. w \in SUBSET Int
    OBVIOUS
  <2>4. f[0 + 1] \in SUBSET Int /\ g[0] = Shifted(f[0 + 1], 1)
    BY <1>2, <2>2, <2>3
  <2>. QED
    BY <2>4
<1>6. ASSUME NEW k \in 0 .. 11, k \in S
      PROVE  k + 1 \in S
  <2>1. CASE k = 11
    BY <2>1
  <2>2. CASE k < 11
    <3>1. PICK i \in 11 .. 21 : i = 21 - k
      BY <2>2
    <3>2. f[(k + 1) + 1] = Cancel(f[k + 1], i)
      BY <1>1, <2>2, <3>1
    <3>3. g[k + 1] = Cancel(g[k], i + 1)
      BY <1>2, <3>1
    <3>4. f[k + 1] \in SUBSET Int /\ g[k] = Shifted(f[k + 1], 1)
      BY <1>6
    <3>5. g[k + 1] = Shifted(f[(k + 1) + 1], 1)
      BY <1>3, <3>2, <3>3, <3>4
    <3>6. f[(k + 1) + 1] \in SUBSET Int
      BY <1>4, <3>2, <3>4
    <3>. QED
      BY <3>5, <3>6
  <2>. QED
    BY <2>1, <2>2
<1>7. \A k \in 0 .. 11 : k \in S
  <2>. DEFINE bad == {k \in 0 .. 11 : k \notin S}
  <2>. SUFFICES ASSUME bad # {}
                PROVE  FALSE
    OBVIOUS
  <2>1. bad \in SUBSET Nat
    OBVIOUS
  <2>2. PICK k \in bad : \A j \in bad : k <= j
    <3>. HIDE DEF bad
    <3>. QED
      BY <2>1, MinOfNaturals
  <2>3. k \in 1 .. 11 /\ k - 1 \in 0 .. 11 /\ (k - 1) + 1 = k
    BY <1>5
  <2>4. k - 1 \in S
    BY <2>2, <2>3
  <2>. HIDE DEF S
  <2>. QED
    BY <1>6, <2>2, <2>3, <2>4
<1>8. g[11] = Shifted(ModG(w), 1)
  <2>1. 11 \in S /\ 11 + 1 = 12
    BY <1>7
  <2>. QED
    BY <1>1, <2>1
<1>9. g[11 + 1] = Cancel(g[11], 22 - 11)
  BY <1>2
<1>10. PICK r : r = Shifted(ModG(w), 1)
  OBVIOUS
<1>11. w \in SUBSET WordBits
  BY DEF WordBits
<1>12. 0 \notin r
  BY <1>10, <1>11, ModGBits DEF Shifted
<1>13. Cancel(r, 11) = {}
  BY <1>2, <1>8, <1>9, <1>10
<1>14. r = {}
  <2>1. CASE 11 \notin r
    BY <1>13, <2>1 DEF Cancel
  <2>2. CASE 11 \in r
    <3>1. PICK p : p = Shifted(GolayPoly, 11 - 11)
      OBVIOUS
    <3>2. 0 \in p
      BY <3>1 DEF Shifted, GolayPoly
    <3>3. Xor(r, p) = {}
      BY <1>13, <2>2, <3>1 DEF Cancel
    <3>. QED
      BY <1>12, <3>2, <3>3 DEF Xor
  <2>. QED
    BY <2>1, <2>2
<1>. QED
  BY <1>10, <1>14 DEF Shifted

LEMMA SumIsWord ==
    ASSUME NEW v, NEW w, ModG(v) = {}, ModG(w) = {}
    PROVE  ModG(Xor(v, w)) = {}
<1>1. ModG(Xor(v, w)) = Xor(ModG(v), ModG(w))
  BY ModGSum
<1>2. Xor({}, {}) = {}
  BY DEF Xor
<1>. QED
  BY <1>1, <1>2, Zenon

LEMMA TurnedOnce ==
    ASSUME NEW v \in SUBSET WordBits, ModG(v) = {}
    PROVE  ModG(Turned(v, 1)) = {}
<1>1. ASSUME NEW x \in SUBSET WordBits, 0 \notin x, ModG(x) = {}
      PROVE  ModG(Turned(x, 1)) = {}
  <2>1. PICK w : w = Turned(x, 1)
    OBVIOUS
  <2>2. \A b \in x : b \in 1 .. 22 /\ (b - 1) % 23 = b - 1
    BY <1>1 DEF WordBits
  <2>3. w = {b - 1 : b \in x}
    BY <2>1, <2>2 DEF Turned
  <2>4. w \in SUBSET (0 .. 21) /\ Shifted(w, 1) = x
    <3>1. w \in SUBSET (0 .. 21)
      BY <2>2, <2>3
    <3>2. ASSUME NEW n \in Int
          PROVE  n \in Shifted(w, 1) <=> n \in x
      <4>1. n \in Shifted(w, 1) <=> n - 1 \in w
        BY <3>1, ShiftedHas
      <4>2. n - 1 \in w <=> n \in x
        BY <2>2, <2>3
      <4>. QED
        BY <4>1, <4>2
    <3>3. Shifted(w, 1) \in SUBSET Int /\ x \in SUBSET Int
      BY <2>2, <3>1, ShiftedHas
    <3>4. Shifted(w, 1) = x
      BY <3>2, <3>3
    <3>. QED
      BY <3>1, <3>4
  <2>. QED
    BY <1>1, <2>1, <2>4, OncePlaced
<1>2. CASE 0 \notin v
  BY <1>1, <1>2
<1>3. CASE 0 \in v
  <2>1. PICK x : x = Xor(v, GolayPoly)
    OBVIOUS
  <2>2. GolayPoly \in SUBSET WordBits /\ 0 \in GolayPoly
    BY DEF GolayPoly, WordBits
  <2>3. x \in SUBSET WordBits /\ 0 \notin x
    BY <1>3, <2>1, <2>2 DEF Xor
  <2>5. ModG(x) = {}
    BY <2>1, PolyIsWord, SumIsWord
  <2>6. ModG(Turned(x, 1)) = {}
    BY <1>1, <2>3, <2>5
  <2>7. Turned(GolayPoly, 1) = TurnedPoly
    <3>1. ASSUME NEW b \in WordBits
          PROVE  b \in Turned(GolayPoly, 1) <=> b \in TurnedPoly
      <4>1. b \in Turned(GolayPoly, 1) <=> (b + 1) % 23 \in GolayPoly
        BY <2>2, TurnedHas
      <4>2. b \in 0 .. 22 /\ (b + 1) % 23 = IF b = 22 THEN 0 ELSE b + 1
        BY DEF WordBits
      <4>. QED
        BY <4>1, <4>2 DEF GolayPoly, TurnedPoly
    <3>2. TurnedPoly \in SUBSET WordBits
      BY DEF TurnedPoly, WordBits
    <3>3. Turned(GolayPoly, 1) \in SUBSET WordBits
      BY <2>2, TurnedWord
    <3>. QED
      BY <3>1, <3>2, <3>3, SameWord
  <2>8. Turned(v, 1) = Xor(Turned(x, 1), Turned(GolayPoly, 1))
    <3>1. /\ Turned(v, 1) \in SUBSET WordBits /\ Turned(x, 1) \in SUBSET WordBits
          /\ Turned(GolayPoly, 1) \in SUBSET WordBits
      BY <2>2, <2>3, TurnedWord
    <3>2. ASSUME NEW b \in WordBits
          PROVE  b \in Turned(v, 1) <=> b \in Xor(Turned(x, 1), Turned(GolayPoly, 1))
      <4>1. /\ b \in Turned(v, 1) <=> (b + 1) % 23 \in v
            /\ b \in Turned(x, 1) <=> (b + 1) % 23 \in x
            /\ b \in Turned(GolayPoly, 1) <=> (b + 1) % 23 \in GolayPoly
        BY <2>2, <2>3, TurnedHas
      <4>. QED
        BY <2>1, <4>1, Zenon DEF Xor
    <3>3. Xor(Turned(x, 1), Turned(GolayPoly, 1)) \in SUBSET WordBits
      BY <3>1 DEF Xor
    <3>. QED
      BY <3>1, <3>2, <3>3, SameWord
  <2>. QED
    BY <2>6, <2>7, <2>8, SumIsWord, TurnedPolyIsWord
<1>. QED
  BY <1>2, <1>3

LEMMA Cyclic ==
    ASSUME NEW word \in SUBSET WordBits, ModG(word) = {}
    PROVE  /\ \A v \in Rotations(word) : ModG(v) = {}
           /\ ModG(Inverted(word)) = {}
<1>. DEFINE bad == {n \in WordBits : ModG(Turned(word, n)) # {}}
<1>1. ASSUME bad # {}
      PROVE  FALSE
  <2>1. bad \in SUBSET Nat
    BY DEF WordBits
  <2>2. PICK n \in bad : \A m \in bad : n <= m
    <3>. HIDE DEF bad
    <3>. QED
      BY <1>1, <2>1, MinOfNaturals
  <2>3. n \in 0 .. 22 /\ ModG(Turned(word, n)) # {}
    BY <2>2 DEF WordBits
  <2>4. CASE n = 0
    <3>1. n = 23 * 0 /\ 0 \in Int
      BY <2>4
    <3>2. Turned(word, 23 * 0) = word
      BY <3>1, TurnedTwice
    <3>. QED
      BY <2>3, <3>1, <3>2, Zenon
  <2>5. CASE n > 0
    <3>1. PICK m \in WordBits : m + 1 = n
      <4>1. n - 1 \in WordBits /\ (n - 1) + 1 = n
        BY <2>3, <2>5 DEF WordBits
      <4>. QED
        BY <4>1
    <3>2. m \in Int /\ ~(n <= m)
      BY <3>1 DEF WordBits
    <3>3. ModG(Turned(word, m)) = {}
      BY <2>2, <3>1, <3>2
    <3>4. Turned(word, m) \in SUBSET WordBits
      BY <3>2, TurnedWord
    <3>5. Turned(Turned(word, m), 1) = Turned(word, n)
      BY <3>1, <3>2, TurnedTwice
    <3>. QED
      BY <2>3, <3>3, <3>4, <3>5, TurnedOnce
  <2>. QED
    BY <2>3, <2>4, <2>5
<1>2. \A v \in Rotations(word) : ModG(v) = {}
  <2>1. \A v \in Rotations(word) : \E n \in WordBits : v = Turned(word, n)
    BY Zenon DEF Rotations, Turned
  <2>. QED
    BY <1>1, <2>1
<1>3. ModG(Inverted(word)) = {}
  <2>1. Inverted(word) = Xor(word, WordBits)
    BY DEF Inverted, Xor
  <2>. QED
    BY <2>1, SumIsWord, AllOnes
<1>. QED
  BY <1>2, <1>3

-----------------------------------------------------------------------------
(* The readings of a word                                                  *)

LEMMA CodewordsAre ==
    ASSUME NEW w
    PROVE  w \in Codewords <=> \E c \in StandardCodes : w = <<c, Encode(c)>>
<1>1. \A c \in StandardCodes : <<c, Encode(c)>> \in Codewords
  BY EncodeIs
<1>2. ASSUME w \in Codewords
      PROVE  \E c \in StandardCodes : w = <<c, Encode(c)>>
  <2>1. PICK c \in StandardCodes : w = <<c, GolayEncode(BitsOf(c) \cup FixedTriple)>>
    BY <1>2, Zenon DEF Codewords
  <2>2. w = <<c, Encode(c)>>
    BY <2>1, EncodeIs, Zenon
  <2>. QED
    BY <2>2
<1>. QED
  BY <1>1, <1>2, Zenon

LEMMA AirWord ==
    ASSUME NEW c \in StandardCodes, NEW p
    PROVE  /\ OnAir(c, p) \in SUBSET WordBits
           /\ OnAir(c, "I") = Inverted(OnAir(c, "N")) /\ OnAir(c, "N") = Encode(c)
           /\ OnAir(c, "N") = Inverted(OnAir(c, "I"))
<1>1. Encode(c) \in SUBSET WordBits
  BY EncodedWord
<1>2. "I" # "N"
  OBVIOUS
<1>. QED
  BY <1>1, <1>2, InvertedWaveform DEF OnAir

LEMMA WaveformsAre ==
    ASSUME NEW w
    PROVE  w \in Waveforms <=>
               \E c \in StandardCodes, p \in {"N", "I"} : w = <<c, p, Rotations(OnAir(c, p))>>
<1>1. "I" # "N"
  OBVIOUS
<1>2. w \in Waveforms <=> \/ \E x \in Codewords : w = <<x[1], "N", Rotations(x[2])>>
                          \/ \E x \in Codewords : w = <<x[1], "I", Rotations(Inverted(x[2]))>>
  BY Zenon DEF Waveforms
<1>3. w \in Waveforms <=> \/ \E c \in StandardCodes : w = <<c, "N", Rotations(Encode(c))>>
                          \/ \E c \in StandardCodes : w = <<c, "I", Rotations(Inverted(Encode(c)))>>
  <2>1. \A c \in StandardCodes : /\ <<c, Encode(c)>> \in Codewords
                                 /\ <<c, Encode(c)>>[1] = c /\ <<c, Encode(c)>>[2] = Encode(c)
    BY CodewordsAre
  <2>2. \A x \in Codewords : \E c \in StandardCodes : x[1] = c /\ x[2] = Encode(c)
    BY CodewordsAre
  <2>3. ASSUME NEW x \in Codewords
        PROVE  \E c \in StandardCodes :
                   /\ <<x[1], "N", Rotations(x[2])>> = <<c, "N", Rotations(Encode(c))>>
                   /\ <<x[1], "I", Rotations(Inverted(x[2]))>> = <<c, "I", Rotations(Inverted(Encode(c)))>>
    <3>1. PICK c \in StandardCodes : x[1] = c /\ x[2] = Encode(c)
      BY <2>2
    <3>. QED
      BY <3>1, Zenon
  <2>4. ASSUME NEW c \in StandardCodes
        PROVE  \E x \in Codewords :
                   /\ <<x[1], "N", Rotations(x[2])>> = <<c, "N", Rotations(Encode(c))>>
                   /\ <<x[1], "I", Rotations(Inverted(x[2]))>> = <<c, "I", Rotations(Inverted(Encode(c)))>>
    <3>1. PICK x \in Codewords : x[1] = c /\ x[2] = Encode(c)
      BY <2>1
    <3>. QED
      BY <3>1, Zenon
  <2>. QED
    BY <1>2, <2>3, <2>4
<1>. QED
  BY <1>1, <1>3 DEF OnAir

LEMMA ReadingsAre ==
    ASSUME NEW word
    PROVE  /\ \A r \in Readings(word) : \E c \in StandardCodes, p \in {"N", "I"} : r = <<c, p>>
           /\ \A c, p : <<c, p>> \in Readings(word) <=>
                  c \in StandardCodes /\ p \in {"N", "I"} /\ word \in Rotations(OnAir(c, p))
<1>1. ASSUME NEW r
      PROVE  r \in Readings(word) <=> \E w \in Waveforms : word \in w[3] /\ r = <<w[1], w[2]>>
  BY Zenon DEF Readings
<1>2. ASSUME NEW r
      PROVE  r \in Readings(word) <=> \E c \in StandardCodes, p \in {"N", "I"} :
                 word \in Rotations(OnAir(c, p)) /\ r = <<c, p>>
  <2>1. \A c \in StandardCodes, p \in {"N", "I"} : <<c, p, Rotations(OnAir(c, p))>> \in Waveforms
    BY WaveformsAre
  <2>2. \A w \in Waveforms : \E c \in StandardCodes, p \in {"N", "I"} : w = <<c, p, Rotations(OnAir(c, p))>>
    BY WaveformsAre
  <2>. QED
    <3>1. ASSUME NEW w \in Waveforms, word \in w[3], r = <<w[1], w[2]>>
          PROVE  \E c \in StandardCodes, p \in {"N", "I"} : word \in Rotations(OnAir(c, p)) /\ r = <<c, p>>
      <4>1. PICK c \in StandardCodes, p \in {"N", "I"} : w = <<c, p, Rotations(OnAir(c, p))>>
        BY <2>2
      <4>2. w[1] = c /\ w[2] = p /\ w[3] = Rotations(OnAir(c, p))
        BY <4>1
      <4>. QED
        BY <3>1, <4>2, Zenon
    <3>2. ASSUME NEW c \in StandardCodes, NEW p \in {"N", "I"}, word \in Rotations(OnAir(c, p)), r = <<c, p>>
          PROVE  \E w \in Waveforms : word \in w[3] /\ r = <<w[1], w[2]>>
      <4>1. PICK w \in Waveforms : w = <<c, p, Rotations(OnAir(c, p))>>
        BY <2>1
      <4>2. w[1] = c /\ w[2] = p /\ w[3] = Rotations(OnAir(c, p))
        BY <4>1
      <4>. QED
        BY <3>2, <4>2, Zenon
    <3>. QED
      BY <1>1, <3>1, <3>2, Zenon
<1>. QED
  BY <1>2

\* Wherever a word is begun it has the same readings, and inverted it has them
\* the other way.
LEMMA SameReadings ==
    ASSUME NEW v \in SUBSET WordBits, NEW w \in SUBSET WordBits, v \in Rotations(w)
    PROVE  Readings(v) = Readings(w)
<1>1. ASSUME NEW x \in SUBSET WordBits
      PROVE  v \in Rotations(x) <=> w \in Rotations(x)
  <2>1. w \in Rotations(x) => v \in Rotations(x)
    BY OneWaveform
  <2>2. v \in Rotations(x) => w \in Rotations(x)
    BY OneWaveform
  <2>. QED
    BY <2>1, <2>2
<1>2. \A c \in StandardCodes, p \in {"N", "I"} : OnAir(c, p) \in SUBSET WordBits
  BY AirWord
<1>3. \A c, p : <<c, p>> \in Readings(v) <=> <<c, p>> \in Readings(w)
  BY <1>1, <1>2, ReadingsAre
<1>4. \A r \in Readings(v) : r \in Readings(w)
  BY <1>3, ReadingsAre
<1>5. \A r \in Readings(w) : r \in Readings(v)
  BY <1>3, ReadingsAre
<1>. QED
  BY <1>4, <1>5

LEMMA InvertedReadings ==
    ASSUME NEW word \in SUBSET WordBits, NEW c
    PROVE  /\ <<c, "N">> \in Readings(Inverted(word)) <=> <<c, "I">> \in Readings(word)
           /\ <<c, "I">> \in Readings(Inverted(word)) <=> <<c, "N">> \in Readings(word)
<1>1. ASSUME NEW v \in SUBSET WordBits, NEW p \in {"N", "I"}, NEW q \in {"N", "I"}, p # q,
             <<c, p>> \in Readings(v)
      PROVE  <<c, q>> \in Readings(Inverted(v))
  <2>1. c \in StandardCodes /\ v \in Rotations(OnAir(c, p))
    BY <1>1, ReadingsAre
  <2>2. OnAir(c, q) = Inverted(OnAir(c, p)) /\ OnAir(c, p) \in SUBSET WordBits
    BY <1>1, <2>1, AirWord
  <2>3. Inverted(v) \in Rotations(OnAir(c, q))
    BY <2>1, <2>2, InvertedWaveform
  <2>. QED
    BY <2>1, <2>3, ReadingsAre
<1>2. Inverted(word) \in SUBSET WordBits /\ Inverted(Inverted(word)) = word
  BY InvertedWaveform
<1>3. "I" # "N"
  OBVIOUS
<1>. QED
  BY <1>1, <1>2, <1>3

LEMMA PairIs ==
    ASSUME NEW c \in StandardCodes
    PROVE  /\ InvertedPair(c) \in StandardCodes
           /\ Readings(Encode(c)) = {<<c, "N">>, <<InvertedPair(c), "I">>}
<1>1. <<c, Encode(c)>> \in Codewords
  BY EncodeIs
<1>2. PICK d \in StandardCodes : Readings(Encode(c)) = {<<c, "N">>, <<d, "I">>}
  <2>1. \E d \in StandardCodes : Readings(<<c, Encode(c)>>[2]) = {<<<<c, Encode(c)>>[1], "N">>, <<d, "I">>}
    BY <1>1, InversePairs, Zenon
  <2>2. <<c, Encode(c)>>[1] = c /\ <<c, Encode(c)>>[2] = Encode(c)
    OBVIOUS
  <2>. QED
    BY <2>1, <2>2, Zenon
<1>3. ASSUME NEW q
      PROVE  q \in Pairs <=> \E x \in StandardCodes : \E r \in Readings(Encode(x)) : r[2] = "I" /\ q = <<x, r[1]>>
  <2>1. q \in Pairs <=> \E w \in Codewords : \E r \in Readings(w[2]) : r[2] = "I" /\ q = <<w[1], r[1]>>
    <3>. DEFINE Own(w) == {<<w[1], r[1]>> : r \in {s \in Readings(w[2]) : s[2] = "I"}}
    <3>1. Pairs = UNION {Own(w) : w \in Codewords}
      BY Zenon DEF Pairs
    <3>2. \A w : q \in Own(w) <=> \E r \in Readings(w[2]) : r[2] = "I" /\ q = <<w[1], r[1]>>
      BY Zenon
    <3>. HIDE DEF Own
    <3>. QED
      BY <3>1, <3>2, Zenon
  <2>2. \A x \in StandardCodes : /\ <<x, Encode(x)>> \in Codewords
                                 /\ <<x, Encode(x)>>[1] = x /\ <<x, Encode(x)>>[2] = Encode(x)
    BY CodewordsAre
  <2>3. \A w \in Codewords : \E x \in StandardCodes : w[1] = x /\ w[2] = Encode(x)
    BY CodewordsAre
  <2>. QED
    <3>1. ASSUME NEW w \in Codewords, NEW r \in Readings(w[2]), r[2] = "I", q = <<w[1], r[1]>>
          PROVE  \E x \in StandardCodes : \E s \in Readings(Encode(x)) : s[2] = "I" /\ q = <<x, s[1]>>
      <4>1. PICK x \in StandardCodes : w[1] = x /\ w[2] = Encode(x)
        BY <2>3
      <4>. QED
        BY <3>1, <4>1, Zenon
    <3>2. ASSUME NEW x \in StandardCodes, NEW r \in Readings(Encode(x)), r[2] = "I", q = <<x, r[1]>>
          PROVE  \E w \in Codewords : \E s \in Readings(w[2]) : s[2] = "I" /\ q = <<w[1], s[1]>>
      <4>1. PICK w \in Codewords : w[1] = x /\ w[2] = Encode(x)
        BY <2>2
      <4>. QED
        BY <3>2, <4>1, Zenon
    <3>. QED
      BY <2>1, <3>1, <3>2, Zenon
<1>4. <<c, d>> \in Pairs
  <2>1. <<d, "I">> \in Readings(Encode(c)) /\ <<d, "I">>[2] = "I" /\ <<c, d>> = <<c, <<d, "I">>[1]>>
    BY <1>2
  <2>. QED
    BY <1>3, <2>1, Zenon
<1>5. ASSUME NEW q \in Pairs, q[1] = c
      PROVE  q[2] = d
  <2>1. PICK x \in StandardCodes : \E r \in Readings(Encode(x)) : r[2] = "I" /\ q = <<x, r[1]>>
    BY <1>3
  <2>2. PICK r \in Readings(Encode(x)) : r[2] = "I" /\ q = <<x, r[1]>>
    BY <2>1
  <2>3. x = c
    BY <1>5, <2>2
  <2>4. r = <<d, "I">>
    <3>1. <<c, "N">>[2] = "N" /\ "I" # "N"
      OBVIOUS
    <3>. QED
      BY <1>2, <2>2, <2>3, <3>1
  <2>. QED
    BY <2>2, <2>4
<1>6. InvertedPair(c) = d
  <2>1. \E q \in Pairs : q[1] = c
    BY <1>4
  <2>. QED
    BY <1>5, <2>1 DEF InvertedPair
<1>. QED
  BY <1>2, <1>6, Zenon

LEMMA PairedBack ==
    ASSUME NEW c \in StandardCodes
    PROVE  InvertedPair(InvertedPair(c)) = c
<1>1. PICK d \in StandardCodes : d = InvertedPair(c) /\ <<d, "I">> \in Readings(Encode(c))
  BY PairIs
<1>2. Encode(c) \in SUBSET WordBits /\ Encode(d) \in SUBSET WordBits
  BY EncodedWord
<1>3. <<d, "N">> \in Readings(Inverted(Encode(c)))
  BY <1>1, <1>2, InvertedReadings
<1>4. Inverted(Encode(c)) \in Rotations(Encode(d))
  BY <1>3, ReadingsAre, AirWord
<1>5. Inverted(Encode(c)) \in SUBSET WordBits /\ Inverted(Inverted(Encode(c))) = Encode(c)
  BY <1>2, InvertedWaveform
<1>6. Readings(Inverted(Encode(c))) = Readings(Encode(d))
  BY <1>2, <1>4, <1>5, SameReadings
<1>7. <<c, "I">> \in Readings(Inverted(Encode(c)))
  <2>1. <<c, "N">> \in Readings(Encode(c))
    BY PairIs
  <2>. QED
    BY <1>2, <2>1, InvertedReadings
<1>8. <<c, "I">> \in {<<d, "N">>, <<InvertedPair(d), "I">>}
  BY <1>6, <1>7, PairIs, Zenon
<1>9. c = InvertedPair(d)
  <2>1. "I" # "N"
    OBVIOUS
  <2>. QED
    BY <1>8, <2>1
<1>. QED
  BY <1>1, <1>9

\* What is on the air can be read as the code it is of, or its pair, as it
\* comes; and as the other one inverted.
LEMMA AirReadings ==
    ASSUME NEW c \in StandardCodes, NEW p \in {"N", "I"}, NEW d,
           d = IF p = "N" THEN c ELSE InvertedPair(c)
    PROVE  /\ d \in StandardCodes
           /\ Readings(OnAir(c, p)) = {<<d, "N">>, <<InvertedPair(d), "I">>}
<1>1. CASE p = "N"
  BY <1>1, PairIs, AirWord
<1>2. CASE p = "I"
  <2>1. d = InvertedPair(c) /\ d \in StandardCodes
    <3>1. "I" # "N"
      OBVIOUS
    <3>. QED
      BY <1>2, <3>1, PairIs
  <2>2. Encode(c) \in SUBSET WordBits /\ Encode(d) \in SUBSET WordBits
    BY <2>1, EncodedWord
  <2>3. OnAir(c, p) = Inverted(Encode(c)) /\ OnAir(c, p) \in SUBSET WordBits
    BY <1>2, AirWord
  <2>4. <<d, "N">> \in Readings(OnAir(c, p))
    <3>1. <<d, "I">> \in Readings(Encode(c))
      BY <2>1, PairIs
    <3>2. <<d, "N">> \in Readings(Inverted(Encode(c)))
      BY <2>2, <3>1, InvertedReadings
    <3>. QED
      BY <2>3, <3>2
  <2>5. OnAir(c, p) \in Rotations(Encode(d))
    BY <2>1, <2>4, ReadingsAre, AirWord
  <2>6. Readings(OnAir(c, p)) = Readings(Encode(d))
    BY <2>2, <2>3, <2>5, SameReadings
  <2>. QED
    BY <2>1, <2>6, PairIs, Zenon
<1>. QED
  BY <1>1, <1>2

-----------------------------------------------------------------------------
(* The stream: what is on the air is a word over and over, and what is     *)
(* received differs from it in few of its bits.                            *)

StreamRight ==
    /\ code \in StandardCodes \cup {NoCode} /\ polarity \in {"N", "I"}
    /\ code # NoCode => \E from \in WordBits : sent = Stream(OnAir(code, polarity), from)
    /\ received \in SUBSET (0 .. Length - 1)
    /\ Xor(sent, received) \in SUBSET (0 .. Length - 1)
    /\ Cardinality(Xor(sent, received)) <= MaxFlips

LEMMA NoneIsWrong ==
    ASSUME NEW v
    PROVE  Xor(v, v) = {} /\ Cardinality(Xor(v, v)) <= MaxFlips
<1>1. Xor(v, v) = {}
  BY DEF Xor
<1>. QED
  BY <1>1, FS_EmptySet, StreamAssumption

LEMMA OneMoreWrong ==
    ASSUME StreamRight, NEW t \in Hit, Flip(t)
    PROVE  /\ received' \in SUBSET (0 .. Length - 1)
           /\ Xor(sent, received') \in SUBSET (0 .. Length - 1)
           /\ Cardinality(Xor(sent, received')) <= MaxFlips
<1>1. t \in 0 .. Length - 1
  BY StreamAssumption
<1>2. Xor(sent, received') = Xor(sent, received) \cup {t}
  <2>1. received' = Xor(received, {t}) /\ t \notin Xor(sent, received)
    BY DEF Flip
  <2>. QED
    BY <2>1, Zenon DEF Xor
<1>3. IsFiniteSet(Xor(sent, received))
  <2>1. IsFiniteSet(0 .. Length - 1)
    BY FS_Interval, StreamAssumption
  <2>. QED
    BY <2>1, FS_Subset DEF StreamRight
<1>4. PICK S : S = Xor(sent, received)
  OBVIOUS
<1>5. Cardinality(S \cup {t}) = Cardinality(S) + 1
  BY <1>3, <1>4, FS_AddElement DEF Flip
<1>6. Cardinality(S) \in Nat /\ Cardinality(S) < MaxFlips
  BY <1>3, <1>4, FS_CardinalityType DEF Flip
<1>7. Cardinality(Xor(sent, received')) <= MaxFlips
  BY <1>2, <1>4, <1>5, <1>6, StreamAssumption
<1>8. received' \in SUBSET (0 .. Length - 1)
  <2>1. Xor(received, {t}) \subseteq received \cup {t}
    BY Zenon DEF Xor
  <2>. QED
    BY <1>1, <2>1 DEF StreamRight, Flip
<1>9. Xor(sent, received') \in SUBSET (0 .. Length - 1)
  BY <1>1, <1>2 DEF StreamRight
<1>. QED
  BY <1>7, <1>8, <1>9

LEMMA StreamIsRight == Spec => []StreamRight
<1>. DEFINE Same == UNCHANGED stream
<1>1. Init => StreamRight
  <2>1. Xor({}, {}) = {} /\ Cardinality(Xor({}, {})) <= MaxFlips
    BY NoneIsWrong
  <2>. QED
    BY <2>1 DEF Init, StreamRight
<1>2. StreamRight /\ [Next]_vars => StreamRight'
  <2>. SUFFICES ASSUME StreamRight, [Next]_vars
                PROVE  StreamRight'
    OBVIOUS
  <2>1. CASE Same
    BY <2>1 DEF StreamRight, stream
  <2>2. ASSUME NEW c \in StandardCodes, NEW p \in {"N", "I"}, NEW from \in Phases, KeyUp(c, p, from)
        PROVE  StreamRight'
    <3>1. code' = c /\ polarity' = p /\ sent' = Stream(OnAir(c, p), from) /\ received' = sent'
      BY <2>2 DEF KeyUp
    <3>2. sent' = Stream(OnAir(code', polarity'), from) /\ from \in WordBits
      BY <3>1, StreamAssumption
    <3>3. sent' \in SUBSET (0 .. Length - 1)
      BY <3>1 DEF Stream
    <3>4. Xor(sent', received') = {} /\ Cardinality(Xor(sent', received')) <= MaxFlips
      BY <3>1, NoneIsWrong
    <3>5. (Xor(sent, received))' = Xor(sent', received')
      BY DEF Xor
    <3>6. (\E g \in WordBits : sent = Stream(OnAir(code, polarity), g))'
      BY <3>2
    <3>. QED
      BY <3>1, <3>3, <3>4, <3>5, <3>6 DEF StreamRight
  <2>3. ASSUME NEW t \in Hit, Flip(t)
        PROVE  StreamRight'
    <3>1. UNCHANGED <<code, polarity, sent>>
      BY <2>3 DEF Flip
    <3>2. /\ received' \in SUBSET (0 .. Length - 1)
          /\ Xor(sent, received') \in SUBSET (0 .. Length - 1)
          /\ Cardinality(Xor(sent, received')) <= MaxFlips
      BY <2>3, OneMoreWrong
    <3>. QED
      BY <3>1, <3>2 DEF StreamRight
  <2>4. CASE HearTone \/ HearDeviation
    BY <2>1, <2>4 DEF HearTone, HearDeviation, Hear
  <2>5. ASSUME NEW c, Seed(c)
        PROVE  StreamRight'
    BY <2>1, <2>5 DEF Seed
  <2>6. UNCHANGED vars => Same
    BY DEF vars, stream
  <2>. HIDE DEF Same
  <2>. QED
    BY <2>1, <2>2, <2>3, <2>4, <2>5, <2>6 DEF Next
<1>. QED
  BY <1>1, <1>2, PTL DEF Spec

LEMMA RightIsOneEach == StreamRight => OneReadingEach
<1>. SUFFICES ASSUME StreamRight, code # NoCode
              PROVE  /\ Cardinality(Readings(OnAir(code, polarity))) = 2
                     /\ Readings(OnAir(code, polarity)) = {<<Normal, "N">>, <<InvertedPair(Normal), "I">>}
                     /\ InvertedPair(InvertedPair(code)) = code
  BY Zenon DEF OneReadingEach
<1>1. code \in StandardCodes /\ polarity \in {"N", "I"}
  BY DEF StreamRight
<1>2. Readings(OnAir(code, polarity)) = {<<Normal, "N">>, <<InvertedPair(Normal), "I">>}
  <2>1. PICK d : d = Normal
    OBVIOUS
  <2>2. d = IF polarity = "N" THEN code ELSE InvertedPair(code)
    BY <2>1 DEF Normal
  <2>. QED
    BY <1>1, <2>1, <2>2, AirReadings, Zenon
<1>3. Cardinality({<<Normal, "N">>, <<InvertedPair(Normal), "I">>}) = 2
  <2>1. PICK x, y : x = <<Normal, "N">> /\ y = <<InvertedPair(Normal), "I">>
    OBVIOUS
  <2>2. x # y
    <3>1. "N" # "I"
      OBVIOUS
    <3>. QED
      BY <2>1, <3>1
  <2>3. Cardinality({x} \cup {y}) = 2
    <3>1. y \notin {x} /\ IsFiniteSet({x}) /\ Cardinality({x}) = 1
      BY <2>2, FS_Singleton
    <3>2. Cardinality({x} \cup {y}) = 1 + 1
      BY <3>1, FS_AddElement
    <3>. QED
      BY <3>2
  <2>4. {x} \cup {y} = {x, y}
    OBVIOUS
  <2>. QED
    BY <2>1, <2>3, <2>4, Zenon
<1>. QED
  BY <1>1, <1>2, <1>3, PairedBack, Zenon

\* Every code has one reading of its own and one of one other code inverted,
\* and the pairs are mutual: what _inverted_pairs() asserts of the words of
\* the table holds of whatever is sent, wherever in the word it is begun.
THEOREM EachHasOneReading == Spec => []OneReadingEach
<1>. QED
  BY StreamIsRight, RightIsOneEach, PTL

-----------------------------------------------------------------------------
(* What decode_dcs() finds of a stream that is a word over and over, in    *)
(* all but three of its bits.                                              *)

Hears(ones, word, from) ==
    /\ ones \in SUBSET (0 .. Length - 1)
    /\ Xor(Stream(word, from), ones) \in SUBSET (0 .. Length - 1)
    /\ IsFiniteSet(Xor(Stream(word, from), ones))
    /\ Cardinality(Xor(Stream(word, from), ones)) <= 3

\* The stream inverted is the word inverted.
LEMMA HearsInverted ==
    ASSUME NEW word \in SUBSET WordBits, NEW from \in WordBits, NEW ones, Hears(ones, word, from)
    PROVE  Hears((0 .. Length - 1) \ ones, Inverted(word), from)
<1>. DEFINE all == 0 .. Length - 1
<1>1. \A t \in all : (t + from) % 23 \in WordBits
  BY StreamAssumption DEF WordBits
<1>2. Stream(Inverted(word), from) = all \ Stream(word, from)
  BY <1>1 DEF Stream, Inverted
<1>3. Stream(word, from) \in SUBSET all /\ ones \in SUBSET all
  BY DEF Stream, Hears
<1>. HIDE DEF all
<1>4. ASSUME NEW v \in SUBSET all, NEW w \in SUBSET all
      PROVE  Xor(all \ v, all \ w) = Xor(v, w)
  BY DEF Xor
<1>5. Xor(all \ Stream(word, from), all \ ones) = Xor(Stream(word, from), ones)
  BY <1>3, <1>4
<1>. QED
  BY <1>2, <1>5 DEF Hears, all

LEMMA ErrorsAre ==
    ASSUME NEW e \in SUBSET WordBits, IsFiniteSet(e), Cardinality(e) <= 3
    PROVE  e \in Errors
<1>1. ASSUME NEW a \in WordBits, NEW b \in WordBits, NEW c \in WordBits
      PROVE  {a, b, c} \in Errors
  BY DEF Errors
<1>2. CASE e = {}
  BY <1>2 DEF Errors
<1>3. CASE e # {}
  <2>1. PICK a \in e : TRUE
    BY <1>3
  <2>2. PICK r : r = e \ {a}
    OBVIOUS
  <2>3. IsFiniteSet(r) /\ Cardinality(r) <= 2 /\ r \in SUBSET WordBits
    <3>1. IsFiniteSet(r) /\ Cardinality(r) = Cardinality(e) - 1
      BY <2>1, <2>2, FS_RemoveElement
    <3>2. Cardinality(e) \in Nat
      BY FS_CardinalityType
    <3>. QED
      BY <2>2, <3>1, <3>2
  <2>4. CASE r = {}
    <3>1. e = {a, a, a} /\ a \in WordBits
      BY <2>1, <2>2, <2>4
    <3>. QED
      BY <1>1, <3>1
  <2>5. CASE r # {}
    <3>1. PICK b \in r : TRUE
      BY <2>5
    <3>2. PICK s : s = r \ {b}
      OBVIOUS
    <3>3. IsFiniteSet(s) /\ Cardinality(s) <= 1 /\ s \in SUBSET WordBits
      <4>1. IsFiniteSet(s) /\ Cardinality(s) = Cardinality(r) - 1
        BY <2>3, <3>1, <3>2, FS_RemoveElement
      <4>2. Cardinality(r) \in Nat
        BY <2>3, FS_CardinalityType
      <4>. QED
        BY <2>3, <3>2, <4>1, <4>2
    <3>4. CASE s = {}
      <4>1. e = {a, b, b} /\ a \in WordBits /\ b \in WordBits
        BY <2>1, <2>2, <2>3, <3>1, <3>2, <3>4
      <4>. QED
        BY <1>1, <4>1
    <3>5. CASE s # {}
      <4>1. Cardinality(s) = 1
        BY <3>3, <3>5, FS_EmptySet, FS_CardinalityType
      <4>2. PICK c : s = {c}
        BY <3>3, <4>1, FS_Singleton
      <4>3. e = {a, b, c} /\ a \in WordBits /\ b \in WordBits /\ c \in WordBits
        BY <2>1, <2>2, <2>3, <3>1, <3>2, <3>3, <4>2
      <4>. QED
        BY <1>1, <4>3
    <3>. QED
      BY <3>4, <3>5
  <2>. QED
    BY <2>4, <2>5
<1>. QED
  BY <1>2, <1>3

\* The frames of a window lie in it, and are two at the least.
LEMMA FramesLie ==
    ASSUME NEW rot \in WordBits
    PROVE  /\ \A k \in Frames(Length, rot) :
                  /\ k \in Nat
                  /\ \A b \in WordBits : rot + 23 * k + b \in 0 .. Length - 1
           /\ IsFiniteSet(Frames(Length, rot)) /\ Cardinality(Frames(Length, rot)) \in Nat
           /\ Cardinality(Frames(Length, rot)) >= MinWords
<1>1. rot \in 0 .. 22 /\ Length \in Nat /\ Length >= 69
  BY StreamAssumption DEF WordBits, MinWords
<1>2. PICK n \in Int : n = (Length - rot) \div 23
  BY <1>1
<1>3. 23 * n <= Length - rot /\ n >= 2
  BY <1>1, <1>2, SMTT(30)
<1>4. Frames(Length, rot) = 0 .. n - 1
  BY <1>2 DEF Frames
<1>5. ASSUME NEW k \in 0 .. n - 1, NEW b \in WordBits
      PROVE  rot + 23 * k + b \in 0 .. Length - 1
  <2>1. b \in 0 .. 22
    BY DEF WordBits
  <2>. QED
    BY <1>1, <1>3, <2>1
<1>6. IsFiniteSet(0 .. n - 1) /\ Cardinality(0 .. n - 1) = n
  <2>1. PICK m \in Int : m = n - 1
    OBVIOUS
  <2>2. IsFiniteSet(0 .. m) /\ Cardinality(0 .. m) = IF 0 > m THEN 0 ELSE m - 0 + 1
    BY FS_Interval
  <2>. QED
    BY <1>3, <2>1, <2>2
<1>. QED
  BY <1>3, <1>4, <1>5, <1>6 DEF MinWords

\* Where three bits of the stream are wrong, no more than three places of the
\* word are.
LEMMA FewPlaces ==
    ASSUME NEW rot \in WordBits, NEW flips \in SUBSET Nat, IsFiniteSet(flips), Cardinality(flips) <= 3,
           NEW e \in SUBSET WordBits, \A b \in e : \E k \in Nat : rot + 23 * k + b \in flips
    PROVE  e \in Errors
<1>. DEFINE At(b) == CHOOSE t \in flips : \E k \in Nat : t = rot + 23 * k + b
            g == [b \in e |-> At(b)]
<1>1. \A b \in e : At(b) \in flips /\ \E k \in Nat : At(b) = rot + 23 * k + b
  <2>. SUFFICES ASSUME NEW b \in e
                PROVE  At(b) \in flips /\ \E k \in Nat : At(b) = rot + 23 * k + b
    OBVIOUS
  <2>1. \E t \in flips : \E k \in Nat : t = rot + 23 * k + b
    OBVIOUS
  <2>. QED
    BY <2>1
<1>. HIDE DEF At
<1>2. ASSUME NEW a \in e, NEW b \in e, At(a) = At(b)
      PROVE  a = b
  <2>1. PICK j \in Nat : At(a) = rot + 23 * j + a
    BY <1>1
  <2>2. PICK k \in Nat : At(b) = rot + 23 * k + b
    BY <1>1
  <2>3. a \in 0 .. 22 /\ b \in 0 .. 22 /\ rot \in 0 .. 22
    BY DEF WordBits
  <2>4. 23 * j + a = 23 * k + b
    <3>1. rot + 23 * j + a = rot + 23 * k + b
      BY <1>2, <2>1, <2>2
    <3>. QED
      BY <2>3, <3>1, SMTT(30)
  <2>. QED
    BY <2>3, <2>4, SMTT(30)
<1>3. g \in Injection(e, flips)
  <2>1. g \in [e -> flips]
    BY <1>1
  <2>2. \A a, b \in e : g[a] = g[b] => a = b
    BY <1>2
  <2>. HIDE DEF g
  <2>. QED
    BY <2>1, <2>2 DEF Injection, IsInjective
<1>4. IsFiniteSet(e) /\ Cardinality(e) <= Cardinality(flips)
  <2>. HIDE DEF g
  <2>. QED
    BY <1>3, FS_Injection
<1>5. Cardinality(e) \in Nat /\ Cardinality(flips) \in Nat
  BY <1>4, FS_CardinalityType
<1>. QED
  BY <1>4, <1>5, ErrorsAre

\* A frame is the word from another place on, with the bits of it that are
\* wrong; so it decodes to what that one does.
LEMMA FrameIs ==
    ASSUME NEW word \in SUBSET WordBits, NEW from \in WordBits, NEW ones, Hears(ones, word, from),
           NEW rot \in WordBits, NEW k \in Frames(Length, rot), NEW b \in WordBits
    PROVE  b \in Frame(ones, rot, k) <=>
               ~(b \in Turned(word, rot + from) <=> rot + 23 * k + b \in Xor(Stream(word, from), ones))
<1>1. PICK t \in 0 .. Length - 1 : t = rot + 23 * k + b
  BY FramesLie
<1>2. b \in Frame(ones, rot, k) <=> t \in ones
  BY <1>1 DEF Frame
<1>3. t \in Stream(word, from) <=> b \in Turned(word, rot + from)
  <2>1. t \in Stream(word, from) <=> (t + from) % 23 \in word
    BY DEF Stream
  <2>2. b \in 0 .. 22 /\ rot \in 0 .. 22 /\ from \in 0 .. 22 /\ k \in Nat /\ rot + from \in Int
    BY FramesLie DEF WordBits
  <2>3. (t + from) % 23 = (b + (rot + from)) % 23
    BY <1>1, <2>2, SMTT(30)
  <2>4. PICK n \in Int : n = rot + from
    BY <2>2
  <2>5. b \in Turned(word, n) <=> (b + n) % 23 \in word
    BY TurnedHas
  <2>. QED
    BY <2>1, <2>3, <2>4, <2>5, Zenon
<1>4. t \in Xor(Stream(word, from), ones) <=> ~(t \in Stream(word, from) <=> t \in ones)
  BY DEF Xor
<1>. QED
  BY <1>1, <1>2, <1>3, <1>4, Zenon

\* A place of a word that is wrong in a frame, or outvoted in all of them, is
\* wrong in one of them.
LEMMA MajorityIs ==
    ASSUME NEW word \in SUBSET WordBits, NEW from \in WordBits, NEW ones, Hears(ones, word, from),
           NEW rot \in WordBits, NEW b \in WordBits,
           \A k \in Frames(Length, rot) : rot + 23 * k + b \notin Xor(Stream(word, from), ones)
    PROVE  b \in Majority(ones, rot, Frames(Length, rot)) <=> b \in Turned(word, rot + from)
<1>. DEFINE voting == {k \in Frames(Length, rot) : b \in Frame(ones, rot, k)}
<1>1. PICK frames : frames = Frames(Length, rot)
  OBVIOUS
<1>2. PICK n \in Nat : n = Cardinality(frames) /\ n >= 2
  BY <1>1, FramesLie DEF MinWords
<1>3. \A k \in Frames(Length, rot) : b \in Frame(ones, rot, k) <=> b \in Turned(word, rot + from)
  BY FrameIs
<1>4. b \in Majority(ones, rot, frames) <=> 2 * Cardinality(voting) > n
  BY <1>1, <1>2 DEF Majority
<1>5. CASE b \in Turned(word, rot + from)
  <2>1. voting = frames
    BY <1>1, <1>3, <1>5
  <2>2. Cardinality(voting) = n
    BY <1>2, <2>1, Zenon
  <2>. HIDE DEF voting
  <2>. QED
    BY <1>1, <1>2, <1>4, <1>5, <2>2
<1>6. CASE b \notin Turned(word, rot + from)
  <2>1. voting = {}
    BY <1>3, <1>6
  <2>2. Cardinality(voting) = 0
    BY <2>1, FS_EmptySet
  <2>. QED
    BY <1>1, <1>2, <1>4, <1>6, <2>2
<1>. QED
  BY <1>5, <1>6

\* All that decode_dcs() decodes from one place on, it reads as that word.
LEMMA ReadAlike ==
    ASSUME NEW word \in SUBSET WordBits, NEW from \in WordBits, NEW ones, Hears(ones, word, from),
           NEW rot \in WordBits, ModG(Turned(word, rot + from)) = {}
    PROVE  /\ \A k \in Frames(Length, rot) :
                  Decode(Frame(ones, rot, k)) = Decode(Turned(word, rot + from))
           /\ Decode(Majority(ones, rot, Frames(Length, rot))) = Decode(Turned(word, rot + from))
<1>1. PICK turned : turned = Turned(word, rot + from)
  OBVIOUS
<1>2. PICK flips : flips = Xor(Stream(word, from), ones)
  OBVIOUS
<1>3. flips \in SUBSET Nat /\ IsFiniteSet(flips) /\ Cardinality(flips) <= 3
  BY <1>2, StreamAssumption DEF Hears
<1>4. turned \in SUBSET WordBits
  <2>1. rot + from \in Int
    BY DEF WordBits
  <2>. QED
    BY <1>1, <2>1, TurnedWord
<1>5. ASSUME NEW v \in SUBSET WordBits,
             \A b \in WordBits : ~(b \in v <=> b \in turned) => \E k \in Nat : rot + 23 * k + b \in flips
      PROVE  Decode(v) = Decode(turned)
  <2>1. PICK e : e = Xor(turned, v)
    OBVIOUS
  <2>2. v = Xor(turned, e)
    BY <2>1, Zenon DEF Xor
  <2>3. e \in SUBSET WordBits
    BY <1>4, <2>1 DEF Xor
  <2>4. \A b \in e : \E k \in Nat : rot + 23 * k + b \in flips
    <3>1. \A b \in e : b \in WordBits /\ ~(b \in v <=> b \in turned)
      BY <2>1, <2>3 DEF Xor
    <3>. QED
      BY <1>5, <3>1
  <2>5. e \in Errors
    BY <1>3, <2>3, <2>4, FewPlaces
  <2>. QED
    BY <1>1, <2>2, <2>5, Corrects
<1>6. \A k \in Frames(Length, rot) : k \in Nat
  BY FramesLie
<1>7. ASSUME NEW k \in Frames(Length, rot)
      PROVE  Decode(Frame(ones, rot, k)) = Decode(turned)
  <2>1. Frame(ones, rot, k) \in SUBSET WordBits
    BY DEF Frame
  <2>2. \A b \in WordBits : ~(b \in Frame(ones, rot, k) <=> b \in turned) => rot + 23 * k + b \in flips
    BY <1>1, <1>2, FrameIs
  <2>. QED
    BY <1>5, <1>6, <2>1, <2>2
<1>8. Decode(Majority(ones, rot, Frames(Length, rot))) = Decode(turned)
  <2>1. PICK v : v = Majority(ones, rot, Frames(Length, rot))
    OBVIOUS
  <2>2. v \in SUBSET WordBits
    BY <2>1 DEF Majority
  <2>3. \A b \in WordBits : ~(b \in v <=> b \in turned) =>
            \E k \in Frames(Length, rot) : rot + 23 * k + b \in flips
    BY <1>1, <1>2, <2>1, MajorityIs
  <2>4. Decode(v) = Decode(turned)
    BY <1>5, <1>6, <2>2, <2>3
  <2>. QED
    BY <2>1, <2>4
<1>. QED
  BY <1>1, <1>7, <1>8

\* Frames that are all read as one code have it for their winner.
LEMMA WinnerOfOne ==
    ASSUME NEW frames \in SUBSET Nat, frames # {}, IsFiniteSet(frames), NEW read, NEW codes,
           \A k \in frames : codes[k] = read
    PROVE  /\ Winner(codes, frames) = read
           /\ Votes(codes, frames, read) = Cardinality(frames)
<1>1. Votes(codes, frames, read) = Cardinality(frames)
  <2>1. {k \in frames : codes[k] = read} = frames
    OBVIOUS
  <2>. QED
    BY <2>1, Zenon DEF Votes
<1>2. Cardinality(frames) \in Nat
  BY FS_CardinalityType
<1>3. CASE read = NoCode
  <2>1. {k \in frames : codes[k] # NoCode} = {}
    BY <1>3
  <2>. QED
    BY <1>1, <1>3, <2>1 DEF Winner
<1>4. CASE read # NoCode
  <2>1. {k \in frames : codes[k] # NoCode} = frames
    BY <1>4
  <2>2. \A j, k \in frames : Votes(codes, frames, codes[j]) <= Votes(codes, frames, codes[k])
    BY <1>1, <1>2
  <2>3. {k \in frames : \A j \in frames :
            Votes(codes, frames, codes[j]) <= Votes(codes, frames, codes[k])} = frames
    BY <2>2
  <2>4. Winner(codes, frames) = codes[Min(frames)]
    BY <2>1, <2>3, Zenon DEF Winner
  <2>5. Min(frames) \in frames
    BY MinOfNaturals
  <2>. QED
    BY <1>1, <2>4, <2>5
<1>. QED
  BY <1>3, <1>4

\* The code that frames are read as, if they agree on one
ReadTogether(ones, rot, frames, codes) ==
    {read \in {Winner(codes, frames)} :
        /\ Cardinality(frames) >= MinWords
        /\ read # NoCode
        /\ Votes(codes, frames, read) >= MinWords
        /\ Decode(Majority(ones, rot, frames)) = read}

LEMMA FoundAtIs ==
    ASSUME NEW word \in SUBSET WordBits, NEW from \in WordBits, NEW ones, Hears(ones, word, from),
           NEW rot \in WordBits, ModG(Turned(word, rot + from)) = {}
    PROVE  \A c : c \in FoundAt(ones, Length, rot) <=>
               c # NoCode /\ c = Decode(Turned(word, rot + from))
<1>1. PICK read : read = Decode(Turned(word, rot + from))
  OBVIOUS
<1>2. PICK frames : frames = Frames(Length, rot)
  OBVIOUS
<1>3. /\ frames \in SUBSET Nat /\ IsFiniteSet(frames)
      /\ Cardinality(frames) \in Nat /\ Cardinality(frames) >= MinWords
  BY <1>2, FramesLie
<1>4. frames # {}
  BY <1>3, FS_EmptySet DEF MinWords
<1>5. PICK codes : codes = [k \in frames |-> Decode(Frame(ones, rot, k))]
  OBVIOUS
<1>6. \A k \in frames : codes[k] = read
  BY <1>1, <1>2, <1>5, ReadAlike
<1>7. Winner(codes, frames) = read /\ Votes(codes, frames, read) >= MinWords
  BY <1>3, <1>4, <1>6, WinnerOfOne
<1>8. Decode(Majority(ones, rot, frames)) = read
  BY <1>1, <1>2, ReadAlike
<1>9. FoundAt(ones, Length, rot) = ReadTogether(ones, rot, frames, codes)
  <2>1. FoundAt(ones, Length, rot) = UNION {ReadTogether(ones, rot, Frames(Length, rot), s) :
               s \in {[k \in Frames(Length, rot) |-> Decode(Frame(ones, rot, k))]}}
    BY Zenon DEF FoundAt, ReadTogether
  <2>2. codes = [k \in Frames(Length, rot) |-> Decode(Frame(ones, rot, k))]
    BY <1>2, <1>5, Zenon
  <2>3. FoundAt(ones, Length, rot) = UNION {ReadTogether(ones, rot, frames, s) : s \in {codes}}
    BY <1>2, <2>1, <2>2, Zenon
  <2>. QED
    BY <2>3, Zenon
<1>10. \A c : c \in ReadTogether(ones, rot, frames, codes) <=>
            /\ c = read /\ c # NoCode
            /\ Cardinality(frames) >= MinWords /\ Votes(codes, frames, c) >= MinWords
  BY <1>7, <1>8, Zenon DEF ReadTogether
<1>. QED
  BY <1>1, <1>3, <1>7, <1>9, <1>10

\* What is found is what the word can be read as, as it comes.
LEMMA FoundIs ==
    ASSUME NEW word \in SUBSET WordBits, NEW from \in WordBits, NEW ones, Hears(ones, word, from),
           \A v \in Rotations(word) : ModG(v) = {}
    PROVE  \A c : c \in Found(ones, Length) <=> <<c, "N">> \in Readings(word)
<1>1. \A rot \in WordBits : rot + from \in Int
  BY DEF WordBits
<1>2. \A rot \in WordBits : /\ Turned(word, rot + from) \in Rotations(word)
                            /\ Turned(word, rot + from) \in SUBSET WordBits
                            /\ ModG(Turned(word, rot + from)) = {}
  <2>. SUFFICES ASSUME NEW rot \in WordBits
                PROVE  /\ Turned(word, rot + from) \in Rotations(word)
                       /\ Turned(word, rot + from) \in SUBSET WordBits
                       /\ ModG(Turned(word, rot + from)) = {}
    OBVIOUS
  <2>1. PICK n \in Int : n = rot + from
    BY <1>1
  <2>2. Turned(word, n) \in Rotations(word) /\ Turned(word, n) \in SUBSET WordBits
    BY RotationsAre, TurnedWord
  <2>. QED
    BY <2>1, <2>2
<1>3. \A rot \in WordBits : \A c : c \in FoundAt(ones, Length, rot) <=>
            c # NoCode /\ c = Decode(Turned(word, rot + from))
  BY <1>2, FoundAtIs
<1>4. \A c : c \in Found(ones, Length) <=> \E rot \in WordBits : c \in FoundAt(ones, Length, rot)
  BY Zenon DEF Found
<1>5. ASSUME NEW c, NEW rot \in WordBits, c \in FoundAt(ones, Length, rot)
      PROVE  <<c, "N">> \in Readings(word)
  <2>1. PICK v : v = Turned(word, rot + from)
    OBVIOUS
  <2>2. v \in Rotations(word) /\ v \in SUBSET WordBits /\ ModG(v) = {}
    BY <1>2, <2>1
  <2>3. c # NoCode /\ c = Decode(v)
    BY <1>3, <1>5, <2>1
  <2>4. c \in StandardCodes /\ v = Encode(c)
    BY <2>2, <2>3, DecodedIsEncoded
  <2>5. word \in Rotations(Encode(c))
    BY <2>2, <2>4, OneWaveform
  <2>. QED
    BY <2>4, <2>5, ReadingsAre, AirWord
<1>6. ASSUME NEW c, <<c, "N">> \in Readings(word)
      PROVE  \E rot \in WordBits : c \in FoundAt(ones, Length, rot)
  <2>1. c \in StandardCodes /\ word \in Rotations(Encode(c))
    BY <1>6, ReadingsAre, AirWord
  <2>2. Encode(c) \in SUBSET WordBits /\ Decode(Encode(c)) = c
    BY <2>1, EncodedWord
  <2>3. Encode(c) \in Rotations(word)
    BY <2>1, <2>2, OneWaveform
  <2>4. PICK m \in Int : Encode(c) = Turned(word, m)
    BY <2>3, RotationsAre
  <2>5. PICK rot \in WordBits : (rot + from) % 23 = m % 23
    <3>1. (m - from) % 23 \in WordBits
      BY DEF WordBits
    <3>2. (((m - from) % 23) + from) % 23 = m % 23
      BY SMTT(30) DEF WordBits
    <3>. QED
      BY <3>1, <3>2
  <2>6. Turned(word, rot + from) = Encode(c)
    <3>1. PICK n \in Int : n = rot + from
      BY <1>1
    <3>2. Turned(word, n % 23) = Turned(word, n) /\ Turned(word, m % 23) = Turned(word, m)
      BY TurnedTwice
    <3>. QED
      BY <2>4, <2>5, <3>1, <3>2, Zenon
  <2>7. c # NoCode
    BY <2>1 DEF NoCode, StandardCodes
  <2>. QED
    BY <1>3, <2>2, <2>6, <2>7
<1>. QED
  BY <1>4, <1>5, <1>6, Zenon

\* A code on the air is read as itself or, inverted, as its pair.
LEMMA DecodedIs ==
    ASSUME NEW c \in StandardCodes, NEW p \in {"N", "I"}, NEW from \in WordBits, NEW ones,
           Hears(ones, OnAir(c, p), from), NEW d, d = IF p = "N" THEN c ELSE InvertedPair(c)
    PROVE  DecodeDcs(ones, Length) = d
<1>1. PICK word : word = OnAir(c, p)
  OBVIOUS
<1>2. PICK q \in {"N", "I"} : OnAir(c, q) = Inverted(word)
  BY <1>1, AirWord
<1>3. word \in SUBSET WordBits /\ Inverted(word) \in SUBSET WordBits
  BY <1>1, AirWord, InvertedWaveform
<1>4. \A r \in {"N", "I"} : \A v \in Rotations(OnAir(c, r)) : ModG(v) = {}
  <2>1. Encode(c) \in SUBSET WordBits /\ ModG(Encode(c)) = {}
    BY EncodedWord
  <2>2. Inverted(Encode(c)) \in SUBSET WordBits /\ ModG(Inverted(Encode(c))) = {}
    BY <2>1, Cyclic, InvertedWaveform
  <2>3. \A v \in Rotations(Encode(c)) : ModG(v) = {}
    BY <2>1, Cyclic
  <2>4. \A v \in Rotations(Inverted(Encode(c))) : ModG(v) = {}
    BY <2>2, Cyclic
  <2>. QED
    BY <2>3, <2>4, AirWord
<1>5. d \in StandardCodes /\ Readings(word) = {<<d, "N">>, <<InvertedPair(d), "I">>}
  BY <1>1, AirReadings
<1>6. "N" # "I"
  OBVIOUS
<1>7. Found(ones, Length) = {d}
  <2>1. \A x : x \in Found(ones, Length) <=> <<x, "N">> \in Readings(word)
    BY <1>1, <1>3, <1>4, FoundIs
  <2>2. \A x : <<x, "N">> \in Readings(word) <=> x = d
    BY <1>5, <1>6
  <2>. QED
    BY <2>1, <2>2
<1>8. Found((0 .. Length - 1) \ ones, Length) = {InvertedPair(d)}
  <2>1. PICK turned : turned = (0 .. Length - 1) \ ones
    OBVIOUS
  <2>2. Hears(turned, Inverted(word), from)
    BY <1>1, <1>3, <2>1, HearsInverted
  <2>3. \A v \in Rotations(Inverted(word)) : ModG(v) = {}
    BY <1>2, <1>4
  <2>4. \A x : x \in Found(turned, Length) <=> <<x, "N">> \in Readings(Inverted(word))
    BY <1>3, <2>2, <2>3, FoundIs
  <2>5. \A x : <<x, "N">> \in Readings(Inverted(word)) <=> <<x, "I">> \in Readings(word)
    BY <1>3, InvertedReadings
  <2>6. \A x : <<x, "I">> \in Readings(word) <=> x = InvertedPair(d)
    BY <1>5, <1>6
  <2>7. Found(turned, Length) = {InvertedPair(d)}
    BY <2>4, <2>5, <2>6
  <2>. QED
    BY <2>1, <2>7
<1>9. PICK read : read = Certain(Found(ones, Length), Found((0 .. Length - 1) \ ones, Length))
  OBVIOUS
<1>10. read = {d}
  BY <1>7, <1>8, <1>9 DEF Certain
<1>11. DecodeDcs(ones, Length) = IF read = {} THEN NoCode ELSE CHOOSE x \in read : TRUE
  BY <1>9 DEF DecodeDcs
<1>. QED
  BY <1>10, <1>11

-----------------------------------------------------------------------------
(* DCS 023: the word the table has for it is the one that was heard.       *)

LEMMA HeardIsCode23 == Encode(23) = HeardOffAir
<1>1. 23 \in StandardCodes
  BY DEF StandardCodes
<1>2. BitsOf(23) = {0, 1, 4}
  <2>1. Octal(23) = 19
    BY DEF Octal
  <2>2. /\ 2 ^ 0 = 1 /\ 2 ^ 1 = 2 /\ 2 ^ 2 = 4 /\ 2 ^ 3 = 8 /\ 2 ^ 4 = 16
        /\ 2 ^ 5 = 32 /\ 2 ^ 6 = 64 /\ 2 ^ 7 = 128 /\ 2 ^ 8 = 256
    OBVIOUS
  <2>3. \A b \in 0 .. 8 : (19 \div 2 ^ b) % 2 = 1 <=> b \in {0, 1, 4}
    <3>. SUFFICES ASSUME NEW b \in 0 .. 8
                  PROVE  (19 \div 2 ^ b) % 2 = 1 <=> b \in {0, 1, 4}
      OBVIOUS
    <3>1. PICK power : power = 2 ^ b
      OBVIOUS
    <3>2. b = 0 => power = 1
      BY <2>2, <3>1
    <3>3. b = 1 => power = 2
      BY <2>2, <3>1
    <3>4. b = 2 => power = 4
      BY <2>2, <3>1
    <3>5. b = 3 => power = 8
      BY <2>2, <3>1
    <3>6. b = 4 => power = 16
      BY <2>2, <3>1
    <3>7. b = 5 => power = 32
      BY <2>2, <3>1
    <3>8. b = 6 => power = 64
      BY <2>2, <3>1
    <3>9. b = 7 => power = 128
      BY <2>2, <3>1
    <3>10. b = 8 => power = 256
      BY <2>2, <3>1
    <3>11. (19 \div power) % 2 = 1 <=> b \in {0, 1, 4}
      BY <3>2, <3>3, <3>4, <3>5, <3>6, <3>7, <3>8, <3>9, <3>10, SMTT(30)
    <3>. QED
      BY <3>1, <3>11, Zenon
  <2>4. PICK bits : bits = BitsOf(23)
    OBVIOUS
  <2>5. \A b : b \in bits <=> b \in 0 .. 8 /\ (19 \div 2 ^ b) % 2 = 1
    BY <2>1, <2>4, Zenon DEF BitsOf
  <2>6. \A b : b \in bits <=> b \in 0 .. 8 /\ b \in {0, 1, 4}
    BY <2>3, <2>5, Zenon
  <2>7. bits = {0, 1, 4}
    BY <2>6
  <2>. QED
    BY <2>4, <2>7
<1>3. Data(HeardOffAir) = {11, 4, 1, 0}
  BY DEF Data, HeardOffAir
<1>4. ModG(HeardOffAir) = {}
  <2>1. PICK f : /\ f[0] = HeardOffAir /\ f[12] = ModG(HeardOffAir)
                 /\ \A k \in 0 .. 11 : f[k + 1] = Cancel(f[k], 22 - k)
    BY ModGIs
  <2>2. \A n \in Nat : Shifted(GolayPoly, n) = {n + 11, n + 10, n + 6, n + 5, n + 4, n + 2, n}
    BY DEF Shifted, GolayPoly
  <2>3. f[1] = {21, 17, 16, 13, 12, 10, 9, 8, 6, 5, 1, 0}
    <3>1. f[0 + 1] = Cancel(f[0], 22 - 0)
      BY <2>1
    <3>2. Shifted(GolayPoly, 22 - 11) = {22, 21, 17, 16, 15, 13, 11}
      BY <2>2
    <3>3. Xor({22, 15, 12, 11, 10, 9, 8, 6, 5, 1, 0},
              {22, 21, 17, 16, 15, 13, 11}) = {21, 17, 16, 13, 12, 10, 9, 8, 6, 5, 1, 0}
      BY DEF Xor
    <3>. QED
      BY <2>1, <3>1, <3>2, <3>3 DEF Cancel, HeardOffAir
  <2>4. f[2] = {20, 17, 15, 14, 13, 9, 8, 6, 5, 1, 0}
    <3>1. f[1 + 1] = Cancel(f[1], 22 - 1)
      BY <2>1
    <3>2. Shifted(GolayPoly, 21 - 11) = {21, 20, 16, 15, 14, 12, 10}
      BY <2>2
    <3>3. Xor({21, 17, 16, 13, 12, 10, 9, 8, 6, 5, 1, 0},
              {21, 20, 16, 15, 14, 12, 10}) = {20, 17, 15, 14, 13, 9, 8, 6, 5, 1, 0}
      BY DEF Xor
    <3>. QED
      BY <2>3, <3>1, <3>2, <3>3 DEF Cancel
  <2>5. f[3] = {19, 17, 11, 8, 6, 5, 1, 0}
    <3>1. f[2 + 1] = Cancel(f[2], 22 - 2)
      BY <2>1
    <3>2. Shifted(GolayPoly, 20 - 11) = {20, 19, 15, 14, 13, 11, 9}
      BY <2>2
    <3>3. Xor({20, 17, 15, 14, 13, 9, 8, 6, 5, 1, 0},
              {20, 19, 15, 14, 13, 11, 9}) = {19, 17, 11, 8, 6, 5, 1, 0}
      BY DEF Xor
    <3>. QED
      BY <2>4, <3>1, <3>2, <3>3 DEF Cancel
  <2>6. f[4] = {18, 17, 14, 13, 12, 11, 10, 6, 5, 1, 0}
    <3>1. f[3 + 1] = Cancel(f[3], 22 - 3)
      BY <2>1
    <3>2. Shifted(GolayPoly, 19 - 11) = {19, 18, 14, 13, 12, 10, 8}
      BY <2>2
    <3>3. Xor({19, 17, 11, 8, 6, 5, 1, 0},
              {19, 18, 14, 13, 12, 10, 8}) = {18, 17, 14, 13, 12, 11, 10, 6, 5, 1, 0}
      BY DEF Xor
    <3>. QED
      BY <2>5, <3>1, <3>2, <3>3 DEF Cancel
  <2>7. f[5] = {14, 10, 9, 7, 6, 5, 1, 0}
    <3>1. f[4 + 1] = Cancel(f[4], 22 - 4)
      BY <2>1
    <3>2. Shifted(GolayPoly, 18 - 11) = {18, 17, 13, 12, 11, 9, 7}
      BY <2>2
    <3>3. Xor({18, 17, 14, 13, 12, 11, 10, 6, 5, 1, 0},
              {18, 17, 13, 12, 11, 9, 7}) = {14, 10, 9, 7, 6, 5, 1, 0}
      BY DEF Xor
    <3>. QED
      BY <2>6, <3>1, <3>2, <3>3 DEF Cancel
  <2>8. f[6] = {14, 10, 9, 7, 6, 5, 1, 0}
    <3>1. f[5 + 1] = Cancel(f[5], 22 - 5)
      BY <2>1
    <3>. QED
      BY <2>7, <3>1 DEF Cancel
  <2>9. f[7] = {14, 10, 9, 7, 6, 5, 1, 0}
    <3>1. f[6 + 1] = Cancel(f[6], 22 - 6)
      BY <2>1
    <3>. QED
      BY <2>8, <3>1 DEF Cancel
  <2>10. f[8] = {14, 10, 9, 7, 6, 5, 1, 0}
    <3>1. f[7 + 1] = Cancel(f[7], 22 - 7)
      BY <2>1
    <3>. QED
      BY <2>9, <3>1 DEF Cancel
  <2>11. f[9] = {13, 10, 8, 6, 3, 1, 0}
    <3>1. f[8 + 1] = Cancel(f[8], 22 - 8)
      BY <2>1
    <3>2. Shifted(GolayPoly, 14 - 11) = {14, 13, 9, 8, 7, 5, 3}
      BY <2>2
    <3>3. Xor({14, 10, 9, 7, 6, 5, 1, 0},
              {14, 13, 9, 8, 7, 5, 3}) = {13, 10, 8, 6, 3, 1, 0}
      BY DEF Xor
    <3>. QED
      BY <2>10, <3>1, <3>2, <3>3 DEF Cancel
  <2>12. f[10] = {12, 10, 7, 4, 3, 2, 1, 0}
    <3>1. f[9 + 1] = Cancel(f[9], 22 - 9)
      BY <2>1
    <3>2. Shifted(GolayPoly, 13 - 11) = {13, 12, 8, 7, 6, 4, 2}
      BY <2>2
    <3>3. Xor({13, 10, 8, 6, 3, 1, 0},
              {13, 12, 8, 7, 6, 4, 2}) = {12, 10, 7, 4, 3, 2, 1, 0}
      BY DEF Xor
    <3>. QED
      BY <2>11, <3>1, <3>2, <3>3 DEF Cancel
  <2>13. f[11] = {11, 10, 6, 5, 4, 2, 0}
    <3>1. f[10 + 1] = Cancel(f[10], 22 - 10)
      BY <2>1
    <3>2. Shifted(GolayPoly, 12 - 11) = {12, 11, 7, 6, 5, 3, 1}
      BY <2>2
    <3>3. Xor({12, 10, 7, 4, 3, 2, 1, 0},
              {12, 11, 7, 6, 5, 3, 1}) = {11, 10, 6, 5, 4, 2, 0}
      BY DEF Xor
    <3>. QED
      BY <2>12, <3>1, <3>2, <3>3 DEF Cancel
  <2>14. f[12] = {}
    <3>1. f[11 + 1] = Cancel(f[11], 22 - 11)
      BY <2>1
    <3>2. Shifted(GolayPoly, 11 - 11) = {11, 10, 6, 5, 4, 2, 0}
      BY <2>2
    <3>3. Xor({11, 10, 6, 5, 4, 2, 0},
              {11, 10, 6, 5, 4, 2, 0}) = {}
      BY DEF Xor
    <3>. QED
      BY <2>13, <3>1, <3>2, <3>3 DEF Cancel
  <2>. QED
    BY <2>1, <2>14
<1>5. HeardOffAir \in SUBSET WordBits
  BY DEF HeardOffAir, WordBits
<1>6. Data(Encode(23)) = Data(HeardOffAir)
  BY <1>1, <1>2, <1>3, EncodedWord DEF FixedTriple
<1>. QED
  BY <1>1, <1>4, <1>5, <1>6, EncodedWord, SameData

LEMMA RightIsNormal == StreamRight => ReadsNormal
<1>. SUFFICES ASSUME StreamRight, code # NoCode, NEW found, found = DecodeDcs(received, Length),
                     NEW filed, filed = Analysis("long", ShareDev, WordDev, found)
              PROVE  /\ filed.dcs = Normal /\ ToneState(filed) = "dcs"
                     /\ OnAir(23, "N") = HeardOffAir
  BY Zenon DEF ReadsNormal
<1>1. code \in StandardCodes /\ polarity \in {"N", "I"}
  BY DEF StreamRight
<1>2. PICK from \in WordBits : sent = Stream(OnAir(code, polarity), from)
  BY DEF StreamRight
<1>3. Hears(received, OnAir(code, polarity), from)
  <2>1. PICK flips : flips = Xor(sent, received)
    OBVIOUS
  <2>2. flips \in SUBSET (0 .. Length - 1) /\ Cardinality(flips) <= MaxFlips
    BY <2>1 DEF StreamRight
  <2>3. IsFiniteSet(flips)
    <3>1. IsFiniteSet(0 .. Length - 1)
      BY FS_Interval, StreamAssumption
    <3>. QED
      BY <2>2, <3>1, FS_Subset
  <2>4. Cardinality(flips) <= 3
    BY <2>2, <2>3, FS_CardinalityType, StreamAssumption
  <2>5. received \in SUBSET (0 .. Length - 1)
    BY DEF StreamRight
  <2>. QED
    BY <1>2, <2>1, <2>2, <2>3, <2>4, <2>5, Zenon DEF Hears
<1>4. found = Normal
  BY <1>1, <1>2, <1>3, DecodedIs, Zenon DEF Normal
<1>5. filed.dcs = found /\ ToneState(filed) = "dcs"
  <2>1. Suspected(ShareDev, WordDev) /\ ShareDev \in Nat /\ WordDev \in Nat
    BY DEF Suspected, IsTone, ShareDev, WordDev
  <2>. QED
    BY <2>1, FiledByRatio
<1>6. OnAir(23, "N") = HeardOffAir
  <2>1. 23 \in StandardCodes
    BY DEF StandardCodes
  <2>. QED
    BY <2>1, AirWord, HeardIsCode23
<1>. QED
  BY <1>4, <1>5, <1>6

\* A code is read as itself, or as its pair when it is sent inverted, and is
\* filed as that, wherever in the word the window begins, however long it is,
\* and whichever three of its bits are received wrong.
THEOREM ReadAsNormal == Spec => []ReadsNormal
<1>. QED
  BY StreamIsRight, RightIsNormal, PTL
=============================================================================
