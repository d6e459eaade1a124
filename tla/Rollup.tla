------------------------------- MODULE Rollup -------------------------------
(***************************************************************************)
(* src/enrich.py, the decisions: which channel an event belongs to, what   *)
(* the events of one channel say of it together, which channels are a      *)
(* repeater and its input, and how near a channel is to being used.        *)
(* Enrich has the passes that take them.                                   *)
(*                                                                         *)
(* An event is a record: id, freq, t (when it began), tone, ctcss, dcs,    *)
(* dev and snr, of which the last four may be None.                        *)
(***************************************************************************)
EXTENDS BandPlan, FiniteSets

CONSTANTS
    FreqBin,        \* FREQ_BIN_HZ
    Tones,          \* the CTCSS tones and DCS words, in the order str() puts them in
    DeviationLimit, \* DEVIATION_LIMIT_HZ: a function of some of the bandwidths
    Margin,         \* DEV_EVIDENCE_MARGIN_HZ
    MinMeasured,    \* DEV_MIN_EVIDENCE
    MinSnr,         \* DEV_MIN_SNR_DB
    Plan,           \* the table band_plan
    MaxLag,         \* PAIR_MAX_LAG_S
    MinPaired,      \* PAIR_MIN_EVIDENCE
    Licences        \* the services the operator may transmit on

None == -1

\* The seeded plan: rows that match a frequency best are of one kind and
\* center, at the center of a channel that one; a channel is narrower than any
\* segment, and its window wider than half a bin on both sides.
ASSUME PlanAssumption ==
    /\ FreqBin \in Nat \ {0}
    /\ IsFiniteSet(Plan)
    /\ DOMAIN Services \subseteq Nat
    /\ \A i, j \in DOMAIN Services : Services[i] = Services[j] => i = j
    /\ \A r \in Plan :
          /\ {r.lo, r.hi} \subseteq Nat /\ r.lo <= r.hi
          /\ r.licensed \in BOOLEAN
          /\ \E i \in DOMAIN Services : Services[i] = r.service
          /\ \A f \in r.lo .. r.hi : \A s, t \in TiedBest(Plan, f) : s.center = t.center
          /\ \/ r.kind = "segment" /\ r.center = NoCenter
             \/ /\ r.kind = "channel" /\ r.center \in Nat
                /\ 2 * r.lo + FreqBin <= 2 * r.center /\ 2 * r.center + FreqBin <= 2 * r.hi
                /\ \A s \in Plan : s.kind = "segment" => Width(r) < Width(s)
                /\ \A s \in TiedBest(Plan, r.center) : s.center = r.center

-----------------------------------------------------------------------------
(* _channel_key() *)

\* round(f / FREQ_BIN_HZ) * FREQ_BIN_HZ, where round() takes a half to even
Binned(f) ==
    LET q == f \div FreqBin
        r == f % FreqBin
        up == 2 * r > FreqBin \/ (2 * r = FreqBin /\ q % 2 = 1)
    IN FreqBin * (IF up THEN q + 1 ELSE q)

ChannelKey(f) ==
    LET tied == TiedBest(Plan, f)
    IN IF tied # {} /\ First(tied, f).kind = "channel" THEN First(tied, f).center ELSE Binned(f)

-----------------------------------------------------------------------------
(* What a set of events says of a field. *)

\* The k-th smallest value: the least with k or more values up to it
Ranked(evs, field, k) ==
    LET upTo(e) == {d \in evs : d[field] <= e[field]}
    IN Min({e[field] : e \in {d \in evs : k <= Cardinality(upTo(d))}})

\* statistics.median(), which may be a half: twice it
TwiceMedian(evs, field) ==
    LET n == Cardinality(evs)
    IN Ranked(evs, field, (n + 1) \div 2) + Ranked(evs, field, n \div 2 + 1)

\* Mutant: measured at any signal strength
UsableAny(evs) == {e \in evs : e.dev # None}

Usable(evs) == {e \in evs : e.dev # None /\ e.snr # None /\ e.snr >= MinSnr}

\* _narrow_by_deviation()
LimitOf(r) == IF r.bw \in DOMAIN DeviationLimit THEN DeviationLimit[r.bw] ELSE None

Limits(tied) == {LimitOf(r) : r \in tied} \ {None}

WithinLimit(tied, evs) ==
    {r \in tied : \/ LimitOf(r) = None
                  \/ TwiceMedian(Usable(evs), "dev") <= 2 * (LimitOf(r) + Margin)}

NarrowByDeviation(tied, evs) ==
    IF \/ Cardinality(tied) < 2
       \/ Cardinality(Limits(tied)) < 2
       \/ Cardinality(Usable(evs)) < MinMeasured
       \/ WithinLimit(tied, evs) = {}
    THEN tied ELSE WithinLimit(tied, evs)

Count(evs, field, v) == Cardinality({e \in evs : e[field] = v})

\* _modal(): the most common value, of two equally common the first in Order
Modal(evs, field, Order) ==
    LET before(v, w) == \E i, j \in DOMAIN Order : i < j /\ Order[i] = v /\ Order[j] = w
        values == {e[field] : e \in evs}
    IN CHOOSE v \in values : \A w \in values \ {v} :
          \/ Count(evs, field, v) > Count(evs, field, w)
          \/ Count(evs, field, v) = Count(evs, field, w) /\ before(v, w)

\* Mutant: what more than half say
AgreedMost(n, m) == 10 * n > 5 * m

\* min_agreement: n of m events agree
Agreed(n, m) == 10 * n >= 8 * m

-----------------------------------------------------------------------------
(* rollup(): one row for the events of a key *)

ToneStates == <<"ctcss", "dcs", "none">>

Unknown == [tone |-> "unknown", ctcss |-> None, dcs |-> None]

Tone(evs) ==
    LET known == {e \in evs : e.tone # "unknown"}
        tones == {e \in evs : e.ctcss # None}
        words == {e \in evs : e.dcs # None}
        state == Modal(known, "tone", ToneStates)
        tone == Modal(tones, "ctcss", Tones)
        word == Modal(words, "dcs", Tones)
    IN IF known = {} \/ ~Agreed(Count(known, "tone", state), Cardinality(known)) THEN Unknown
       ELSE CASE state = "none" -> [Unknown EXCEPT !.tone = state]
              [] state = "ctcss" ->
                   IF Agreed(Count(tones, "ctcss", tone), Cardinality(tones))
                   THEN [Unknown EXCEPT !.tone = state, !.ctcss = tone] ELSE Unknown
              [] state = "dcs" ->
                   IF words = {} THEN [Unknown EXCEPT !.tone = state]
                   ELSE IF Agreed(Count(words, "dcs", word), Cardinality(words))
                        THEN [Unknown EXCEPT !.tone = state, !.dcs = word] ELSE Unknown

NoPlan == [kind |-> "none"]

Narrowness(e) == Width(First(TiedBest(Plan, e.freq), e.freq))

\* The events of a key that match the plan most closely; what the first of
\* them matches is taken for all of the key.
Closest(evs) ==
    LET matched == {e \in evs : Lookup(Plan, e.freq) # {}}
    IN {e \in matched : \A d \in matched : Narrowness(e) <= Narrowness(d)}

Entry(evs) ==
    LET closest == Closest(evs)
        witness == CHOOSE e \in closest : \A d \in closest : e.id <= d.id
    IN IF closest = {} THEN NoPlan
       ELSE First(NarrowByDeviation(TiedBest(Plan, witness.freq), evs), witness.freq)

Row(evs) ==
    LET entry == Entry(evs)
    IN [freq |-> IF entry.kind = "channel" THEN entry.center ELSE TwiceMedian(evs, "freq") \div 2,
        plan |-> entry,
        heard |-> Tone(evs),
        measured |-> Usable(evs) # {},
        count |-> Cardinality(evs)]

-----------------------------------------------------------------------------
(* pair() and score() *)

Follows(o, ins) == \E i \in ins : Distance(i.t, o.t) <= MaxLag

Paired(outs, ins) ==
    LET lags == Cardinality({o \in outs : Follows(o, ins)})
    IN /\ Cardinality(outs) >= MinPaired
       /\ lags >= MinPaired
       /\ 2 * lags >= Cardinality(outs)

Programmable(heard) ==
    \/ heard.tone = "none"
    \/ heard.tone = "ctcss" /\ heard.ctcss # None
    \/ heard.tone = "dcs" /\ heard.dcs # None

\* paired: the row has a repeater input
Tier(row, paired) ==
    LET output == row.plan # NoPlan /\ row.plan.rpt
        mine == row.plan # NoPlan /\ (~row.plan.licensed \/ row.plan.service \in Licences)
    IN IF ~row.measured THEN 0
       ELSE IF row.heard.tone = "unknown" THEN 1
       ELSE IF ~Programmable(row.heard) \/ (output /\ ~paired) THEN 2
       ELSE IF ~mine THEN 3 ELSE 4
=============================================================================
