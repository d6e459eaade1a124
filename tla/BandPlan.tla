------------------------------ MODULE BandPlan ------------------------------
(***************************************************************************)
(* The band plan: how tools/seed_band_plan.py gives each channel the       *)
(* window of frequencies that are taken for it, and how src/bandplan.py    *)
(* looks a measured frequency up.  A row of the table is a record; a       *)
(* channel has a nominal center, a segment has none.                       *)
(***************************************************************************)
EXTENDS Integers, Sequences, FiniteSetsExt

CONSTANT
    Services        \* the services, in the alphabetical order of their names

NoCenter == -1       \* NULL, for a segment

Distance(f, g) == IF f < g THEN g - f ELSE f - g

-----------------------------------------------------------------------------
(* seed_band_plan.add_windows(): chans is a set of channels, which have a  *)
(* service, a center and an authorised bandwidth bw.                       *)

Peers(chans, c) == {p \in chans : p.service = c.service /\ p # c}

\* The seeder refuses two channels of a service on one frequency.
Refused(chans) == \E c \in chans : \E p \in Peers(chans, c) : p.center = c.center

Gaps(chans, c) == {Distance(p.center, c.center) : p \in Peers(chans, c)}

HalfWindow(chans, c) == Min({c.bw \div 2} \cup {g \div 2 : g \in Gaps(chans, c)})

\* Both ends of a window are inclusive.
LowEnd(chans, c) == c.center - HalfWindow(chans, c)

\* Mutant: the upper end is not one short
HighEndFull(chans, c) == c.center + HalfWindow(chans, c)

HighEnd(chans, c) == c.center + HalfWindow(chans, c) - 1

Claims(chans, c, f) == LowEnd(chans, c) <= f /\ f <= HighEnd(chans, c)

WithWindow(chans, c) ==
    [lo |-> LowEnd(chans, c), hi |-> HighEnd(chans, c), center |-> c.center, bw |-> c.bw,
     service |-> c.service, kind |-> "channel", licensed |-> c.licensed,
     rpt |-> c.rpt, offset |-> c.offset]

AddWindows(chans) == {WithWindow(chans, c) : c \in chans}

-----------------------------------------------------------------------------
(* bandplan.lookup(), best() and tied_best().                              *)

Width(r) == r.hi - r.lo

OffsetFrom(r, f) ==
    Distance(IF r.center = NoCenter THEN (r.lo + r.hi) \div 2 ELSE r.center, f)

Lookup(plan, f) == {r \in plan : r.lo <= f /\ f <= r.hi}

Alphabetical(s, t) ==
    \E i, j \in DOMAIN Services : i < j /\ Services[i] = s /\ Services[j] = t

\* ORDER BY width_hz, offset_hz, licensed, service
MoreSpecific(r, s, f) ==
    \/ Width(r) < Width(s)
    \/ /\ Width(r) = Width(s)
       /\ \/ OffsetFrom(r, f) < OffsetFrom(s, f)
          \/ /\ OffsetFrom(r, f) = OffsetFrom(s, f)
             /\ \/ ~r.licensed /\ s.licensed
                \/ r.licensed = s.licensed /\ Alphabetical(r.service, s.service)

First(rows, f) == CHOOSE r \in rows : \A s \in rows : ~MoreSpecific(s, r, f)

TiedBest(plan, f) ==
    {r \in Lookup(plan, f) : \A s \in Lookup(plan, f) : Width(r) <= Width(s)}
=============================================================================
