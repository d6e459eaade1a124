------------------------------- MODULE Enrich -------------------------------
(***************************************************************************)
(* src/enrich.py on a database that is in use: its four passes are several *)
(* statements and transactions each, the detector writes events between    *)
(* any two of them, the operator writes notes, and the enricher may be     *)
(* killed and run again.                                                   *)
(***************************************************************************)
EXTENDS Rollup, SequencesExt

CONSTANTS
    Freqs,      \* the frequencies events are measured at
    Analyses,   \* what their analysis finds, with the deviation dev
    MaxEvents   \* bound on the events

ASSUME EventsAssumption ==
    /\ Freqs \subseteq Nat /\ Freqs # {} /\ IsFiniteSet(Freqs)
    /\ MaxEvents \in Nat

VARIABLES
    events,     \* the table events, in the order of their ids
    channels,   \* the table channels, in the order of theirs
    pairs,      \* the table pairs: pairs of ids of channels
    starting,   \* 0, or the event start() has written and mark_harmonic() not yet
    pc,         \* the next step of the enricher, "idle" when it is not running
    read,       \* what it has read and holds: a record
    fresh,      \* nothing was detected since the enricher was started
    kept        \* the keys of the notes written out of the reach of a rebuild

vars == <<events, channels, pairs, starting, pc, read, fresh, kept>>
capture == <<events, starting, fresh>>

NoNote == -1
Nothing == [ids |-> {}, notes |-> {}, rows |-> {}, found |-> {}, tiers |-> <<>>]

\* events are read WHERE harmonic_of IS NULL
Traffic(evs) == {e \in Range(evs) : ~e.harmonic}

\* What rollup()'s cache holds: the key of each frequency
Key == [f \in 0 .. Max(Freqs \cup {r.hi : r \in Plan}) |-> ChannelKey(f)]

Keys(evs) == {Key[e.freq] : e \in Traffic(evs)}
Bucket(evs, k) == {e \in Traffic(evs) : Key[e.freq] = k}

Best == [f \in DOMAIN Key |-> IF Lookup(Plan, f) = {} THEN NoPlan ELSE First(Lookup(Plan, f), f)]

-----------------------------------------------------------------------------
(* The detector: EventLog.start(), mark_harmonic(), apply() and close().   *)
(* An event begins with the one before it, or long after.                  *)

LastStart == IF events = <<>> THEN 0 ELSE events[Len(events)].t

Detect(f, t, harmonic) ==
    /\ starting = 0
    /\ Len(events) < MaxEvents
    /\ events' = Append(events,
          [id |-> Len(events) + 1, freq |-> f, t |-> t, harmonic |-> FALSE,
           tone |-> "unknown", ctcss |-> None, dcs |-> None, dev |-> None, snr |-> None,
           plan |-> NoPlan, chan |-> 0])
    /\ starting' = IF harmonic THEN Len(events) + 1 ELSE 0

MarkHarmonic ==
    /\ starting # 0
    /\ events' = [events EXCEPT ![starting].harmonic = TRUE]
    /\ starting' = 0

Analyse(i, r) ==
    /\ starting = 0
    /\ ~events[i].harmonic /\ events[i].tone = "unknown" /\ events[i].dev = None
    /\ events' = [events EXCEPT ![i].tone = r.tone, ![i].ctcss = r.ctcss,
                                ![i].dcs = r.dcs, ![i].dev = r.dev]
    /\ UNCHANGED starting

Close(i) ==
    /\ starting = 0
    /\ events[i].snr = None
    /\ events' = [events EXCEPT ![i].snr = MinSnr]
    /\ UNCHANGED starting

Detector ==
    /\ \/ \E f \in Freqs, t \in {LastStart, LastStart + MaxLag + 1} :
             Detect(f, t, FALSE) \/ (events # <<>> /\ Detect(f, t, TRUE))
       \/ MarkHarmonic
       \/ \E i \in DOMAIN events : Close(i) \/ \E r \in Analyses : Analyse(i, r)
    /\ fresh' = FALSE
    /\ UNCHANGED <<channels, pairs, pc, read, kept>>

-----------------------------------------------------------------------------
(* run_all(), a statement that reads or a transaction at a time.           *)

At(p, q) == pc = p /\ pc' = q

Begin ==
    /\ At("idle", "tag")
    /\ fresh' = TRUE
    /\ read' = Nothing
    /\ UNCHANGED <<events, channels, pairs, starting, kept>>

\* tag(): the events with no plan are read, looked up and updated by id.
TagRead ==
    /\ At("tag", "tagged")
    /\ read' = [Nothing EXCEPT !.ids = {e.id : e \in {d \in Traffic(events) : d.plan = NoPlan}}]
    /\ UNCHANGED <<capture, channels, pairs, kept>>

TagWrite ==
    /\ At("tagged", "rollup")
    /\ events' = [i \in DOMAIN events |->
          IF i \in read.ids THEN [events[i] EXCEPT !.plan = Best[events[i].freq]] ELSE events[i]]
    /\ read' = Nothing
    /\ UNCHANGED <<starting, fresh, channels, pairs, kept>>

\* rollup()
NotesRead ==
    /\ At("rollup", "noted")
    /\ read' = [Nothing EXCEPT !.notes =
          {<<c.freq, c.notes>> : c \in {d \in Range(channels) : d.notes # NoNote}}]
    /\ UNCHANGED <<capture, channels, pairs, kept>>

\* Mutant: any note that is found
NoteForAny(k) == IF read.notes = {} THEN NoNote ELSE (CHOOSE n \in read.notes : TRUE)[2]

\* notes.get(freq), where freq is the key
NoteFor(k) ==
    IF \E n \in read.notes : n[1] = k THEN (CHOOSE n \in read.notes : n[1] = k)[2] ELSE NoNote

\* The rows are made of the events as they were read.
NewRow(k) ==
    [key |-> k, row |-> Row(Bucket(events, k)), notes |-> NoteFor(k),
     ids |-> {e.id : e \in Bucket(events, k)}]

EventsRead ==
    /\ At("noted", "read")
    /\ read' = [read EXCEPT !.rows = {NewRow(k) : k \in Keys(events)}]
    /\ UNCHANGED <<capture, channels, pairs, kept>>

\* Mutant: a row that is there already is updated, and keeps its tier
InsertedOver(r) ==
    [freq |-> r.row.freq, row |-> r.row, notes |-> r.notes, paired |-> FALSE,
     tier |-> IF \E c \in Range(channels) : c.freq = r.row.freq
              THEN (CHOOSE c \in Range(channels) : c.freq = r.row.freq).tier ELSE None]

\* DELETE, INSERT and the UPDATE of channel_id are one transaction; the
\* DELETE cascades to pairs.
Inserted(r) == [freq |-> r.row.freq, row |-> r.row, notes |-> r.notes, tier |-> None, paired |-> FALSE]

Rebuild ==
    /\ At("read", "rebuilt")
    /\ channels' = SetToSeq({Inserted(r) : r \in read.rows})
    /\ pairs' = {}
    /\ events' = [i \in DOMAIN events |-> [events[i] EXCEPT !.chan = 0]]
    /\ kept' = kept \cap {r.key : r \in read.rows}
    /\ UNCHANGED <<starting, fresh, read>>

IdOf(f) == CHOOSE c \in DOMAIN channels : channels[c].freq = f

\* Mutant: the events there are now, by their keys
LinkedByKey(i) ==
    IF ~events[i].harmonic /\ \E r \in read.rows : r.key = Key[events[i].freq]
    THEN IdOf((CHOOSE r \in read.rows : r.key = Key[events[i].freq]).row.freq) ELSE events[i].chan

\* The ids are read and the links written in the transaction after.
Linked(i) ==
    IF \E r \in read.rows : i \in r.ids
    THEN IdOf((CHOOSE r \in read.rows : i \in r.ids).row.freq) ELSE events[i].chan

Link ==
    /\ At("rebuilt", "pair")
    /\ events' = [i \in DOMAIN events |-> [events[i] EXCEPT !.chan = Linked(i)]]
    /\ read' = Nothing
    /\ UNCHANGED <<starting, fresh, channels, pairs, kept>>

\* pair(): the channels cannot change between its two reads.
Clear ==
    /\ At("pair", "cleared")
    /\ pairs' = {}
    /\ channels' = [c \in DOMAIN channels |-> [channels[c] EXCEPT !.paired = FALSE]]
    /\ UNCHANGED <<capture, read, kept>>

Offsets == {r.offset : r \in Plan} \ {None}

On(c) == {e \in Traffic(events) : e.chan = c}

Match ==
    /\ At("cleared", "matched")
    /\ read' = [read EXCEPT !.found =
          {p \in (DOMAIN channels) \X (DOMAIN channels) :
              /\ channels[p[2]].freq - channels[p[1]].freq \in Offsets
              /\ Paired(On(p[1]), On(p[2]))}]
    /\ UNCHANGED <<capture, channels, pairs, kept>>

\* Mutant: the input is given the pair
PairsWriteInput ==
    /\ At("matched", "score")
    /\ pairs' = pairs \cup read.found
    /\ channels' = [c \in DOMAIN channels |->
          IF \E p \in pairs' : p[2] = c THEN [channels[c] EXCEPT !.paired = TRUE] ELSE channels[c]]
    /\ read' = Nothing
    /\ UNCHANGED <<capture, kept>>

PairsWrite ==
    /\ At("matched", "score")
    /\ pairs' = pairs \cup read.found
    /\ channels' = [c \in DOMAIN channels |->
          IF \E p \in pairs' : p[1] = c THEN [channels[c] EXCEPT !.paired = TRUE] ELSE channels[c]]
    /\ read' = Nothing
    /\ UNCHANGED <<capture, kept>>

\* score()
ScoreRead ==
    /\ At("score", "scored")
    /\ read' = [read EXCEPT !.tiers =
          [c \in DOMAIN channels |-> Tier(channels[c].row, channels[c].paired)]]
    /\ UNCHANGED <<capture, channels, pairs, kept>>

ScoreWrite ==
    /\ At("scored", "idle")
    /\ channels' = [c \in DOMAIN channels |-> [channels[c] EXCEPT !.tier = read.tiers[c]]]
    /\ read' = Nothing
    /\ UNCHANGED <<capture, pairs, kept>>

\* An open transaction is rolled back.
Killed ==
    /\ pc # "idle"
    /\ pc' = "idle"
    /\ read' = Nothing
    /\ fresh' = FALSE
    /\ UNCHANGED <<events, starting, channels, pairs, kept>>

Enricher ==
    \/ Begin \/ TagRead \/ TagWrite \/ NotesRead \/ EventsRead \/ Rebuild \/ Link
    \/ Clear \/ Match \/ PairsWrite \/ ScoreRead \/ ScoreWrite \/ Killed

-----------------------------------------------------------------------------
(* The operator writes a note on a channel; the note says which.  A note   *)
(* written when the notes are read and the rebuild is not committed is     *)
(* lost, so such a one is not counted among those to be kept.              *)

KeyOf(c) == Key[channels[c].freq]

Note(c) ==
    /\ channels[c].notes = NoNote
    /\ channels' = [channels EXCEPT ![c].notes = KeyOf(c)]
    /\ kept' = IF pc \in {"noted", "read"} THEN kept ELSE kept \cup {KeyOf(c)}
    /\ UNCHANGED <<capture, pairs, pc, read>>

Operator == \E c \in DOMAIN channels : Note(c)

Init ==
    /\ events = <<>> /\ channels = <<>> /\ pairs = {} /\ starting = 0
    /\ pc = "idle" /\ read = Nothing /\ fresh = FALSE /\ kept = {}

Next == Detector \/ Enricher \/ Operator

Spec == Init /\ [][Next]_vars
-----------------------------------------------------------------------------
\* When nothing was detected while the enricher ran, what it leaves is what
\* one look at the events gives, whatever runs were killed before: "each
\* idempotent and safe to re-run", and derived tables that come back.
RepeaterInput(o, i) ==
    /\ i - o \in Offsets
    /\ LET at(f) == {e \in Traffic(events) : Row(Bucket(events, Key[e.freq])).freq = f}
       IN Paired(at(o), at(i))

Rederived ==
    pc = "idle" /\ fresh =>
        /\ {c.row : c \in Range(channels)} = {Row(Bucket(events, k)) : k \in Keys(events)}
        /\ \A e \in Traffic(events) : e.plan = Best[e.freq] /\ e.chan # 0
        /\ {<<channels[p[1]].freq, channels[p[2]].freq>> : p \in pairs} =
           {<<q[1].freq, q[2].freq>> : q \in
               {q \in Range(channels) \X Range(channels) : RepeaterInput(q[1].freq, q[2].freq)}}
        /\ \A c \in Range(channels) :
              c.tier = Tier(c.row, \E d \in Range(channels) : RepeaterInput(c.freq, d.freq))

\* A repeater output that is offered as programmable has an input that was
\* heard, in every state of the database a reader or a crash can find, and no
\* pair is of a row a rebuild has replaced.
TiersBackedByPairs ==
    /\ pairs \subseteq (DOMAIN channels) \X (DOMAIN channels)
    /\ \A c \in DOMAIN channels :
          channels[c].tier >= 3 /\ channels[c].row.plan # NoPlan /\ channels[c].row.plan.rpt =>
              \E p \in pairs : p[1] = c

\* An event is linked to the channel its own frequency stands for; the events
\* of a channel are linked all or not at all, and are the ones its row counts,
\* although events come while the rows are made; and no two rows stand for one
\* frequency (the column is UNIQUE: the INSERT would fail).
LinksFollowKeys ==
    /\ \A e \in Range(events) :
          e.chan # 0 => e.chan \in DOMAIN channels /\ KeyOf(e.chan) = Key[e.freq]
    /\ \A c \in DOMAIN channels :
          Cardinality({e \in Range(events) : e.chan = c}) \in {0, channels[c].row.count}
    /\ \A c, d \in DOMAIN channels : channels[c].freq = channels[d].freq => c = d

\* A note is on the row it was written for, and a rebuild keeps it, when the
\* row is of a channel of the band plan.  Nothing is said of a note saved after
\* NotesRead and before Rebuild, which rollup() does not see and deletes.
Nominal == {r.center : r \in {s \in Plan : s.kind = "channel"}}

ChannelNotesSurvive ==
    /\ \A c \in DOMAIN channels : channels[c].notes \in {NoNote, KeyOf(c)}
    /\ \A k \in kept \cap Nominal : \E c \in DOMAIN channels : channels[c].notes = k

\* enrich.py:207, "Hand-written notes survive.", of every row.
NotesSurvive == \A k \in kept : \E c \in DOMAIN channels : channels[c].notes = k
=============================================================================
