------------------------------ MODULE Evidence ------------------------------
(***************************************************************************)
(* What the rows of the tables rest on, as it comes in: a transmission,    *)
(* with a DCS word under the voice, is received a bit wrong at a time; the *)
(* events heard on one frequency grow an event at a time, with what their  *)
(* analysis found of the tone or measured of the deviation; and the list   *)
(* of channels that is seeded a channel at a time.  A behaviour is about   *)
(* one of them.                                                            *)
(***************************************************************************)
EXTENDS Rollup, Dcs

CONSTANTS
    Noisy,          \* the codes that are tried with bits received wrong
    Phases,         \* the places in the word a window is tried to begin at
    Length,         \* how many bits the window has
    Hit,            \* the places of the window noise is tried at
    MaxFlips,       \* bound on the bits that are received wrong
    Channels,       \* the channels a list may have
    Results,        \* what analysis may find: records of tone, ctcss and dcs
    Measurements,   \* what it may measure: records of dev and snr
    MaxChannels,    \* bound on the list
    MaxHeard        \* bound on the events

\* A window that is looked at has MIN_TONE_SECONDS of bits, which is more than
\* one word over the least that has to agree (analyze_analog()).
ASSUME StreamAssumption ==
    /\ Phases \subseteq WordBits
    /\ Length \in Nat /\ Length >= 23 * (MinWords + 1)
    /\ Hit \subseteq 0 .. Length - 1
    /\ MaxFlips \in 0 .. 3

\* A tone is filed with its value, and with nothing else (analyze_analog()).
ASSUME HeardAssumption ==
    /\ \A r \in Results : /\ r.tone \in {"unknown", "none", "ctcss", "dcs"}
                          /\ r.tone = "ctcss" <=> r.ctcss # None
    /\ \A m \in Measurements : {m.dev, m.snr} \subseteq Nat \cup {None}
    /\ {Margin, MinSnr} \subseteq Nat /\ MinMeasured \in Nat \ {0}
    /\ \A b \in DOMAIN DeviationLimit : DeviationLimit[b] \in Nat

ASSUME ChannelsAssumption == \A c \in Channels : c.center \in Nat /\ c.bw \in Nat

VARIABLES
    code, polarity, \* what the transmitter is set to, NoCode before it is
    sent,           \* the stream on the air
    received,       \* and as it is received
    heard,          \* the events of one frequency
    seeded          \* the list of channels

stream == <<code, polarity, sent, received>>
vars == <<code, polarity, sent, received, heard, seeded>>

Init ==
    /\ code = NoCode /\ polarity = "N"
    /\ sent = {} /\ received = {}
    /\ heard = {} /\ seeded = {}

-----------------------------------------------------------------------------
\* Mutant: an inverted code is sent as it is
OnAirNeverInverted(c, p) == Encode(c)

\* bit_sequence(), over and over, from one of its places on
OnAir(c, p) == IF p = "N" THEN Encode(c) ELSE Inverted(Encode(c))
Stream(word, from) == {t \in 0 .. Length - 1 : (t + from) % 23 \in word}

Silent == code = NoCode /\ heard = {} /\ seeded = {}

KeyUp(c, p, from) ==
    /\ Silent
    /\ code' = c /\ polarity' = p
    /\ \E word \in {OnAir(c, p)} : sent' = Stream(word, from)
    /\ received' = sent'
    /\ UNCHANGED <<heard, seeded>>

\* Noise turns a bit over.
Flip(t) ==
    /\ code \in Noisy
    /\ Cardinality(Xor(sent, received)) < MaxFlips
    /\ t \notin Xor(sent, received)
    /\ received' = Xor(received, {t})
    /\ UNCHANGED <<code, polarity, sent, heard, seeded>>

-----------------------------------------------------------------------------
Quiet == sent = {} /\ seeded = {}

Heard(r, m) ==
    [id |-> Cardinality(heard) + 1, freq |-> 0, t |-> 0, tone |-> r.tone,
     ctcss |-> r.ctcss, dcs |-> r.dcs, dev |-> m.dev, snr |-> m.snr]

Unmeasured == [dev |-> None, snr |-> None]

Hear(r, m) ==
    /\ Quiet
    /\ Cardinality(heard) < MaxHeard
    /\ heard' = heard \cup {Heard(r, m)}
    /\ UNCHANGED <<stream, seeded>>

HearTone == \E r \in Results :
    /\ \A e \in heard : e.dev = None
    /\ Hear(r, Unmeasured)

HearDeviation == \E m \in Measurements :
    /\ \A e \in heard : e.tone = "unknown"
    /\ Hear(Unknown, m)

\* The seeder stops at two channels of a service on one frequency.
Seed(c) ==
    /\ sent = {} /\ heard = {}
    /\ Cardinality(seeded) < MaxChannels
    /\ ~Refused(seeded \cup {c})
    /\ seeded' = seeded \cup {c}
    /\ UNCHANGED <<stream, heard>>

Next ==
    \/ \E c \in StandardCodes, p \in {"N", "I"}, from \in Phases : KeyUp(c, p, from)
    \/ \E t \in Hit : Flip(t)
    \/ HearTone
    \/ HearDeviation
    \/ \E c \in Channels : Seed(c)

Spec == Init /\ [][Next]_vars

-----------------------------------------------------------------------------
(* The normal reading: what a radio set to the code, or to the pair of an  *)
(* inverted code, opens on.                                                *)
Normal == IF polarity = "N" THEN code ELSE InvertedPair(code)

\* DCS 023 as it was decoded off the air (dcs.py:28-33, test_dcs.py).
HeardOffAir == {22, 15, 12, 11, 10, 9, 8, 6, 5, 1, 0}

\* What a word deviates, and a share of it that a tone may have: "DCS never
\* exceeded 0.03 in testing" (survey_prototype.py:740).
WordDev == 700
ShareDev == 171

\* However the window is framed, and whichever three bits of a word are wrong,
\* the row is given the normal reading and no other; and the words are those
\* that radios send: an encoder and a decoder that are wrong together agree.
ReadsNormal == code # NoCode =>
    LET filed == Analysis("long", ShareDev, WordDev, DecodeDcs(received, Length))
    IN /\ filed.dcs = Normal /\ ToneState(filed) = "dcs"
       /\ code = 23 => OnAir(23, "N") = HeardOffAir

\* What is sent is one code of the table and one other inverted, whichever
\* place the receiver begins at, and that one is the pair of it.
OneReadingEach == code # NoCode =>
    /\ Cardinality(Readings(OnAir(code, polarity))) = 2
    /\ Readings(OnAir(code, polarity)) = {<<Normal, "N">>, <<InvertedPair(Normal), "I">>}
    /\ InvertedPair(InvertedPair(code)) = code

\* No frequency is claimed by two channels of one service, whatever their
\* spacing and bandwidths, although both ends of a window are inclusive
\* ("that guarantees no two channels in one service overlap"); and none is
\* taken for a channel when another one of the service is nearer.
WindowsDisjoint ==
    \A c \in seeded : \A p \in Peers(seeded, c) :
        \A f \in LowEnd(seeded, c) .. HighEnd(seeded, c) :
            /\ ~Claims(seeded, p, f)
            /\ Distance(c.center, f) <= Distance(p.center, f)

\* A tone a radio would be programmed with is what nearly all events carry:
\* four in five of the events looked at have that kind of tone, and four in
\* five of those whose value was read have that value; a channel is clean only
\* if four in five were found clean.  And a tone that four in five carry is
\* never left out.
ToneAgreed ==
    LET known == Cardinality({e \in heard : e.tone # "unknown"})
        tone == Tone(heard)
    IN /\ tone.tone = "none" => 5 * Count(heard, "tone", "none") >= 4 * known
       /\ tone.ctcss # None => 25 * Count(heard, "ctcss", tone.ctcss) >= 16 * known
       /\ tone.dcs # None =>
             /\ 5 * Count(heard, "tone", "dcs") >= 4 * known
             /\ \A e \in heard : e.dcs \in {None, tone.dcs} \/
                   Count(heard, "dcs", tone.dcs) > Count(heard, "dcs", e.dcs)
       /\ \A v \in {e.ctcss : e \in heard} \ {None} :
             5 * Count(heard, "ctcss", v) >= 4 * known => tone.ctcss = v

\* A service is struck off a shared frequency only by signals that were strong
\* enough to measure, at least MinMeasured of them, at least half of which
\* are wider than it may be by more than the margin; and one always stays.
RuledOutByMost ==
    LET strong == {e \in heard : e.dev # None /\ e.snr >= MinSnr}
    IN \A tied \in (SUBSET {r \in Plan : r.kind = "channel"}) \ {{}} :
          /\ NarrowByDeviation(tied, heard) # {}
          /\ \A r \in tied \ NarrowByDeviation(tied, heard) :
                /\ Cardinality(strong) >= MinMeasured
                /\ 2 * Cardinality({e \in strong : e.dev > DeviationLimit[r.bw] + Margin}) >=
                      Cardinality(strong)
=============================================================================
