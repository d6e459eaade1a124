------------------------------- MODULE Dcs -------------------------------
(***************************************************************************)
(* DCS: a 23-bit Golay codeword sent over and over with nothing to mark    *)
(* where one begins.  src/dcs.py has the code, decode_dcs() finds the      *)
(* word in a stream of bits, and what analyze_analog() and EventLog.apply()*)
(* then say of the event's tone is written to its row.                     *)
(*                                                                         *)
(* A word is the set of the places of its ones.                            *)
(***************************************************************************)
EXTENDS Integers, FiniteSets, SequencesExt

\* A code is written as its three octal digits, read in decimal.
StandardCodes ==
    {6, 7, 15, 17, 21, 23, 25, 26, 31, 32, 36, 43, 47, 50, 51, 53, 54, 65, 71, 72, 73, 74,
     114, 115, 116, 122, 125, 131, 132, 134, 141, 143, 145, 152, 155, 156, 162, 165, 172, 174,
     205, 212, 214, 223, 225, 226, 243, 244, 245, 246, 251, 252, 255, 261, 263, 265, 266, 271,
     274, 306, 311, 315, 325, 331, 332, 343, 346, 351, 356, 364, 365, 371, 411, 412, 413, 423,
     431, 432, 445, 446, 452, 454, 455, 462, 464, 465, 466, 503, 506, 516, 523, 526, 532, 546,
     565, 606, 612, 624, 627, 631, 632, 654, 662, 664, 703, 712, 723, 731, 732, 734, 743, 754}

WordBits == 0 .. 22
MinWords == 2           \* DCS_MIN_WORDS
NoCode == -1

-----------------------------------------------------------------------------
(* The Golay code *)

Xor(v, w) == (v \cup w) \ (v \cap w)
Shifted(v, n) == {b + n : b \in v}

GolayPoly == {11, 10, 6, 5, 4, 2, 0}        \* 0xC75

Cancel(v, i) == IF i \in v THEN Xor(v, Shifted(GolayPoly, i - 11)) ELSE v

\* The remainder: the terms from 22 down to 11 are cancelled one by one.
ModG(v) == FoldLeft(Cancel, v, <<22, 21, 20, 19, 18, 17, 16, 15, 14, 13, 12, 11>>)

GolayEncode(data) == Shifted(data, 11) \cup ModG(Shifted(data, 11))

Number(v) == FoldSet(LAMBDA b, n : n + 2 ^ b, 0, v)

Errors == {{}} \cup {{a, b, c} : a, b, c \in WordBits}
Cosets == {<<Number(ModG(e)), e>> : e \in Errors}

\* The table, which is filled by rows of 64 for TLC's sake
Syndromes ==
    LET rows == [h \in 0 .. 31 |-> {c \in Cosets : c[1] \div 64 = h}]
    IN [s \in 0 .. 2047 |-> (CHOOSE c \in rows[s \div 64] : c[1] = s)[2]]

Corrected(word) == Xor(word, Syndromes[Number(ModG(word))])
Data(word) == {b - 11 : b \in {c \in word : c >= 11}}

\* int(code, 8), and back
Octal(c) == 64 * (c \div 100) + 8 * ((c \div 10) % 10) + (c % 10)
Digits(n) == 100 * (n \div 64) + 10 * ((n \div 8) % 8) + (n % 8)

FixedTriple == {11}                         \* 0b100 in bits 9 to 11

BitsOf(c) == {b \in 0 .. 8 : (Octal(c) \div 2 ^ b) % 2 = 1}

\* The codes with their words
Codewords == {<<c, GolayEncode(BitsOf(c) \cup FixedTriple)>> : c \in StandardCodes}

Encode(c) == (CHOOSE w \in Codewords : w[1] = c)[2]

\* Mutant: the fixed triple is not looked at
DecodeAnyTriple(word) ==
    LET read == Digits(Number(Data(Corrected(word)) \cap 0 .. 8))
    IN IF read \in StandardCodes THEN read ELSE NoCode

\* decode(): a code, or None
Decode(word) ==
    LET data == Data(Corrected(word))
        read == Digits(Number(data \cap 0 .. 8))
    IN IF data \ 0 .. 8 = FixedTriple /\ read \in StandardCodes THEN read ELSE NoCode

-----------------------------------------------------------------------------
(* The inverted pairs: the codes that are one waveform *)

Inverted(word) == WordBits \ word

Rotations(word) == {{(b - n) % 23 : b \in word} : n \in WordBits}

\* Each code both ways, with all the words its waveform is framed as
Waveforms ==
    {<<w[1], "N", Rotations(w[2])>> : w \in Codewords} \cup
    {<<w[1], "I", Rotations(Inverted(w[2]))>> : w \in Codewords}

\* The readings of a word that are in the table
Readings(word) == {<<w[1], w[2]>> : w \in {v \in Waveforms : word \in v[3]}}

Pairs == UNION {{<<w[1], r[1]>> : r \in {q \in Readings(w[2]) : q[2] = "I"}} : w \in Codewords}

\* There is one: OneReadingEach
InvertedPair(c) == (CHOOSE p \in Pairs : p[1] = c)[2]

\* What dcs.py asserts when it is imported (_build_syndrome_table(),
\* _inverted_pairs()): each pattern of up to three errors has a syndrome of its
\* own, and a code has its own reading and that of one inverted code,
ASSUME PerfectCode == \A e \in Errors : Syndromes[Number(ModG(e))] = e

ASSUME InversePairs ==
    \A w \in Codewords : \E c \in StandardCodes : Readings(w[2]) = {<<w[1], "N">>, <<c, "I">>}

\* and the digits of a code stand for its nine bits.
ASSUME OctalDigits ==
    /\ \A c \in StandardCodes : Digits(Number(BitsOf(c))) = c
    /\ \A data \in SUBSET (0 .. 8) : BitsOf(Digits(Number(data))) = data

-----------------------------------------------------------------------------
(* decode_dcs(), from the bits on.  A stream is the set of the places of   *)
(* its ones, and length its length.                                        *)

Frame(ones, rot, k) == {b \in WordBits : rot + 23 * k + b \in ones}

Frames(length, rot) == 0 .. ((length - rot) \div 23 - 1)

Majority(ones, rot, frames) ==
    {b \in WordBits : 2 * Cardinality({k \in frames : b \in Frame(ones, rot, k)}) > Cardinality(frames)}

\* The code the most of the frames decode to, of two the one that comes first
Votes(codes, frames, c) == Cardinality({k \in frames : codes[k] = c})
Winner(codes, frames) ==
    LET named == {k \in frames : codes[k] # NoCode}
        most == {k \in named : \A j \in named : Votes(codes, frames, codes[j]) <= Votes(codes, frames, codes[k])}
    IN IF named = {} THEN NoCode ELSE codes[Min(most)]

\* The code the frames from rot on are read as, if they agree on one
FoundAt(ones, length, rot) ==
    LET frames == Frames(length, rot)
    IN UNION {{read \in {Winner(codes, frames)} :
                  /\ Cardinality(frames) >= MinWords
                  /\ read # NoCode
                  /\ Votes(codes, frames, read) >= MinWords
                  /\ Decode(Majority(ones, rot, frames)) = read} :
              codes \in {[k \in frames |-> Decode(Frame(ones, rot, k))]}}

Found(ones, length) == UNION {FoundAt(ones, length, rot) : rot \in WordBits}

\* The one code that is found, unless what is found of the inverted stream
\* is not its pair
Certain(normal, inverted) ==
    {c \in normal : normal = {c} /\ (inverted = {} \/ inverted = {InvertedPair(c)})}

DecodeDcs(ones, length) ==
    LET read == Certain(Found(ones, length), Found((0 .. length - 1) \ ones, length))
    IN IF read = {} THEN NoCode ELSE CHOOSE c \in read : TRUE

-----------------------------------------------------------------------------
(* analyze_analog(), from the capture ratio on, and the tone_state that    *)
(* EventLog.apply() gives the row.  toneDev is what the strongest tone      *)
(* deviates, bandDev the whole subaudible band (its rms), in Hz: capture,   *)
(* the tone's share of the band's power, is half of the square of the one   *)
(* over the square of the other.  dwell is "short" under MIN_TONE_SECONDS,  *)
(* and MIN_DCS_SECONDS is less than that.                                   *)

\* A capture of 0.5 or more
IsTone(toneDev, bandDev) ==
    /\ bandDev > 0 /\ toneDev * toneDev >= bandDev * bandDev
    /\ toneDev >= 100

\* A capture under 0.3
Suspected(toneDev, bandDev) ==
    /\ ~IsTone(toneDev, bandDev)
    /\ 5 * (toneDev * toneDev) < 3 * (bandDev * bandDev)
    /\ bandDev >= 150

Analysis(dwell, toneDev, bandDev, decoded) ==
    LET checked   == dwell # "short"
        suspected == checked /\ Suspected(toneDev, bandDev)
    IN [checked |-> checked,
        ctcss |-> checked /\ IsTone(toneDev, bandDev),
        suspected |-> suspected,
        dcs |-> IF suspected THEN decoded ELSE NoCode]

ToneState(r) ==
    CASE r.dcs # NoCode -> "dcs"
      [] r.dcs = NoCode /\ r.ctcss -> "ctcss"
      [] r.dcs = NoCode /\ ~r.ctcss /\ r.suspected -> "dcs"
      [] r.dcs = NoCode /\ ~r.ctcss /\ ~r.suspected /\ r.checked -> "none"
      [] OTHER -> "unknown"
=============================================================================
