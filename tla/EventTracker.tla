---------------------------- MODULE EventTracker ----------------------------
(***************************************************************************)
(* Detector.step() after the noise floor, and EventTracker.update(): per   *)
(* channel, counters of consecutive hot and of consecutive cold frames,    *)
(* and a short memory of where the recent frames began, which dates an     *)
(* event to the frame it happened in and not the one it was noticed in.    *)
(* The engine and the Python capture loop have the same tracker.           *)
(*                                                                         *)
(* An SNR is one of a few levels; a frame has as many samples as the read  *)
(* returned.                                                               *)
(***************************************************************************)
EXTENDS Integers, Sequences

CONSTANTS
  NChannels,
  Levels,       \* the SNRs a channel may have
  OnDb, OffDb,  \* hot from OnDb up, cold below OffDb
  MinFrames, HangFrames,
  FrameLengths, \* samples one read may return
  MaxFrames     \* bound: frames of one behaviour

Channels == 1 .. NChannels

ASSUME TrackerConstants ==
  /\ NChannels \in Nat
  /\ Levels \subseteq Int
  /\ OnDb \in Int /\ OffDb \in Int /\ OffDb <= OnDb
  /\ MinFrames \in Nat \ {0} /\ HangFrames \in Nat \ {0}
  /\ FrameLengths \subseteq Nat \ {0}
  /\ MaxFrames \in Nat

VARIABLES
  active,  \* channels in an event
  above,   \* per channel, consecutive hot frames
  below,   \* per channel, consecutive cold frames
  recent,  \* where the last recent_max frames began
  from,    \* start_sample
  until,   \* last_end_sample of the channel's latest end
  written, \* samples so far
  frames   \* history: what every frame so far was

vars == <<active, above, below, recent, from, until, written, frames>>

(* Mutant: as many frames as an event needs to begin, one too few to end. *)
RecentMaxMin == MinFrames

RecentMax == IF MinFrames >= HangFrames THEN MinFrames ELSE HangFrames

Hot(snr)  == {c \in Channels : snr[c] >= OnDb}
Cold(snr) == {c \in Channels : snr[c] < OffDb}

(* Channels no neighbour of which is stronger; ties are allowed. *)
LocalMax(snr) == {c \in Channels : \A d \in {c - 1, c + 1} \cap Channels : snr[c] >= snr[d]}

Pushed(s, at) ==
  LET t == Append(s, at)
  IN IF Len(t) > RecentMax THEN Tail(t) ELSE t

FramesAgo(s, k) == IF k >= Len(s) THEN s[1] ELSE s[Len(s) - k]

(* Mutant: the count of cold frames survives a frame that is not. *)
CountsCold(snr, c) == IF c \in Cold(snr) THEN below[c] + 1 ELSE below[c]

Below(snr, c) == IF c \in Cold(snr) THEN below[c] + 1 ELSE 0
Above(snr, c) == IF c \in Hot(snr) THEN above[c] + 1 ELSE 0

Started(snr) == {c \in Channels \ active : Above(snr, c) >= MinFrames /\ c \in LocalMax(snr)}
Ended(snr)   == {c \in active : Below(snr, c) >= HangFrames}

Update(snr, n) ==
  /\ above' = [c \in Channels |-> Above(snr, c)]
  /\ below' = [c \in Channels |-> Below(snr, c)]
  /\ recent' = Pushed(recent, written)
  /\ active' = (active \cup Started(snr)) \ Ended(snr)
  /\ from' = [c \in Channels |-> IF c \in Started(snr)
                THEN FramesAgo(recent', MinFrames - 1) ELSE from[c]]
  /\ until' = [c \in Channels |-> IF c \in Ended(snr)
                THEN FramesAgo(recent', HangFrames - 1) ELSE until[c]]
  /\ written' = written + n
  /\ frames' = Append(frames, [at |-> written, hot |-> Hot(snr), cold |-> Cold(snr),
                               top |-> LocalMax(snr)])

Init ==
  /\ active = {}
  /\ above = [c \in Channels |-> 0] /\ below = [c \in Channels |-> 0]
  /\ recent = <<>>
  /\ from = [c \in Channels |-> -1] /\ until = [c \in Channels |-> -1]
  /\ written \in {0} \cup FrameLengths   \* the floor warms up for some frames
  /\ frames = <<>>

Frame == /\ Len(frames) < MaxFrames
         /\ \E snr \in [Channels -> Levels], n \in FrameLengths : Update(snr, n)

Spec == Init /\ [][Frame]_vars

-----------------------------------------------------------------------------
(* Properties. *)

(* The counters count, and the memory of frame starts is bounded. *)
TypeOK ==
  /\ active \subseteq Channels
  /\ above \in [Channels -> Nat] /\ below \in [Channels -> Nat]
  /\ recent \in Seq(Nat) /\ Len(recent) <= RecentMax
  /\ from \in [Channels -> Nat \cup {-1}] /\ until \in [Channels -> Nat \cup {-1}]
  /\ written \in Nat

(* The events of a channel are disjoint and in order, and none is empty:   *)
(* an open event began after the one before it ended, an event that is     *)
(* over ended after it began.                                              *)
EventsInOrder ==
  \A c \in Channels :
    IF c \in active THEN until[c] < from[c]
                    ELSE from[c] < until[c] \/ (from[c] = -1 /\ until[c] = -1)

(* The counters and the short memory decide and date exactly what the      *)
(* definition over whole frames does: no transmission is missed, invented, *)
(* cut short by a single dip or dated to the frame that noticed it.        *)
Definition == INSTANCE Squelch

ImplementsSquelch == Definition!Spec
=============================================================================
