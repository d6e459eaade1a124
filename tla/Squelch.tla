------------------------------ MODULE Squelch ------------------------------
(***************************************************************************)
(* What a transmission is, said over the frames themselves and without a   *)
(* counter: it is declared on a channel when the last MinFrames frames     *)
(* were all hot there and the channel tops its neighbours, and over when   *)
(* the last HangFrames were all cold.  It began with the first of those    *)
(* hot frames and ended with the first of those cold ones.                 *)
(***************************************************************************)
EXTENDS Integers, Sequences

CONSTANTS Channels, MinFrames, HangFrames

VARIABLES
  frames,  \* start of each frame, and the channels hot, cold and on top in it
  active,  \* channels with a transmission
  from,    \* per channel, where its latest transmission began
  until    \* per channel, where the latest one that is over ended

squelchVars == <<frames, active, from, until>>

FrameSet == [at : Nat, hot : SUBSET Channels, cold : SUBSET Channels,
             top : SUBSET Channels]

(* The first of the last n frames. *)
Nth(fs, n) == fs[Len(fs) - n + 1]

HotFor(fs, c, n) ==
  Len(fs) >= n /\ \A i \in Len(fs) - n + 1 .. Len(fs) : c \in fs[i].hot

ColdFor(fs, c, n) ==
  Len(fs) >= n /\ \A i \in Len(fs) - n + 1 .. Len(fs) : c \in fs[i].cold

Hear ==
  /\ LET f == frames'[Len(frames')] IN f \in FrameSet /\ frames' = Append(frames, f)
  /\ LET begins == {c \in Channels \ active :
                      HotFor(frames', c, MinFrames) /\ c \in Nth(frames', 1).top}
         ends   == {c \in active : ColdFor(frames', c, HangFrames)}
     IN /\ active' = (active \cup begins) \ ends
        /\ from' = [c \in Channels |-> IF c \in begins THEN Nth(frames', MinFrames).at
                                                        ELSE from[c]]
        /\ until' = [c \in Channels |-> IF c \in ends THEN Nth(frames', HangFrames).at
                                                       ELSE until[c]]

Init ==
  /\ frames = <<>> /\ active = {}
  /\ from = [c \in Channels |-> -1] /\ until = [c \in Channels |-> -1]

Spec == Init /\ [][Hear]_squelchVars
=============================================================================
