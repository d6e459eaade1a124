----------------------------- MODULE RustEngine -----------------------------
(***************************************************************************)
(* rfsurvey-engine: the process that owns the radio.  Its reader thread    *)
(* reads frames and obeys commands between reads, its dsp thread turns     *)
(* frames into decisions, and its writer thread sends them, one line each, *)
(* to the orchestrator (module EngineLoop).                                *)
(*                                                                         *)
(* Time is counted in frames.  Which channels the detector reports as      *)
(* started or ended in a frame is left open here (EventTracker models the  *)
(* rule), as is which of two harmonically related channels is the louder.  *)
(***************************************************************************)
EXTENDS Integers, Sequences

CONSTANTS
  NChannels,      \* channels of the grid
  HarmonicPairs,  \* <<ch, p>>: ch is at an odd multiple >= 3 of p's offset
  DspQueue,       \* DSP_QUEUE, the bound of the reader -> dsp channel
  StallFrames,    \* STALL_FRAMES, empty reads before the stream is given up
  MinFrames, HangFrames, Pretrigger, Analyze, MinAnalyze, Warmup,
  RingCapacity,   \* frames held by the shared ring
  Kinds,          \* what may happen in one behaviour: failures, a "file" as source
  MaxReads        \* bound: reads of the source in one behaviour

Channels == 1 .. NChannels
None     == -1

ASSUME EngineConstants ==
  /\ NChannels \in Nat \ {0}
  /\ HarmonicPairs \subseteq Channels \X Channels
  /\ \A p \in HarmonicPairs : p[1] # p[2]
  /\ {DspQueue, StallFrames, MinFrames, HangFrames, Warmup} \subseteq Nat \ {0}
  /\ {Pretrigger, Analyze, MinAnalyze, RingCapacity, MaxReads} \subseteq Nat
  /\ MinAnalyze > 0
  /\ Kinds \subseteq SUBSET {"file", "stall", "overflow", "fatal", "crash", "worker", "db", "slow"}

VARIABLES
  may,      \* what may happen in this behaviour, one of Kinds
  cmds,     \* commands on stdin and in the command channel
  reader,   \* "idle" (no window yet), "reading", "hung" or "gone"
  todo,     \* messages the reader is in the middle of sending
  stalled,  \* consecutive reads that delivered nothing
  reads,    \* reads so far (bounds the model)
  toDsp,    \* the bounded channel to the dsp thread
  det,      \* the centre the detector was built for, or None
  ring,     \* generation, its centre, and frames written in it
  open,     \* channels with an event in progress
  pending,  \* per channel, the sample its undecided analysis starts at
  out,      \* lines emitted and not yet taken by the orchestrator
  engine    \* "up", "leaving" (the dsp thread has returned) or "gone"

(* The source is a file of samples, not a device. *)
FromFile == "file" \in may

engineVars == <<cmds, reader, todo, stalled, reads, toDsp, det, ring, open,
                pending, out, engine>>

-----------------------------------------------------------------------------
(* Messages of the two channels. *)

ToDsp(kind, center) == [k |-> kind, center |-> center]
Plain(kind)         == ToDsp(kind, None)

Tuned(c)     == [t |-> "tuned", center |-> c]
Linearity(c) == [t |-> "linearity", center |-> c]
Window(c, g) == [t |-> "window", center |-> c, gen |-> g]
Line(t)      == [t |-> t]

(* "f": started channels, decisions due, decisions forced by an end, ended  *)
(* channels.  heard is history, the generation the frame belongs to.       *)
Frame(g, s, due, fin, e) ==
  [t |-> "f", heard |-> g, s |-> s, due |-> due, fin |-> fin, e |-> e]

-----------------------------------------------------------------------------
(* Reader thread. *)

(* Blocking send: the thread does nothing else until the channel has room. *)
Send ==
  /\ engine = "up"
  /\ todo # <<>>
  /\ Len(toDsp) < DspQueue
  /\ toDsp' = Append(toDsp, Head(todo))
  /\ todo' = Tail(todo)
  /\ UNCHANGED <<cmds, reader, stalled, reads, det, ring, open, pending, out, engine>>

AtCommands == /\ engine = "up"
              /\ reader \in {"idle", "reading"}
              /\ todo = <<>>

(* open(): the old window is closed before the radio moves, the new centre *)
(* announced before it is probed, the window opened on the probe's result. *)
OpenMessages(c) == <<Plain("close"), ToDsp("tuned", c), ToDsp("window", c)>>

CommandOpen ==
  /\ AtCommands
  /\ cmds # <<>>
  /\ Head(cmds).cmd = "open"
  /\ todo' = OpenMessages(Head(cmds).center)
  /\ cmds' = Tail(cmds)
  /\ reader' = "reading"
  /\ stalled' = 0
  /\ UNCHANGED <<reads, toDsp, det, ring, open, pending, out, engine>>

(* set_frequency fails: fatal() prints while the writer thread holds the   *)
(* lock of stdout for its whole life, so the reader never comes back.      *)
CommandOpenFails ==
  /\ "fatal" \in may
  /\ AtCommands
  /\ cmds # <<>>
  /\ Head(cmds).cmd = "open"
  /\ todo' = <<Plain("close")>>
  /\ cmds' = Tail(cmds)
  /\ reader' = "hung"
  /\ UNCHANGED <<stalled, reads, toDsp, det, ring, open, pending, out, engine>>

(* Mutant: leaves without closing the window. *)
LeaveOpen(why) ==
  /\ todo' = <<Plain(why)>>
  /\ reader' = "gone"

(* Every way out closes the window first. *)
Leave(why) ==
  /\ todo' = <<Plain("close"), Plain(why)>>
  /\ reader' = "gone"

CommandStop ==
  /\ AtCommands
  /\ cmds # <<>>
  /\ Head(cmds).cmd = "stop"
  /\ Leave("stop")
  /\ cmds' = Tail(cmds)
  /\ UNCHANGED <<stalled, reads, toDsp, det, ring, open, pending, out, engine>>

AtRead == /\ AtCommands
          /\ reader = "reading"
          /\ cmds = <<>>
          /\ reads < MaxReads

ReadSamples ==
  /\ AtRead
  /\ reads' = reads + 1
  /\ stalled' = 0
  /\ todo' = <<Plain("frame")>>
  /\ UNCHANGED <<cmds, reader, toDsp, det, ring, open, pending, out, engine>>

ReadOverflow ==
  /\ AtRead
  /\ "overflow" \in may
  /\ ~FromFile
  /\ reads' = reads + 1
  /\ stalled' = 0
  /\ todo' = <<Plain("overflow")>>
  /\ UNCHANGED <<cmds, reader, toDsp, det, ring, open, pending, out, engine>>

ReadNothing ==
  /\ AtRead
  /\ "stall" \in may
  /\ ~FromFile
  /\ reads' = reads + 1
  /\ stalled' = stalled + 1
  /\ IF stalled + 1 >= StallFrames THEN Leave("stall")
                                   ELSE UNCHANGED <<todo, reader>>
  /\ UNCHANGED <<cmds, toDsp, det, ring, open, pending, out, engine>>

ReadEof ==
  /\ AtRead
  /\ FromFile
  /\ reads' = reads + 1
  /\ Leave("eof")
  /\ UNCHANGED <<cmds, stalled, toDsp, det, ring, open, pending, out, engine>>

Reader == \/ Send \/ CommandOpen \/ CommandOpenFails \/ CommandStop
          \/ ReadSamples \/ ReadOverflow \/ ReadNothing \/ ReadEof

-----------------------------------------------------------------------------
(* Dsp thread. *)

Receives(kind) == /\ engine = "up"
                  /\ toDsp # <<>>
                  /\ Head(toDsp).k = kind
                  /\ toDsp' = Tail(toDsp)

ReaderUnchanged == UNCHANGED <<cmds, reader, todo, stalled, reads>>

DspTuned ==
  /\ Receives("tuned")
  /\ out' = Append(out, Tuned(Head(toDsp).center))
  /\ ReaderUnchanged
  /\ UNCHANGED <<det, ring, open, pending, engine>>

NonePending == [c \in Channels |-> None]

(* open_window(): the verdict of the linearity probe, then a new detector  *)
(* on a ring that has forgotten everything.                                *)
DspWindow ==
  /\ Receives("window")
  /\ LET c == Head(toDsp).center
         g == ring.gen + 1
     IN /\ out' = (IF FromFile THEN out ELSE Append(out, Linearity(c)))
                    \o <<Window(c, g)>>
        /\ ring' = [gen |-> g, center |-> c, written |-> 0]
        /\ det' = c
  /\ open' = {}
  /\ pending' = NonePending
  /\ ReaderUnchanged
  /\ UNCHANGED engine

(* Mutant: the channels of the old window stay open. *)
DspCloseKeepsOpen ==
  /\ Receives("close")
  /\ out' = IF det = None THEN out ELSE Append(out, Line("close"))
  /\ det' = None
  /\ pending' = IF det = None THEN pending ELSE NonePending
  /\ ReaderUnchanged
  /\ UNCHANGED <<open, ring, engine>>

(* close_window() *)
DspClose ==
  /\ Receives("close")
  /\ out' = IF det = None THEN out ELSE Append(out, Line("close"))
  /\ det' = None
  /\ open' = IF det = None THEN open ELSE {}
  /\ pending' = IF det = None THEN pending ELSE NonePending
  /\ ReaderUnchanged
  /\ UNCHANGED <<ring, engine>>

Sat(n) == IF n < 0 THEN 0 ELSE n
Lesser(m, n) == IF m < n THEN m ELSE n

Holds(start, n, written) == /\ n > 0
                            /\ start + n <= written
                            /\ start + RingCapacity >= written

(* Mutant: an event marked as a harmonic is analysed all the same. *)
DecisionBoth(ch, start, n, written, opened, louder) ==
  LET parents == {p \in opened \ {ch} : <<ch, p>> \in louder}
  IN IF ch \notin opened \/ n < MinAnalyze THEN {}
     ELSE {[k |-> "h", ch |-> ch, parent |-> p] : p \in parents} \cup
          (IF Holds(start, n, written)
             THEN {[k |-> "a", ch |-> ch, start |-> start, n |-> n]} ELSE {})

(* analyse(): what to do with the first n samples of an event -- nothing,  *)
(* mark it a harmonic of a louder open channel, or queue an analysis.      *)
Decision(ch, start, n, written, opened, louder) ==
  LET parents == {p \in opened \ {ch} : <<ch, p>> \in louder}
  IN IF ch \notin opened \/ n < MinAnalyze THEN {}
     ELSE IF parents # {}
       THEN {[k |-> "h", ch |-> ch, parent |-> CHOOSE p \in parents : TRUE]}
     ELSE IF Holds(start, n, written)
       THEN {[k |-> "a", ch |-> ch, start |-> start, n |-> n]}
     ELSE {}

(* frame(), with a detector: events start, analyses that have enough       *)
(* samples are decided, then events end, in ascending channel order, each  *)
(* deciding an analysis still pending with what there is.                  *)
DspFrame ==
  /\ Receives("frame")
  /\ det # None
  /\ \E started \in SUBSET (Channels \ open), ended \in SUBSET open,
        louder \in SUBSET HarmonicPairs :
       LET written == ring.written + 1
           from    == Sat(Sat(ring.written - (MinFrames - 1)) - Pretrigger)
           te      == Sat(ring.written - (HangFrames - 1))
           begun   == [c \in Channels |-> IF c \in started THEN from ELSE pending[c]]
           opened  == open \cup started
           waiting == {c \in Channels : begun[c] # None}
           isDue   == {c \in waiting : written >= begun[c] + Analyze}
           due     == UNION {Decision(c, begun[c], Analyze, written, opened, louder) :
                               c \in isDue}
           fin     == UNION {Decision(c, begun[c],
                                      Lesser(Sat(te - begun[c]), Analyze), written,
                                      opened \ {d \in ended : d < c}, louder) :
                               c \in (waiting \ isDue) \cap ended}
       IN /\ written < Warmup => started \cup ended = {}
          /\ ring' = [ring EXCEPT !.written = written]
          /\ pending' = [c \in Channels |->
                           IF c \in isDue \cup ended THEN None ELSE begun[c]]
          /\ open' = opened \ ended
          /\ out' = IF started \cup ended = {} /\ due = {} THEN out
                    ELSE Append(out, Frame(ring.gen, started, due, fin, ended))
  /\ ReaderUnchanged
  /\ UNCHANGED <<det, engine>>

DspFrameUnheard ==
  /\ Receives("frame")
  /\ det = None
  /\ ring' = [ring EXCEPT !.written = @ + 1]
  /\ ReaderUnchanged
  /\ UNCHANGED <<det, open, pending, out, engine>>

DspOverflow ==
  /\ Receives("overflow")
  /\ ReaderUnchanged
  /\ UNCHANGED <<det, ring, open, pending, out, engine>>

DspReturns(kind, lines) ==
  /\ Receives(kind)
  /\ out' = out \o lines
  /\ engine' = "leaving"
  /\ ReaderUnchanged
  /\ UNCHANGED <<det, ring, open, pending>>

DspStop  == DspReturns("stop", <<>>)
DspStall == DspReturns("stall", <<Line("stall")>>)
DspEof   == DspReturns("eof", <<Line("eof")>>)

Dsp == DspTuned \/ DspWindow \/ DspClose \/ DspFrame \/ DspFrameUnheard
       \/ DspOverflow \/ DspStop \/ DspStall \/ DspEof

-----------------------------------------------------------------------------
(* The process. *)

(* main() joins the threads, flushes the writer and exits; the end of the  *)
(* pipe reaches the orchestrator after every line.                         *)
Exit ==
  /\ engine = "leaving"
  /\ engine' = "gone"
  /\ out' = Append(out, Line("__eof__"))
  /\ UNCHANGED <<cmds, reader, todo, stalled, reads, toDsp, det, ring, open, pending>>

(* Killed, or a panic of the dsp thread: lines not yet in the pipe are lost. *)
Crash ==
  /\ "crash" \in may
  /\ engine # "gone"
  /\ engine' = "gone"
  /\ \E k \in 0 .. Len(out) : out' = Append(SubSeq(out, 1, k), Line("__eof__"))
  /\ UNCHANGED <<cmds, reader, todo, stalled, reads, toDsp, det, ring, open, pending>>

EngineInit ==
  /\ may \in Kinds
  /\ cmds = <<>>
  /\ reader = "idle"
  /\ todo = <<>>
  /\ stalled = 0
  /\ reads = 0
  /\ toDsp = <<>>
  /\ det = None
  /\ ring = [gen |-> 0, center |-> None, written |-> 0]
  /\ open = {}
  /\ pending = NonePending
  /\ out = <<>>
  /\ engine = "up"

EngineNext == Reader \/ Dsp \/ Exit \/ Crash
=============================================================================
