---------------------------- MODULE CaptureLoop ----------------------------
(***************************************************************************)
(* The Python engine: one process whose main thread reads the radio,       *)
(* detects, writes the survey database and rotates through the windows,    *)
(* and whose analysis thread is fed through a bounded queue and answers    *)
(* through an unbounded one (CaptureLoop, AnalysisWorker, Ring, EventLog   *)
(* of survey_prototype.py).                                                *)
(*                                                                         *)
(* Time is counted in frames.  Which channels the detector reports         *)
(* (EventTracker models the rule) and which of two harmonically related    *)
(* channels is the louder are left open.                                   *)
(***************************************************************************)
EXTENDS Integers, Sequences, SequencesExt, FiniteSets

CONSTANTS
  NChannels,
  HarmonicPairs,  \* <<ch, p>>: ch is at an odd multiple >= 3 of p's offset
  Windows,        \* centres of the profile's windows, in order
  Modes,          \* which of "radio" and "simulate" (--simulate)
  StallFrames,    \* STALL_FRAMES
  DwellReads,     \* reads of 2 s that deliver nothing in one dwell
  MinFrames, HangFrames, Pretrigger, Analyze, MinAnalyze, Warmup,
  RingCapacity,   \* frames held by the ring
  JobDepth,       \* depth of the job queue
  Gain, MaxGain,  \* the configured gain and the receiver's, in probe steps
  FrontEnd,       \* per centre, the noise floor at each gain, in tenths of a dB
  Budget,         \* --capture-mb, and what a file takes beyond its samples,
  Overhead,       \*   in frames
  FreeSpace,      \* what may be written before a full disk has MIN_FREE_MB left
  Faults,         \* sets of failures that may happen in one behaviour
  MaxReads,       \* bound: reads of a live radio, and silences of a sweep, in one behaviour
  MaxVisits       \* bound: windows opened (one more if the radio has died)

Channels == 1 .. NChannels
None     == -1

ASSUME CaptureConstants ==
  /\ {NChannels, StallFrames, MinFrames, HangFrames, MinAnalyze, Warmup, JobDepth,
      MaxVisits} \subseteq Nat \ {0}
  /\ {DwellReads, Pretrigger, Analyze, RingCapacity, MaxReads} \subseteq Nat
  /\ HarmonicPairs \subseteq Channels \X Channels
  /\ Windows \in Seq(Nat) /\ Windows # <<>>
  /\ Modes \subseteq {"radio", "simulate"}
  /\ Gain \in 0 .. MaxGain /\ MaxGain \in Nat
  /\ {Budget, Overhead, FreeSpace} \subseteq Nat
  /\ Faults \subseteq SUBSET {"stall", "overflow", "radio", "profile", "db", "slow",
                             "keep", "disk", "top"}

ASSUME FrontEndAssumption == FrontEnd \in [Range(Windows) -> [0 .. MaxGain -> Int]]

(* What is analysed is the reach back and the dwell together. *)
ASSUME AnalyzeAssumption == Pretrigger < Analyze

VARIABLES
  pc,        \* where go() or finish() is
  mode,      \* args.simulate or not
  running,   \* self.running, cleared by SIGINT and by go() itself
  visits,    \* windows visited: win_idx, counting the one in progress
  stalled,   \* self.stalled
  gain,      \* of the radio
  probe,     \* the sweep of the gain: upwards or not, and the floors so far
  written,   \* ring.written
  pending,   \* self.pending: per channel, where its undecided analysis starts
  windowId,  \* self.window_id
  logWindow, \* self.log.window_id
  openRows,  \* self.log.open_rows
  line,      \* what is left to do of the frame in hand
  jobs, results,
  worker,    \* the analysis thread: job in hand, "idle" or "exited"
  status,    \* exit status
  store,     \* the captures: written and stopped, and the rows they are attached to
  run, windows, events, \* the database: runs and run_receivers, coverage_windows, events
  may,       \* the failures of this behaviour; "keep" is --capture-dir, and
             \*   "top" a receiver with little room above the configured gain
  dead,      \* the radio has stopped delivering for good
  reads,     \* reads of a live radio
  silent,    \* history: empty reads in a row, in whatever windows
  signalled, failures, gaveUp \* history: SIGINT came; exceptions; stop() timed out

radioVars == <<gain, probe>>
loopVars == <<pc, mode, running, visits, stalled, written, pending, windowId,
              logWindow, openRows, line, status, radioVars>>
workVars == <<jobs, results, worker>>
dbVars   == <<run, windows, events, store>>
envVars  == <<may, dead, reads, silent, signalled, failures, gaveUp>>
vars     == <<loopVars, workVars, dbVars, envVars>>

NoLine == [s |-> {}, due |-> {}, e |-> {}, from |-> None, te |-> None]
NoJob  == [row |-> None, gen |-> None, start |-> None, n |-> None]
NoRows == [c \in Channels |-> None]
MinOf(S) == CHOOSE c \in S : \A d \in S : c <= d
Sat(n) == IF n < 0 THEN 0 ELSE n
Lesser(m, n) == IF m < n THEN m ELSE n

Rotating == Len(Windows) > 1

-----------------------------------------------------------------------------
(* run(), up to go(): nothing of it is under go()'s finally. *)

StartsUp(from, to) ==
  /\ pc = from
  /\ pc' = to
  /\ UNCHANGED <<mode, running, visits, stalled, written, pending, windowId, logWindow,
                 openRows, line, status, radioVars, workVars, windows, events, store, envVars>>

Configure == StartsUp("configure", "start") /\ UNCHANGED run

StartRun == StartsUp("start", "register") /\ run' = "started"

RegisterReceiver == StartsUp("register", "stream") /\ run' = "registered"

StartStream == StartsUp("stream", "open") /\ UNCHANGED run

StartUp == Configure \/ StartRun \/ RegisterReceiver \/ StartStream

-----------------------------------------------------------------------------
(* go() and open_window() *)

ThisWindow == Len(windows) + 1

(* The scenario of a simulated radio starts again at every tune. *)
Rewinds == mode = "simulate"

FirstSweep == [up |-> FALSE, floors |-> <<>>]

OpenWindow ==
  /\ pc = "open" /\ running
  /\ visits < IF dead THEN MaxVisits + 1 ELSE MaxVisits
  /\ visits' = visits + 1
  /\ windows' = Append(windows, [center |-> Windows[(visits % Len(Windows)) + 1],
                                 closed |-> FALSE, linear |-> "unset"])
  /\ windowId' = ThisWindow /\ logWindow' = ThisWindow
  /\ pending' = NoRows
  /\ written' = 0 /\ stalled' = 0
  /\ pc' = "probe" /\ probe' = FirstSweep
  /\ UNCHANGED <<mode, running, openRows, line, status, gain, workVars, run, events, store>>
  /\ dead' = (dead /\ ~Rewinds)
  /\ UNCHANGED <<may, reads, silent, signalled, failures, gaveUp>>

Goes(from, to) ==
  /\ pc = from
  /\ pc' = to
  /\ UNCHANGED <<mode, visits, written, pending, logWindow, openRows, line, workVars, run, store>>

-----------------------------------------------------------------------------
(* check_linearity(), and the last lines of open_window(): a sweep of three *)
(* gains that ends at the configured one and, if that says nothing, one     *)
(* that begins there.  How a band's floor answers to the gain is FrontEnd's *)
(* to say; a step of gain whose reads all come back empty ends the sweep.   *)

Sweep(up) == IF up THEN <<Gain, Gain + 1, Gain + 2>> ELSE <<Gain - 2, Gain - 1, Gain>>

HighestGain == IF "top" \in may THEN Gain + 1 ELSE MaxGain

Possible(up) == Sweep(up)[1] >= 0 /\ Sweep(up)[3] <= HighestGain

MinRise == 20      \* COMPRESSION_MIN_RISE_DB, in tenths

(* COMPRESSION_RATIO is 0.7. *)
CompressionVerdict(floors) ==
  LET first  == floors[2] - floors[1]
      second == floors[3] - floors[2]
  IN IF first < MinRise THEN "inconclusive"
     ELSE IF 10 * second < 7 * first THEN "compressed" ELSE "linear"

SetWindowLinearity(verdict) ==
  /\ windows' = [windows EXCEPT ![windowId].linear = verdict]
  /\ pc' = "read" /\ probe' = FirstSweep

(* A sweep is over, or there is no room for it between the gains there are. *)
SweepSays(verdict) ==
  IF verdict = "inconclusive" /\ ~probe.up
    THEN pc' = pc /\ probe' = [up |-> TRUE, floors |-> <<>>] /\ UNCHANGED windows
    ELSE SetWindowLinearity(verdict)

(* Mutant: only a sweep that has come to its end restores the gain. *)
RestoredAtEnd == IF Len(probe.floors) = 3 THEN Gain ELSE gain

Restored == Gain

ProbeUnchanged == UNCHANGED <<mode, running, visits, stalled, written, pending, windowId,
                              logWindow, openRows, line, status, workVars, run, events, store,
                              may, dead, signalled, failures, gaveUp>>

Unchecked ==
  /\ pc = "probe" /\ mode = "simulate"
  /\ SetWindowLinearity("unchecked")
  /\ UNCHANGED <<gain, reads, silent>>
  /\ ProbeUnchanged

Probing == pc = "probe" /\ mode = "radio" /\ Len(probe.floors) < 3

ProbeGain ==
  /\ Probing /\ Possible(probe.up) /\ ~dead
  /\ LET g == Sweep(probe.up)[Len(probe.floors) + 1]
     IN /\ gain' = g
        /\ probe' = [probe EXCEPT !.floors = Append(@, FrontEnd[windows[windowId].center][g])]
  /\ silent' = 0
  /\ UNCHANGED <<pc, windows, reads>>
  /\ ProbeUnchanged

ProbeHearsNothing ==
  /\ Probing /\ Possible(probe.up)
  /\ dead \/ ("stall" \in may /\ reads < MaxReads)
  /\ reads' = IF dead THEN reads ELSE reads + 1
  /\ SweepSays("inconclusive")
  /\ gain' = Restored
  /\ UNCHANGED silent
  /\ ProbeUnchanged

SkipSweep ==
  /\ Probing /\ ~Possible(probe.up)
  /\ SweepSays("inconclusive")
  /\ UNCHANGED <<gain, reads, silent>>
  /\ ProbeUnchanged

EndSweep ==
  /\ pc = "probe" /\ Len(probe.floors) = 3
  /\ SweepSays(CompressionVerdict(probe.floors))
  /\ gain' = Restored
  /\ UNCHANGED <<reads, silent>>
  /\ ProbeUnchanged

CheckLinearity == Unchecked \/ ProbeGain \/ ProbeHearsNothing \/ SkipSweep \/ EndSweep

-----------------------------------------------------------------------------
(* The dwell *)

(* The dwell of a window is over when its clock says so; a window in which *)
(* every read came back empty lasts DwellReads of them.                    *)
Silent    == Rotating /\ mode = "radio" /\ stalled >= DwellReads
DwellOver == Rotating /\ (Silent \/ ~dead \/ written > 0)

MayRead == running /\ line = NoLine /\ ~Silent

LeaveWindow ==
  /\ line = NoLine
  /\ ~running \/ DwellOver
  /\ Goes("read", "close") /\ UNCHANGED radioVars
  /\ UNCHANGED <<running, stalled, windowId, status, windows, events, envVars>>

-----------------------------------------------------------------------------
(* read_and_process() *)

LiveRead ==
  /\ pc = "read" /\ MayRead
  /\ ~dead /\ reads < MaxReads
  /\ reads' = reads + 1
  /\ silent' = 0
  /\ stalled' = 0
  /\ UNCHANGED <<may, dead, signalled, failures, gaveUp>>

(* An overflow is a sign of life, but its samples are lost. *)
ReadOverflow ==
  /\ "overflow" \in may /\ mode = "radio"
  /\ LiveRead
  /\ UNCHANGED <<pc, mode, running, visits, written, pending, windowId, logWindow,
                 openRows, line, status, radioVars, workVars, dbVars>>

ReadNothing ==
  /\ pc = "read" /\ MayRead
  /\ dead \/ ("stall" \in may /\ mode = "radio" /\ reads < MaxReads)
  /\ reads' = IF dead THEN reads ELSE reads + 1
  /\ stalled' = stalled + 1 /\ silent' = Lesser(silent + 1, StallFrames + 1)
  /\ pc' = IF stalled' < StallFrames THEN "read" ELSE "close"
  /\ UNCHANGED <<mode, running, visits, written, pending, windowId, logWindow,
                 openRows, line, status, radioVars, workVars, dbVars>>
  /\ UNCHANGED <<may, dead, signalled, failures, gaveUp>>

(* Mutant: results are folded into the channel's open row. *)
AppliedByChannel(rs) ==
  [r \in DOMAIN events |->
     LET of == {i \in DOMAIN rs : rs[i].ok /\ openRows[events[rs[i].row].ch] = r}
     IN IF of = {} THEN events[r]
        ELSE [events[r] EXCEPT !.result = rs[CHOOSE i \in of : TRUE].gen]]

(* _collect(): results are folded into rows by id, open or not. *)
Applied(rs) ==
  [r \in DOMAIN events |->
     LET of == {i \in DOMAIN rs : rs[i].row = r /\ rs[i].ok}
     IN IF of = {} THEN events[r]
        ELSE [events[r] EXCEPT !.result = rs[CHOOSE i \in of : TRUE].gen]]

(* CaptureStore: room for a capture is asked for what its samples take, and *)
(* what is refused once is refused for good.                                *)

DiskFull(s) == "disk" \in may /\ s.written > FreeSpace

(* Mutant: the cap is looked at once it is exceeded. *)
RoomAfter(s, n) == ~s.stopped /\ s.written <= Budget /\ ~DiskFull(s)

RoomFor(s, n) == ~s.stopped /\ s.written + n <= Budget /\ ~DiskFull(s)

Keeps == "keep" \in may

Stored(s, result) ==
  IF ~result.ok \/ ~Keeps THEN s
  ELSE IF RoomFor(s, result.n)
    THEN [s EXCEPT !.written = @ + result.n + Overhead, !.rows = @ \cup {result.row}]
    ELSE [s EXCEPT !.stopped = TRUE]

StoredAll(rs) == FoldLeft(Stored, store, rs)

(* A frame too short to make a spectrum of is only kept. *)
FrameShort ==
  /\ LiveRead
  /\ written' = written + 1
  /\ UNCHANGED <<pc, mode, running, visits, pending, windowId, logWindow, openRows,
                 line, status, radioVars, workVars, dbVars>>

Settled(l) == IF l.s = {} /\ l.due = {} /\ l.e = {} THEN NoLine ELSE l

InProgress == {c \in Channels : openRows[c] # None}
Declared(c) == events[openRows[c]].from + MinFrames - 1

(* _frame(): the results are collected, then the detector steps.  A hang   *)
(* of cold frames can only follow the frame an event was declared in.      *)
Frame ==
  /\ LiveRead
  /\ written' = written + 1
  /\ events' = Applied(results) /\ store' = StoredAll(results) /\ results' = <<>>
  /\ \E s \in SUBSET (Channels \ InProgress),
        e \in SUBSET {c \in InProgress : written >= Declared(c) + HangFrames} :
       LET from == Sat(written - (MinFrames - 1))
           begun == [c \in Channels |-> IF c \in s THEN Sat(from - Pretrigger)
                                                   ELSE pending[c]]
       IN /\ written' < Warmup => s \cup e = {}
          /\ pending' = begun
          /\ line' = Settled([s |-> s, e |-> e, from |-> from,
                              te |-> Sat(written - (HangFrames - 1)),
                              due |-> {c \in Channels : begun[c] # None
                                                        /\ written' >= begun[c] + Analyze}])
  /\ pc' = "read"
  /\ UNCHANGED <<mode, running, visits, windowId, logWindow, openRows, status>>
  /\ UNCHANGED <<radioVars, jobs, worker, run, windows>>

-----------------------------------------------------------------------------
(* The rest of _frame(), one database statement or one job at a time.      *)

FrameUnchanged == UNCHANGED <<pc, mode, running, visits, stalled, written, windowId,
                              logWindow, status, radioVars, results, worker, run, windows, store,
                              envVars>>

(* EventLog.start() *)
Start ==
  /\ line.s # {}
  /\ LET ch == MinOf(line.s)
     IN /\ events' = Append(events, [ch |-> ch, window |-> logWindow, heard |-> visits,
                                     from |-> line.from, closed |-> None,
                                     parent |-> None, result |-> None])
        /\ openRows' = [openRows EXCEPT ![ch] = Len(events')]
        /\ line' = Settled([line EXCEPT !.s = @ \ {ch}])
  /\ UNCHANGED <<pending, jobs>>
  /\ FrameUnchanged

(* Ring.get() *)
Held(start, n) == /\ start >= 0 /\ n > 0
                  /\ start >= written - RingCapacity
                  /\ start + n <= written

Accepts == Len(jobs) < JobDepth

(* _analyse() and _harmonic_parent(): once per event; a stronger open      *)
(* channel may be its parent; else what the ring still has of it is        *)
(* submitted, or skipped if the queue is full.                             *)
Analyse(ch, n) ==
  /\ pending' = [pending EXCEPT ![ch] = None]
  /\ LET row == openRows[ch]
         parents == {p \in InProgress \ {ch} : <<ch, p>> \in HarmonicPairs}
     IN IF row = None \/ n < MinAnalyze THEN UNCHANGED <<events, jobs>>
        ELSE \/ /\ \E p \in parents : events' = [events EXCEPT ![row].parent = openRows[p]]
                /\ UNCHANGED jobs
             \/ /\ jobs' = IF Held(pending[ch], n) /\ Accepts
                             THEN Append(jobs, [row |-> row, gen |-> visits,
                                                start |-> pending[ch], n |-> n])
                             ELSE jobs
                /\ UNCHANGED events

AnalyseDue ==
  /\ line.s = {}
  /\ \E ch \in line.due :
       /\ Analyse(ch, Analyze)
       /\ line' = Settled([line EXCEPT !.due = @ \ {ch}])
  /\ UNCHANGED openRows
  /\ FrameUnchanged

Ending == MinOf(line.e)

Available == Lesser(line.te - pending[Ending], Analyze)

AnalyseLast ==
  /\ line.s = {} /\ line.due = {} /\ line.e # {}
  /\ pending[Ending] # None
  /\ Analyse(Ending, Available)
  /\ UNCHANGED <<openRows, line>>
  /\ FrameUnchanged

(* EventLog.close() *)
End ==
  /\ line.s = {} /\ line.due = {} /\ line.e # {}
  /\ pending[Ending] = None
  /\ events' = IF openRows[Ending] = None THEN events
               ELSE [events EXCEPT ![openRows[Ending]].closed = visits]
  /\ openRows' = [openRows EXCEPT ![Ending] = None]
  /\ line' = Settled([line EXCEPT !.e = @ \ {Ending}])
  /\ UNCHANGED <<pending, jobs>>
  /\ FrameUnchanged

-----------------------------------------------------------------------------
(* close_window(), at the end of a dwell and again in finish(). *)

(* Mutant: rows still to be analysed are left open. *)
RowsClosedIfDecided(done) ==
  [r \in DOMAIN events |->
     IF \E c \in done : openRows[c] = r /\ pending[c] = None
       THEN [events[r] EXCEPT !.closed = visits] ELSE events[r]]

RowsClosed(done) ==
  [r \in DOMAIN events |-> IF \E c \in done : openRows[c] = r
                             THEN [events[r] EXCEPT !.closed = visits] ELSE events[r]]

(* Mutant: the window's row is never given an end. *)
WindowLeftOpen == windows

WindowClosed == IF windowId = None THEN windows
                ELSE [windows EXCEPT ![windowId].closed = TRUE]

Close == /\ events' = RowsClosed(InProgress)
         /\ openRows' = NoRows
         /\ windows' = WindowClosed
         /\ windowId' = None

Stalled == stalled >= StallFrames /\ mode = "radio"

(* Mutant: the stall is noticed but not reported. *)
StallStatusZero == 0

StallStatus == IF Stalled THEN 1 ELSE status

(* Mutant: a radio that delivers nothing is given another window. *)
GoesOnStalled == running /\ ~(mode = "simulate" /\ visits >= Len(Windows))

GoesOn == running /\ ~Stalled /\ ~(mode = "simulate" /\ visits >= Len(Windows))

(* The end of go()'s loop. *)
CloseWindow ==
  /\ pc = "close"
  /\ Close
  /\ pc' = "open"
  /\ status' = StallStatus
  /\ running' = GoesOn
  /\ UNCHANGED <<mode, visits, stalled, written, pending, logWindow, line>>
  /\ UNCHANGED <<radioVars, workVars, run, store, envVars>>

-----------------------------------------------------------------------------
(* finish() *)

StopSeen ==
  /\ ~running
  /\ Goes("open", "stop") /\ UNCHANGED radioVars
  /\ UNCHANGED <<running, stalled, windowId, status, windows, events, envVars>>

(* AnalysisWorker.stop(): put(None), then join(), of 5 s each. *)
PutNone ==
  /\ pc = "stop"
  /\ Len(jobs) < JobDepth
  /\ jobs' = Append(jobs, NoJob)
  /\ pc' = "join"
  /\ UNCHANGED <<mode, running, visits, stalled, written, pending, windowId, logWindow,
                 openRows, line, status, radioVars, results, worker, dbVars, envVars>>

(* Mutant: finish() collects without waiting for the thread. *)
JoinedAlways == TRUE

Joined == worker.state = "exited"

Join ==
  /\ Joined
  /\ Goes("join", "collect") /\ UNCHANGED radioVars
  /\ UNCHANGED <<running, stalled, windowId, status, windows, events, envVars>>

StopTimesOut ==
  /\ "slow" \in may
  /\ \/ Goes("stop", "collect") /\ Len(jobs) >= JobDepth
     \/ Goes("join", "collect") /\ worker.state = "busy"
  /\ gaveUp' = TRUE
  /\ UNCHANGED <<radioVars, running, stalled, windowId, status, windows, events>>
  /\ UNCHANGED <<may, dead, reads, silent, signalled, failures>>

Collect ==
  /\ pc = "collect"
  /\ events' = Applied(results) /\ store' = StoredAll(results) /\ results' = <<>>
  /\ pc' = "last"
  /\ UNCHANGED <<mode, running, visits, stalled, written, pending, windowId, logWindow,
                 openRows, line, status, radioVars, jobs, worker, run, windows, envVars>>

CloseLast ==
  /\ pc = "last"
  /\ Close
  /\ pc' = "end"
  /\ UNCHANGED <<mode, running, visits, stalled, written, pending, logWindow, line,
                 status, radioVars, workVars, run, store, envVars>>

(* db.end_run(), the radio, which may refuse to stop, and the process with *)
(* its daemon thread.                                                      *)
EndRun ==
  /\ pc = "end"
  /\ run' = "ended"
  /\ pc' = "done"
  /\ status' \in {status} \cup (IF "radio" \in may /\ mode = "radio" THEN {1} ELSE {})
  /\ UNCHANGED <<mode, running, visits, stalled, written, pending, windowId, logWindow,
                 openRows, line, radioVars, workVars, windows, events, store, envVars>>

-----------------------------------------------------------------------------
(* Exceptions: go() hands them on through finish(), which does not survive *)
(* another one, and before go() nothing catches them.  The process ends    *)
(* either way, with a traceback.                                           *)

Starting == pc \in {"configure", "start", "register", "stream"}
InFinish == pc \in {"collect", "last", "end"}

Raises ==
  /\ failures' = failures + 1
  /\ status' = 1
  /\ pc' = IF Starting \/ InFinish THEN "done" ELSE "stop"
  /\ line' = NoLine
  /\ UNCHANGED <<mode, running, visits, pending, logWindow, jobs, worker, run>>
  /\ UNCHANGED <<may, dead, reads, silent, signalled, gaveUp>>

(* The radio refuses to open, a tune (before the window is on record) or a *)
(* gain (and may refuse the one to be restored), or check_antenna() meets  *)
(* a profile with dummy_floor_dbfs alone.                                  *)
RadioRaises ==
  /\ \/ "radio" \in may /\ mode = "radio" /\ pc \in {"configure", "stream"}
     \/ "radio" \in may /\ mode = "radio" /\ pc = "open" /\ running
     \/ "radio" \in may /\ Probing
     \/ "profile" \in may /\ pc = "read" /\ MayRead /\ written = 0 /\ ~dead /\ mode = "radio"
  /\ Raises
  /\ gain' \in IF pc = "probe" THEN {gain, Restored} ELSE {gain}
  /\ probe' = FirstSweep
  /\ UNCHANGED <<stalled, written, windowId, openRows, results, windows, events, store>>

(* The file of a capture cannot be written: its result is applied, it is   *)
(* not, and those drained after it are lost.                               *)
DiskRaises ==
  /\ "disk" \in may
  /\ Raises
  /\ pc = "collect" \/ (pc = "read" /\ line = NoLine)
  /\ \E k \in DOMAIN results :
       LET before == StoredAll(SubSeq(results, 1, k - 1))
       IN /\ results[k].ok /\ Keeps /\ RoomFor(before, results[k].n)
          /\ store' = before
          /\ events' = Applied(SubSeq(results, 1, k))
  /\ results' = <<>>
  /\ UNCHANGED <<stalled, written, windowId, openRows, windows, radioVars>>

(* EventLog.close() has popped the row before its statement fails; a       *)
(* failing start() is after pending was set; what was collected after the  *)
(* result that failed, in apply() or in attach_capture(), is lost.         *)
DbRaises ==
  /\ "db" \in may
  /\ Raises
  /\ \/ /\ \/ pc \in {"start", "register", "end"} \/ (pc = "open" /\ running)
           \/ pc = "probe" /\ (mode = "simulate" \/ Len(probe.floors) = 3)
        /\ UNCHANGED <<openRows, results, events, store>>
     \/ /\ pc = "read" /\ line # NoLine
        /\ \/ UNCHANGED openRows
           \/ line.e # {} /\ openRows' = [openRows EXCEPT ![Ending] = None]
        /\ UNCHANGED <<results, events, store>>
     \/ /\ pc = "collect" \/ (pc = "read" /\ line = NoLine)
        /\ \E k \in 0 .. Len(results) :
             /\ \/ k < Len(results) /\ results[k + 1].ok
                \/ k > 0 /\ results[k].ok /\ Keeps
             /\ events' = Applied(SubSeq(results, 1, k))
             /\ store' = StoredAll(SubSeq(results, 1, k))
        /\ results' = <<>>
        /\ UNCHANGED openRows
     \/ /\ pc \in {"close", "last"}
        /\ \E done \in SUBSET InProgress :
             /\ events' = RowsClosed(done)
             /\ openRows' \in {[c \in Channels |-> IF c \in done \cup lost THEN None
                                                   ELSE openRows[c]] :
                               lost \in {{}} \cup {{c} : c \in InProgress \ done}}
        /\ UNCHANGED <<results, store>>
  /\ gain' = IF pc = "probe" THEN Restored ELSE gain
  /\ probe' = FirstSweep
  /\ UNCHANGED <<stalled, written, windowId, windows>>

-----------------------------------------------------------------------------
(* AnalysisWorker._run() *)

WorkerUnchanged == UNCHANGED <<loopVars, dbVars, envVars>>

TakeJob ==
  /\ pc # "done"
  /\ worker.state = "idle" /\ jobs # <<>>
  /\ jobs' = Tail(jobs)
  /\ worker' = IF Head(jobs) = NoJob THEN [state |-> "exited", job |-> NoJob]
               ELSE [state |-> "busy", job |-> Head(jobs)]
  /\ UNCHANGED results
  /\ WorkerUnchanged

(* analyze_analog() answers or raises. *)
FinishJob ==
  /\ pc # "done"
  /\ worker.state = "busy"
  /\ \E ok \in BOOLEAN :
       results' = Append(results, [row |-> worker.job.row, gen |-> worker.job.gen, ok |-> ok,
                                   n |-> IF Keeps THEN worker.job.n ELSE 0])
  /\ worker' = [state |-> "idle", job |-> NoJob]
  /\ UNCHANGED jobs
  /\ WorkerUnchanged

Worker == TakeJob \/ FinishJob

-----------------------------------------------------------------------------
Init ==
  /\ pc = "configure" /\ mode \in Modes /\ running = TRUE /\ visits = 0
  /\ gain = Gain /\ probe = FirstSweep
  /\ store = [written |-> 0, stopped |-> FALSE, rows |-> {}]
  /\ stalled = 0 /\ written = 0 /\ pending = NoRows
  /\ windowId = None /\ logWindow = None /\ openRows = NoRows /\ line = NoLine
  /\ jobs = <<>> /\ results = <<>> /\ worker = [state |-> "idle", job |-> NoJob]
  /\ status = 0
  /\ run = "none" /\ windows = <<>> /\ events = <<>>
  /\ may \in (IF mode = "simulate" THEN {{}} ELSE Faults) /\ dead = FALSE /\ reads = 0 /\ silent = 0
  /\ signalled = FALSE /\ failures = 0 /\ gaveUp = FALSE

Main == \/ StartUp \/ OpenWindow \/ CheckLinearity \/ LeaveWindow
        \/ ReadOverflow \/ ReadNothing \/ FrameShort \/ Frame
        \/ Start \/ AnalyseDue \/ AnalyseLast \/ End \/ CloseWindow
        \/ StopSeen \/ PutNone \/ Join \/ StopTimesOut \/ Collect \/ CloseLast \/ EndRun

Raised == RadioRaises \/ DbRaises \/ DiskRaises

(* Both are only noticed where the loop looks at them, so they come there.  *)
Looking == pc \in {"open", "read"} /\ line = NoLine

Sigint ==
  /\ Looking /\ ~signalled
  /\ signalled' = TRUE
  /\ running' = FALSE
  /\ UNCHANGED <<pc, mode, visits, stalled, written, pending, windowId, logWindow,
                 openRows, line, status, radioVars, workVars, dbVars>>
  /\ UNCHANGED <<may, dead, reads, silent, failures, gaveUp>>

(* Until CaptureLoop has its handler, SIGINT is Python's KeyboardInterrupt. *)
Interrupt ==
  /\ Starting
  /\ signalled' = TRUE
  /\ status' = 1 /\ pc' = "done"
  /\ UNCHANGED <<mode, running, visits, stalled, written, pending, windowId, logWindow,
                 openRows, line, radioVars, workVars, dbVars>>
  /\ UNCHANGED <<may, dead, reads, silent, failures, gaveUp>>

(* The radio stops for good, or a simulated scenario is over. *)
RadioDies ==
  /\ "stall" \in may \/ mode = "simulate"
  /\ Looking /\ running /\ ~dead
  /\ dead' = TRUE
  /\ UNCHANGED <<loopVars, workVars, dbVars>>
  /\ UNCHANGED <<may, reads, silent, signalled, failures, gaveUp>>

Done == pc = "done" /\ UNCHANGED vars

Next == Main \/ Raised \/ Worker \/ Sigint \/ Interrupt \/ RadioDies \/ Done

Spec == Init /\ [][Next]_vars

(* Both threads run whenever they can; nothing makes a failure happen.      *)
FairSpec == Spec /\ WF_vars(Main) /\ WF_vars(Worker)

-----------------------------------------------------------------------------
(* Properties. *)

(* What is analysed for an event is its own band and begins no later than  *)
(* the event does, with some of it inside; and the result applied to a row *)
(* was computed from that row's visit, however late it comes.              *)
AnalysisOfOwnSignal ==
  /\ \A j \in ({jobs[i] : i \in DOMAIN jobs} \cup {worker.job}) \ {NoJob} :
       /\ j.gen = events[j.row].heard
       /\ j.start <= events[j.row].from /\ events[j.row].from < j.start + j.n
  /\ \A r \in DOMAIN events : events[r].result \in {None, events[r].heard}

OpenEvents == {r \in DOMAIN events : events[r].closed = None}

(* However the run ends, finish() closes what is open: an orderly end      *)
(* leaves nothing in flight, and one exception costs at most the end of    *)
(* the one event it interrupted, unless it strikes finish() itself.        *)
OneFailureLosesOneEvent ==
  run = "ended" =>
           /\ \A w \in DOMAIN windows : windows[w].closed
           /\ Cardinality(OpenEvents) <= failures

(* Queued analyses are finished and applied before the run ends, unless    *)
(* the thread was given up on after 5 s or a statement failed.             *)
AnalysesApplied ==
  run = "ended" /\ ~gaveUp /\ failures = 0 =>
    jobs = <<>> /\ results = <<>> /\ worker.state = "exited"

(* The exit status tells the supervisor the truth: zero only for a run     *)
(* that was interrupted or a simulation that has visited every window once.*)
FailureExitsNonzero ==
  pc = "done" /\ status = 0 =>
    /\ failures = 0
    /\ signalled \/ (mode = "simulate" /\ visits = Len(Windows))

(* A stream that delivers nothing STALL_FRAMES times in a row ends the run.*)
StallGivesUp == mode = "radio" => silent <= StallFrames

(* Over the three gains of a sweep, the floor of a band moves by 2 dB or   *)
(* more, and then by 0.7 of that or more.                                  *)
RisesOn(center, up) ==
  LET floor(i) == FrontEnd[center][Sweep(up)[i]]
  IN /\ Possible(up)
     /\ floor(2) >= floor(1) + MinRise
     /\ 10 * (floor(3) - floor(2)) >= 7 * (floor(2) - floor(1))

(* Wherever a sweep is cut short, the frames of a window are read at the   *)
(* configured gain, and a window is on record as linear only if the floor  *)
(* of its own band rises on over all of a sweep that begins or ends there. *)
LinearAtConfiguredGain ==
  /\ pc = "read" => gain = Gain
  /\ \A w \in DOMAIN windows :
       windows[w].linear = "linear" => \E up \in BOOLEAN : RisesOn(windows[w].center, up)

(* What is kept on disk stays within the budget but for the overhead of    *)
(* one file, and is of events that were analysed.                          *)
KeptWithinBudget ==
  /\ store.written <= Budget + Overhead
  /\ \A r \in store.rows : events[r].result # None

(* The tables as SurveyLog has them. *)
LogWindow(w) == [center |-> w.center, closed |-> w.closed,
                 linear |-> IF w.linear = "unset" THEN None ELSE w.center]
LogRow(e)    == [ch |-> e.ch, window |-> e.window, closed |-> e.closed # None,
                 parent |-> e.parent, analysed |-> e.result # None]
LogWindows == [w \in DOMAIN windows |-> LogWindow(windows[w])]
LogEvents  == [r \in DOMAIN events |-> LogRow(events[r])]
LogEnded   == run = "ended"

Centres == {Windows[i] : i \in DOMAIN Windows}

Log == INSTANCE SurveyLog WITH
  Centers <- Centres, windows <- LogWindows, ended <- LogEnded, events <- LogEvents

(* What one receiver's loop promises the database. *)
ImplementsSurveyLog == Log!Spec

(* Interrupted, or with a radio that has died under it, the process ends.  *)
RunEnds == (signalled \/ (dead /\ mode = "radio")) ~> pc = "done"
=============================================================================
