----------------------------- MODULE EngineLoop -----------------------------
(***************************************************************************)
(* EngineCaptureLoop: the orchestrator of one receiver.  It rotates the    *)
(* engine (RustEngine) through the windows of the profile, replays the     *)
(* engine's decisions into the survey database, hands samples to analyse   *)
(* to a separate process that reads the engine's ring, applies what comes  *)
(* back, and takes everything down in order when the run is stopped.       *)
(***************************************************************************)
EXTENDS RustEngine

CONSTANTS
  Windows,        \* the centres of the profile's windows, in order
  AnalysisDepth,  \* ANALYSIS_DEPTH, the bound of the job queue
  MaxVisits       \* bound: windows opened in one behaviour

ASSUME LoopConstants ==
  /\ Windows \in Seq(Nat) /\ Windows # <<>>
  /\ AnalysisDepth \in Nat \ {0}
  /\ MaxVisits \in Nat \ {0}

VARIABLES
  pc,        \* where go(), open_window() or finish() is
  running,   \* cleared by SIGINT
  visits,    \* open commands sent: win_idx + 1
  center,    \* self.center, set when the engine says it has tuned
  grid,      \* generation, wall clock and channel grid of the last "window"
  windowId,  \* self.window_id: the open row of coverage_windows, or None
  logWindow, \* self.log.window_id: the row new events are attributed to
  openRows,  \* self.log.open_rows: per channel, the open row of events
  line,      \* what is left to replay of the frame message being handled
  jobs,      \* the job queue
  worker,    \* the analysis process: state and job in hand
  results,   \* the result queue
  status,    \* exit status
  windows,   \* table coverage_windows
  events,    \* table events
  ended      \* runs.ended_at is set

loopVars == <<pc, running, visits, center, grid, windowId, logWindow, openRows,
              line, status>>
analysisVars == <<jobs, worker, results>>
dbVars == <<windows, events, ended>>
vars == <<may, engineVars, loopVars, analysisVars, dbVars>>

NoLine  == [heard |-> None, s |-> {}, due |-> {}, fin |-> {}, e |-> {}]
NoJob   == [row |-> None, gen |-> None, start |-> None, n |-> None]
IdleWorker == [state |-> "idle", job |-> NoJob]
NoRows  == [c \in Channels |-> None]
MinOf(S) == CHOOSE c \in S : \A d \in S : c <= d

-----------------------------------------------------------------------------
(* go() and open_window() *)

CmdOpen(c) == [cmd |-> "open", center |-> c]
CmdStop    == [cmd |-> "stop", center |-> None]

OpenWindow ==
  /\ pc = "open"
  /\ visits < MaxVisits
  /\ cmds' = IF engine = "gone" THEN cmds
             ELSE Append(cmds, CmdOpen(Windows[(visits % Len(Windows)) + 1]))
  /\ visits' = visits + 1
  /\ pc' = "tuned"
  /\ UNCHANGED <<reader, todo, stalled, reads, toDsp, det, ring, open, pending, out, engine>>
  /\ UNCHANGED <<running, center, grid, windowId, logWindow, openRows, line, status>>
  /\ UNCHANGED <<analysisVars, dbVars>>

(* Taking a line off the inbox leaves the engine as it is. *)
Takes(t) == /\ line = NoLine
            /\ out # <<>>
            /\ Head(out).t = t
            /\ out' = Tail(out)
            /\ UNCHANGED <<cmds, reader, todo, stalled, reads, toDsp, det, ring, open,
                           pending, engine>>

Handling == {"tuned", "window", "pump", "drain"}

(* _wait_for("tuned"), then db.open_window(); a "tuned" met elsewhere only *)
(* moves self.center.                                                      *)
OnTuned ==
  /\ pc \in Handling
  /\ Takes("tuned")
  /\ center' = Head(out).center
  /\ IF pc = "tuned"
       THEN /\ windows' = Append(windows, [center |-> center', closed |-> FALSE,
                                           linear |-> None])
            /\ windowId' = Len(windows')
            /\ logWindow' = Len(windows')
            /\ pc' = "window"
       ELSE UNCHANGED <<windows, windowId, logWindow, pc>>
  /\ UNCHANGED <<running, visits, grid, openRows, line, status, events, ended>>
  /\ UNCHANGED analysisVars

OnLinearity ==
  /\ pc \in Handling
  /\ Takes("linearity")
  /\ windows' = IF windowId = None THEN windows
                ELSE [windows EXCEPT ![windowId].linear = Head(out).center]
  /\ UNCHANGED <<loopVars, analysisVars, events, ended>>

(* Mutant: the frequencies stay those of the window before. *)
GridOldCenter(m) == [gen |-> m.gen, center |-> grid.center]

(* Mutant: jobs stay stamped with the generation before. *)
GridOldGeneration(m) == [gen |-> grid.gen, center |-> m.center]

(* _apply_window() *)
GridOf(m) == [gen |-> m.gen, center |-> m.center]

OnWindow ==
  /\ pc \in Handling
  /\ Takes("window")
  /\ grid' = GridOf(Head(out))
  /\ pc' = IF pc = "window" THEN "pump" ELSE pc
  /\ UNCHANGED <<running, visits, center, windowId, logWindow, openRows, line, status>>
  /\ UNCHANGED <<analysisVars, dbVars>>

OnFrame ==
  /\ pc \in Handling
  /\ Takes("f")
  /\ line' = [heard |-> Head(out).heard, s |-> Head(out).s, due |-> Head(out).due,
              fin |-> Head(out).fin, e |-> Head(out).e]
  /\ UNCHANGED <<pc, running, visits, center, grid, windowId, logWindow, openRows, status>>
  /\ UNCHANGED <<analysisVars, dbVars>>

(* Mutant: the window's row is never given an end. *)
WindowsLeftOpen == windows

WindowsClosed == IF windowId = None THEN windows
                 ELSE [windows EXCEPT ![windowId].closed = TRUE]

(* _close(): every row still open is closed, then the window's row. *)
OnClose ==
  /\ pc \in Handling
  /\ Takes("close")
  /\ events' = [r \in DOMAIN events |->
                  IF \E c \in Channels : openRows[c] = r
                    THEN [events[r] EXCEPT !.closed = grid.gen] ELSE events[r]]
  /\ openRows' = NoRows
  /\ windows' = WindowsClosed
  /\ windowId' = None
  /\ UNCHANGED <<pc, running, visits, center, grid, logWindow, line, status, ended>>
  /\ UNCHANGED analysisVars

-----------------------------------------------------------------------------
(* _frame(): one database statement, or one job, at a time. *)

ReplayUnchanged == /\ UNCHANGED engineVars
                   /\ UNCHANGED <<pc, running, visits, center, grid, windowId, logWindow,
                                  worker, results, status, windows, ended>>

Rest(l) == IF l.s = {} /\ l.due = {} /\ l.fin = {} /\ l.e = {} THEN NoLine ELSE l

(* log.start() *)
ReplayStart ==
  /\ line.s # {}
  /\ LET ch == MinOf(line.s)
     IN /\ events' = Append(events, [ch |-> ch, window |-> logWindow, gen |-> line.heard,
                                     center |-> grid.center, closed |-> None,
                                     parent |-> None, result |-> None])
        /\ openRows' = [openRows EXCEPT ![ch] = Len(events) + 1]
        /\ line' = Rest([line EXCEPT !.s = @ \ {ch}])
  /\ UNCHANGED jobs
  /\ ReplayUnchanged

JobOf(d) == [row |-> openRows[d.ch], gen |-> grid.gen, start |-> d.start, n |-> d.n]

(* Mutant: the queue takes any number of jobs. *)
AcceptsAlways == TRUE

Accepts == Len(jobs) < AnalysisDepth

(* jobs.put_nowait() or mark_harmonic(); both need the rows to be open. *)
Decide(d) ==
  IF d.k = "a"
    THEN /\ jobs' = IF openRows[d.ch] # None /\ Accepts
                      THEN Append(jobs, JobOf(d)) ELSE jobs
         /\ UNCHANGED events
    ELSE /\ events' = IF openRows[d.ch] # None /\ openRows[d.parent] # None
                        THEN [events EXCEPT ![openRows[d.ch]].parent = openRows[d.parent]]
                        ELSE events
         /\ UNCHANGED jobs

ReplayDue ==
  /\ line.s = {}
  /\ \E d \in line.due :
       /\ Decide(d)
       /\ line' = Rest([line EXCEPT !.due = @ \ {d}])
  /\ UNCHANGED openRows
  /\ ReplayUnchanged

Ending == MinOf(line.e)

ReplayLast ==
  /\ line.s = {} /\ line.due = {} /\ line.e # {}
  /\ \E d \in line.fin :
       /\ d.ch = Ending
       /\ Decide(d)
       /\ line' = Rest([line EXCEPT !.fin = @ \ {d}])
  /\ UNCHANGED openRows
  /\ ReplayUnchanged

(* log.close() *)
ReplayEnd ==
  /\ line.s = {} /\ line.due = {} /\ line.e # {}
  /\ \A d \in line.fin : d.ch # Ending
  /\ LET row == openRows[Ending]
     IN events' = IF row = None THEN events
                  ELSE [events EXCEPT ![row].closed = grid.gen]
  /\ openRows' = [openRows EXCEPT ![Ending] = None]
  /\ line' = Rest([line EXCEPT !.e = @ \ {Ending}])
  /\ UNCHANGED jobs
  /\ ReplayUnchanged

Replay == ReplayStart \/ ReplayDue \/ ReplayLast \/ ReplayEnd

-----------------------------------------------------------------------------
(* _collect(): fold results into rows by id, open or not. *)

Analysed(r) == {i \in 1 .. Len(results) : results[i].row = r /\ results[i].why = "ok"}

Collect ==
  /\ events' = [r \in DOMAIN events |->
                  IF Analysed(r) = {} THEN events[r]
                  ELSE [events[r] EXCEPT
                          !.result = results[CHOOSE i \in Analysed(r) : TRUE].gen]]
  /\ results' = <<>>

(* pump(): what the engine has said is handled until the inbox is empty,   *)
(* then what the analysis process has finished.                            *)
Pumped ==
  /\ pc = "pump"
  /\ line = NoLine /\ out = <<>>
  /\ Collect
  /\ pc' = "check"
  /\ UNCHANGED engineVars
  /\ UNCHANGED <<running, visits, center, grid, windowId, logWindow, openRows, line, status>>
  /\ UNCHANGED <<jobs, worker, windows, ended>>

Goes(from, to) ==
  /\ pc = from
  /\ pc' = to
  /\ UNCHANGED <<running, visits, center, grid, windowId, logWindow, openRows, line>>
  /\ UNCHANGED <<analysisVars, dbVars>>

(* The conditions of go()'s loops: the dwell may have run out, and a       *)
(* window list of one is parked on.                                        *)
PumpOn == /\ running
          /\ Goes("check", "pump")
          /\ UNCHANGED <<engineVars, status>>

DwellOver == /\ running
             /\ Len(Windows) > 1 /\ visits < MaxVisits
             /\ Goes("check", "open")
             /\ UNCHANGED <<engineVars, status>>

StopSeen == /\ ~running
            /\ Goes("check", "finish") \/ Goes("open", "finish")
            /\ UNCHANGED <<engineVars, status>>

(* Mutant: a stall is an orderly end. *)
GoneStatusStallOk(t) == IF t \in {"stall", "eof"} THEN 0 ELSE 1

(* _engine_gone() *)
GoneStatus(t) == IF t = "eof" /\ FromFile THEN 0 ELSE 1

(* EngineGone, or SystemExit from _wait_for(): go() ends in finish(). *)
EngineEnds(t) ==
  /\ pc \in {"tuned", "window", "pump"}
  /\ Takes(t)
  /\ Goes(pc, "finish")
  /\ status' = GoneStatus(t)

(* Mutant: waits for an engine that hangs without a deadline. *)
StuckNever == FALSE

(* The reader is in a call that does not return, and nothing else runs.    *)
Stuck == reader = "hung" /\ todo = <<>> /\ toDsp = <<>>

(* A deadline passes because the engine hangs and has nothing to say,      *)
Late == Stuck /\ out = <<>> /\ line = NoLine

(* or, in finish(), because 30 s are not enough for what is left to do.    *)
Overdue == "slow" \in may

WaitTimesOut ==
  /\ Late
  /\ Goes("tuned", "finish") \/ Goes("window", "finish")
  /\ status' = 1
  /\ UNCHANGED engineVars

(* A database statement fails -- locked for longer than busy_timeout, say. *)
(* go() passes the exception on through finish(), and finish() does not    *)
(* survive a second one: the process ends without ending the run.          *)
Fails ==
  /\ "db" \in may
  /\ status' = 1
  /\ \/ pc \in {"tuned", "window", "pump"} /\ pc' = "finish" /\ UNCHANGED worker
     \/ /\ pc \in {"drain", "collect", "end"} /\ pc' = "died"
        /\ worker' = [state |-> "dead", job |-> NoJob]
  /\ UNCHANGED <<running, visits, grid, windowId, logWindow, jobs, ended>>

(* The rest of a frame's line is lost, and log.close() has forgotten its   *)
(* row before its statement fails.                                         *)
FrameFails ==
  /\ Fails
  /\ line # NoLine
  /\ line' = NoLine
  /\ \/ UNCHANGED openRows
     \/ line.e # {} /\ openRows' = [openRows EXCEPT ![Ending] = None]
  /\ UNCHANGED <<engineVars, center, results, windows, events>>

(* Some rows are closed before the statement of another one fails. *)
CloseFails ==
  /\ Fails
  /\ Takes("close")
  /\ \E done \in SUBSET {c \in Channels : openRows[c] # None}, lost \in Channels \cup {None} :
       /\ events' = [r \in DOMAIN events |->
                       IF \E c \in done : openRows[c] = r
                         THEN [events[r] EXCEPT !.closed = grid.gen] ELSE events[r]]
       /\ openRows' = [c \in Channels |-> IF c \in done \cup {lost} THEN None ELSE openRows[c]]
  /\ UNCHANGED <<center, line, results, windows>>

(* db.open_window(), db.set_window_linearity() and finish()'s last two. *)
WindowFails ==
  /\ Fails
  /\ \/ Takes("tuned") /\ pc = "tuned" /\ center' = Head(out).center
     \/ Takes("linearity") /\ windowId # None /\ UNCHANGED center
     \/ pc = "end" /\ UNCHANGED <<engineVars, center>>
  /\ UNCHANGED <<line, openRows, results, windows, events>>

(* A result is taken off the queue and lost. *)
CollectFails ==
  /\ Fails
  /\ pc \in {"pump", "collect"} /\ line = NoLine
  /\ results # <<>>
  /\ results' = Tail(results)
  /\ UNCHANGED <<engineVars, center, line, openRows, windows, events>>

StatementFails == FrameFails \/ CloseFails \/ WindowFails \/ CollectFails

-----------------------------------------------------------------------------
(* finish() *)

SendStop ==
  /\ Goes("finish", "drain")
  /\ cmds' = IF engine = "gone" THEN cmds ELSE Append(cmds, CmdStop)
  /\ UNCHANGED <<reader, todo, stalled, reads, toDsp, det, ring, open, pending, out,
                 engine, status>>

DrainSkips ==
  /\ pc = "drain"
  /\ Takes("stall") \/ Takes("eof")
  /\ UNCHANGED <<loopVars, analysisVars, dbVars>>

(* Nothing has reached the inbox for half a second and the engine has      *)
(* exited.  What it said last may still be in the pipe: it is not looked   *)
(* at, and is never read.                                                  *)
Quiet == engine = "gone"

(* The end of the pipe, a silence or the deadline ends the drain; then     *)
(* stdin is closed, which the engine takes for a stop.                     *)
DrainEnds ==
  /\ Goes("drain", "reap")
  /\ \/ /\ Takes("__eof__")
     \/ /\ line = NoLine
        /\ Quiet \/ Late \/ Overdue
        /\ cmds' = IF engine = "gone" THEN cmds ELSE Append(cmds, CmdStop)
        /\ UNCHANGED <<reader, todo, stalled, reads, toDsp, det, ring, open, pending,
                       out, engine>>
  /\ UNCHANGED status

Reap ==
  /\ Goes("reap", "put")
  /\ engine = "gone" \/ Stuck
  /\ engine' = "gone"
  /\ UNCHANGED <<cmds, reader, todo, stalled, reads, toDsp, det, ring, open, pending,
                 out, status>>

(* jobs.put(None): blocks while the queue is full. *)
PutNone ==
  /\ pc = "put"
  /\ Len(jobs) < AnalysisDepth
  /\ jobs' = Append(jobs, NoJob)
  /\ pc' = "collect"
  /\ UNCHANGED engineVars
  /\ UNCHANGED <<running, visits, center, grid, windowId, logWindow, openRows, line, status>>
  /\ UNCHANGED <<worker, results, dbVars>>

(* Mutant: does not wait for the analysis process. *)
WorkerGoneAlways == TRUE

WorkerGone == worker.state \in {"exited", "dead"}

(* Results are taken until the analysis process has gone, or the deadline  *)
(* has passed.                                                             *)
CollectLast ==
  /\ pc = "collect"
  /\ WorkerGone \/ Overdue
  /\ Collect
  /\ pc' = "end"
  /\ UNCHANGED engineVars
  /\ UNCHANGED <<running, visits, center, grid, windowId, logWindow, openRows, line, status>>
  /\ UNCHANGED <<jobs, worker, windows, ended>>

(* A process that is still at work is terminated: what is queued for it,   *)
(* in its hand or answered since is lost.                                  *)
EndRun ==
  /\ pc = "end"
  /\ worker' = IF WorkerGone THEN worker ELSE [state |-> "terminated", job |-> NoJob]
  /\ windows' = WindowsClosed
  /\ windowId' = None
  /\ ended' = TRUE
  /\ pc' = "done"
  /\ UNCHANGED engineVars
  /\ UNCHANGED <<running, visits, center, grid, logWindow, openRows, line, status>>
  /\ UNCHANGED <<jobs, results, events>>

Handle == \/ OnTuned \/ OnLinearity \/ OnWindow \/ OnFrame \/ OnClose
          \/ \E t \in {"stall", "eof", "__eof__"} : EngineEnds(t)
Finish == SendStop \/ DrainSkips \/ DrainEnds \/ Reap \/ PutNone \/ CollectLast \/ EndRun
Orchestrator ==
  /\ UNCHANGED may
  /\ \/ OpenWindow \/ Handle \/ Replay \/ Pumped \/ PumpOn \/ DwellOver
     \/ StopSeen \/ WaitTimesOut \/ StatementFails \/ Finish

Sigint ==
  /\ running /\ pc \notin {"done", "died"}
  /\ running' = FALSE
  /\ UNCHANGED <<may, engineVars>>
  /\ UNCHANGED <<pc, visits, center, grid, windowId, logWindow, openRows, line, status>>
  /\ UNCHANGED <<analysisVars, dbVars>>

-----------------------------------------------------------------------------
(* analysis_main() and read_ring() *)

Result(job, why) == [row |-> job.row, gen |-> job.gen, why |-> why]

Held(job) == ring.gen = job.gen /\ Holds(job.start, job.n, ring.written)

WorkerUnchanged == UNCHANGED <<may, engineVars, loopVars, dbVars>>

TakeJob ==
  /\ worker.state = "idle"
  /\ jobs # <<>>
  /\ jobs' = Tail(jobs)
  /\ LET job == Head(jobs)
     IN IF job = NoJob
          THEN worker' = [worker EXCEPT !.state = "exited"] /\ UNCHANGED results
        ELSE IF Held(job)
          THEN worker' = [state |-> "copying", job |-> job] /\ UNCHANGED results
        ELSE results' = Append(results, Result(job, "aged")) /\ UNCHANGED worker
  /\ WorkerUnchanged

(* The copy is checked again; analyze_analog() answers or raises. *)
FinishJob ==
  /\ worker.state = "copying"
  /\ \E why \in {"ok", "failed"} :
       results' = Append(results, Result(worker.job, IF Held(worker.job) THEN why
                                                     ELSE "aged"))
  /\ worker' = IdleWorker
  /\ UNCHANGED jobs
  /\ WorkerUnchanged

WorkerDies ==
  /\ "worker" \in may
  /\ worker.state \in {"idle", "copying"}
  /\ worker' = [state |-> "dead", job |-> NoJob]
  /\ UNCHANGED <<jobs, results>>
  /\ WorkerUnchanged

Worker == TakeJob \/ FinishJob

-----------------------------------------------------------------------------
Init ==
  /\ EngineInit
  /\ pc = "open" /\ running = TRUE /\ visits = 0 /\ status = 0
  /\ center = None /\ grid = [gen |-> None, center |-> None]
  /\ windowId = None /\ logWindow = None
  /\ openRows = NoRows /\ line = NoLine
  /\ jobs = <<>> /\ worker = IdleWorker /\ results = <<>>
  /\ windows = <<>> /\ events = <<>> /\ ended = FALSE

Engine == EngineNext /\ UNCHANGED <<may, loopVars, analysisVars, dbVars>>

Stopped == pc \in {"done", "died"} /\ UNCHANGED vars

Next == Engine \/ Orchestrator \/ Worker \/ WorkerDies \/ Sigint \/ Stopped

Spec == Init /\ [][Next]_vars

(* Every thread and process runs whenever it can. *)
Fairness ==
  LET Of(A) == A /\ UNCHANGED <<may, loopVars, analysisVars, dbVars>>
  IN /\ WF_vars(Of(Reader)) /\ WF_vars(Of(Dsp)) /\ WF_vars(Of(Exit))
     /\ WF_vars(Orchestrator) /\ WF_vars(Worker)

FairSpec == Spec /\ Fairness

-----------------------------------------------------------------------------
(* Properties. *)

(* Every variable has the form the code gives it; the queues are bounded,  *)
(* and what names a row names one that is there.                           *)
TypeOK ==
  /\ reader \in {"idle", "reading", "hung", "gone"}
  /\ engine \in {"up", "leaving", "gone"}
  /\ Len(toDsp) <= DspQueue /\ Len(jobs) <= AnalysisDepth
  /\ det \in {None} \cup Nat /\ open \subseteq Channels
  /\ ring \in [gen : Nat, center : {None} \cup Nat, written : Nat]
  /\ pending \in [Channels -> {None} \cup Nat]
  /\ windowId \in {None} \cup DOMAIN windows
  /\ openRows \in [Channels -> {None} \cup DOMAIN events]
  /\ status \in {0, 1} /\ running \in BOOLEAN /\ ended \in BOOLEAN

StatementsSucceed == "db" \notin may

(* As long as no statement fails, every event row names the coverage       *)
(* window its signal was heard in: the i-th row of coverage_windows is     *)
(* generation i of the engine, and the row's frequency comes from the grid *)
(* of that window's centre.  And the linearity verdict is in the row of    *)
(* the window that was probed, before anything heard there is.             *)
WindowOfEvent ==
  StatementsSucceed =>
    /\ \A r \in DOMAIN events :
         /\ events[r].window = events[r].gen
         /\ events[r].window \in DOMAIN windows
         /\ windows[events[r].window].center = events[r].center
    /\ \A w \in DOMAIN windows :
         \/ windows[w].linear = windows[w].center
         \/ windows[w].linear = None /\ (FromFile \/ (pc = "window" /\ w = windowId))

(* What is still open in the database once the lines on their way have     *)
(* been replayed is what the engine has open: no start or end is lost.     *)
ReplayMirrorsEngine ==
  LET rows == {c \in Channels : openRows[c] # None}
      After[i \in 0 .. Len(out)] ==
        IF i = 0 THEN (rows \cup line.s) \ line.e
        ELSE CASE out[i].t = "f" -> (After[i-1] \cup out[i].s) \ out[i].e
               [] out[i].t = "close" -> {}
               [] OTHER -> After[i-1]
  IN pc # "done" => After[Len(out)] = open

Work == {jobs[i] : i \in DOMAIN jobs} \cup {worker.job}

(* A job carries the generation its event was heard in, so the analysis    *)
(* never reads another band's samples for it, and the result applied to a  *)
(* row, however late, was computed from the row's own window.              *)
JobsMatchRows ==
  /\ \A j \in Work \ {NoJob} :
       j.row \in DOMAIN events /\ j.gen = events[j.row].gen
  /\ \A r \in DOMAIN events : events[r].result \in {None, events[r].gen}

(* A harmonic is never analysed, nor queued to be, and its parent is       *)
(* another row of the same window.                                         *)
HarmonicsNotAnalysed ==
  \A r \in DOMAIN events :
    events[r].parent # None =>
      /\ events[r].result = None
      /\ \A j \in Work : j.row # r
      /\ events[r].parent # r
      /\ events[events[r].parent].window = events[r].window

(* An event is closed with the clock of the window it started in, however  *)
(* late that is replayed.  When the run has ended no window is left open,  *)
(* and an event without an end is one whose end the engine did say, in     *)
(* lines that finish() left unread.                                        *)
ClosedInOwnWindow ==
  /\ \A r \in DOMAIN events : events[r].closed \in {None, events[r].gen}
  /\ ended => /\ \A w \in DOMAIN windows : windows[w].closed
              /\ \A r \in DOMAIN events : events[r].closed = None =>
                   \E i \in DOMAIN out : \/ out[i].t = "close"
                                         \/ out[i].t = "f" /\ events[r].ch \in out[i].e

(* The analysis process does not outlive the run: it has left with every   *)
(* job done and each result applied, or 30 s were not enough for them and  *)
(* it was terminated.                                                      *)
AnalysesApplied ==
  ended => /\ worker.state \in {"exited", "terminated"} /\ worker.job = NoJob
           /\ worker.state = "exited" => jobs = <<>>
           /\ Overdue \/ (worker.state = "exited" /\ results = <<>>)

(* A run over windows of a device that ends of itself exits non-zero, so   *)
(* that systemd starts it again.                                           *)
FailureExitsNonzero == ended /\ status = 0 => ~running \/ FromFile

(* The tables as SurveyLog has them.  Nothing is claimed of a behaviour in *)
(* which statements fail.                                                  *)
LogRow(e) == [ch |-> e.ch, window |-> e.window, closed |-> e.closed # None,
              parent |-> e.parent, analysed |-> e.result # None]
LogWindows == IF StatementsSucceed THEN windows ELSE <<>>
LogEvents  == IF StatementsSucceed THEN [r \in DOMAIN events |-> LogRow(events[r])] ELSE <<>>
LogEnded   == StatementsSucceed /\ ended

Centres == {Windows[i] : i \in DOMAIN Windows}

Log == INSTANCE SurveyLog WITH
  Centers <- Centres, windows <- LogWindows, ended <- LogEnded, events <- LogEvents

(* What one receiver's loop promises the database.                         *)
ImplementsSurveyLog == Log!Spec

(* Interrupted, or left by its engine, the loop ends the run, as long as   *)
(* the analysis process lives and no statement fails.                      *)
RunEnds ==
  StatementsSucceed /\ "worker" \notin may
    /\ (~running \/ engine = "gone" \/ reader = "hung") ~> ended
=============================================================================
