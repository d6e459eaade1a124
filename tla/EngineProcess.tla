--------------------------- MODULE EngineProcess ---------------------------
(***************************************************************************)
(* The threads of rfsurvey-engine and what they share at the end: main     *)
(* starts the others and joins them in order, reader and dsp are joined by *)
(* a bounded channel, dsp and main put lines into the channel of the       *)
(* writer, and the writer holds the lock of stdout from its first step to  *)
(* its last.  The process is over as soon as any thread calls exit().      *)
(*                                                                         *)
(* RustEngine has what the lines say; here one is "ready", "line", the     *)
(* reason dsp gives for the end, or "error".                               *)
(***************************************************************************)
EXTENDS Integers, Sequences

CONSTANTS
  DspQueue,  \* DSP_QUEUE, the bound of the reader -> dsp channel
  PipeSize,  \* lines the pipe to the orchestrator holds
  Faults,    \* "fatal": a call fails; "orphan": the orchestrator dies
  MaxFrames  \* bound: frames read

ASSUME ProcessConstants ==
  /\ DspQueue \in Nat \ {0} /\ PipeSize \in Nat \ {0}
  /\ Faults \subseteq {"fatal", "orphan"}
  /\ MaxFrames \in Nat

VARIABLES
  main,     \* next step of main(), or "fatal"
  writer,   \* "unborn", "locking", "recv", "drain", "flush" or "gone"
  reader,   \* "unborn", "run", "fatal" or "gone"
  dsp,      \* "unborn", "run" or "gone"
  code,     \* what the dsp thread returned
  frames,   \* frames read (bounds the model)
  toDsp,    \* reader -> dsp
  lines,    \* main, dsp -> writer
  buffer,   \* the writer's BufWriter
  lock,     \* stdout is locked
  pipe,     \* lines in the pipe
  taken,    \* history: lines the orchestrator took from it
  said,     \* history: lines sent to the writer
  alive,    \* the orchestrator is
  stop,     \* it said stop, or its end of stdin closed
  exit      \* who ended the process and with what status, or "no"

vars == <<main, writer, reader, dsp, code, frames, toDsp, lines, buffer, lock,
          pipe, taken, said, alive, stop, exit>>

No == [by |-> "no", code |-> 0]
Up == exit = No

Say(ls) == lines' = lines \o ls /\ said' = said \o ls

-----------------------------------------------------------------------------
(* main(). *)

Parse ==
  /\ Up /\ main = "parse"
  /\ main' = "spawn"
  /\ UNCHANGED <<writer, reader, dsp, code, frames, toDsp, lines, buffer, lock, pipe,
                 taken, said, alive, stop, exit>>

SpawnWriter ==
  /\ Up /\ main = "spawn"
  /\ main' = "source"
  /\ writer' = "locking"
  /\ UNCHANGED <<reader, dsp, code, frames, toDsp, lines, buffer, lock, pipe, taken,
                 said, alive, stop, exit>>

Ready ==
  /\ Up /\ main = "source"
  /\ main' = "joining"
  /\ Say(<<"ready">>)
  /\ reader' = "run" /\ dsp' = "run"
  /\ UNCHANGED <<writer, code, frames, toDsp, buffer, lock, pipe, taken, alive, stop, exit>>

(* Mutant: main keeps its end of the writer's channel. *)
DropKeepsSender ==
  /\ Up /\ main = "joining" /\ reader = "gone" /\ dsp = "gone"
  /\ main' = "keeping"
  /\ UNCHANGED <<writer, reader, dsp, code, frames, toDsp, lines, buffer, lock, pipe,
                 taken, said, alive, stop, exit>>

(* Both threads joined: the last sender of the writer's channel goes. *)
Drop ==
  /\ Up /\ main = "joining" /\ reader = "gone" /\ dsp = "gone"
  /\ main' = "dropped"
  /\ UNCHANGED <<writer, reader, dsp, code, frames, toDsp, lines, buffer, lock, pipe,
                 taken, said, alive, stop, exit>>

(* Mutant: exits without joining the writer. *)
ExitAtOnce ==
  /\ Up /\ main = "dropped"
  /\ exit' = [by |-> "main", code |-> code]
  /\ UNCHANGED <<main, writer, reader, dsp, code, frames, toDsp, lines, buffer, lock,
                 pipe, taken, said, alive, stop>>

Exit ==
  /\ Up /\ main = "dropped" /\ writer = "gone"
  /\ exit' = [by |-> "main", code |-> code]
  /\ UNCHANGED <<main, writer, reader, dsp, code, frames, toDsp, lines, buffer, lock,
                 pipe, taken, said, alive, stop>>

-----------------------------------------------------------------------------
(* fatal(): print a line to stdout, exit. *)

(* Bad configuration, or no such file, no device, no shared memory. *)
MainFails ==
  /\ Up /\ "fatal" \in Faults
  /\ main \in {"parse", "source"}
  /\ main' = "fatal"
  /\ UNCHANGED <<writer, reader, dsp, code, frames, toDsp, lines, buffer, lock, pipe,
                 taken, said, alive, stop, exit>>

(* The device refuses a frequency or a gain. *)
ReaderFails ==
  /\ Up /\ "fatal" \in Faults
  /\ reader = "run"
  /\ reader' = "fatal"
  /\ UNCHANGED <<main, writer, dsp, code, frames, toDsp, lines, buffer, lock, pipe,
                 taken, said, alive, stop, exit>>

(* Mutant: the error goes to the journal only. *)
FatalSilent ==
  /\ Up
  /\ "fatal" \in {main, reader}
  /\ exit' = [by |-> "fatal", code |-> 2]
  /\ UNCHANGED <<main, writer, reader, dsp, code, frames, toDsp, lines, buffer, lock,
                 pipe, taken, said, alive, stop>>

(* println! waits for the lock, and panics if nobody reads the pipe, which *)
(* aborts the process.                                                     *)
Fatal ==
  /\ Up
  /\ "fatal" \in {main, reader}
  /\ ~lock
  /\ alive => Len(pipe) < PipeSize
  /\ pipe' = IF alive THEN Append(pipe, "error") ELSE pipe
  /\ exit' = [by |-> "fatal", code |-> IF alive THEN 2 ELSE 134]
  /\ UNCHANGED <<main, writer, reader, dsp, code, frames, toDsp, lines, buffer, lock,
                 taken, said, alive, stop>>

-----------------------------------------------------------------------------
(* Writer thread. *)

Lock ==
  /\ Up /\ writer = "locking"
  /\ lock' = TRUE
  /\ writer' = "recv"
  /\ UNCHANGED <<main, reader, dsp, code, frames, toDsp, lines, buffer, pipe, taken,
                 said, alive, stop, exit>>

(* recv() waits for a line, try_recv() takes what more there is. *)
TakeLine ==
  /\ Up /\ writer \in {"recv", "drain"}
  /\ lines # <<>>
  /\ buffer' = Append(buffer, Head(lines))
  /\ lines' = Tail(lines)
  /\ writer' = "drain"
  /\ UNCHANGED <<main, reader, dsp, code, frames, toDsp, lock, pipe, taken, said, alive,
                 stop, exit>>

Drained ==
  /\ Up /\ writer = "drain"
  /\ lines = <<>>
  /\ writer' = "flush"
  /\ UNCHANGED <<main, reader, dsp, code, frames, toDsp, lines, buffer, lock, pipe,
                 taken, said, alive, stop, exit>>

Flush ==
  /\ Up /\ writer = "flush" /\ alive
  /\ IF buffer = <<>>
       THEN writer' = "recv" /\ UNCHANGED <<buffer, pipe>>
       ELSE /\ Len(pipe) < PipeSize
            /\ pipe' = Append(pipe, Head(buffer))
            /\ buffer' = Tail(buffer)
            /\ UNCHANGED writer
  /\ UNCHANGED <<main, reader, dsp, code, frames, toDsp, lines, lock, taken, said, alive,
                 stop, exit>>

(* Nobody reads the pipe. *)
FlushFails ==
  /\ Up /\ writer = "flush" /\ ~alive
  /\ exit' = [by |-> "writer", code |-> 0]
  /\ UNCHANGED <<main, writer, reader, dsp, code, frames, toDsp, lines, buffer, lock,
                 pipe, taken, said, alive, stop>>

(* recv() fails: no sender is left. *)
WriterEnds ==
  /\ Up /\ writer = "recv"
  /\ lines = <<>> /\ main = "dropped" /\ dsp = "gone"
  /\ writer' = "gone"
  /\ lock' = FALSE
  /\ UNCHANGED <<main, reader, dsp, code, frames, toDsp, lines, buffer, pipe, taken,
                 said, alive, stop, exit>>

-----------------------------------------------------------------------------
(* Reader and dsp threads. *)

ReadFrame ==
  /\ Up /\ reader = "run" /\ ~stop
  /\ frames < MaxFrames
  /\ Len(toDsp) < DspQueue
  /\ frames' = frames + 1
  /\ toDsp' = Append(toDsp, "frame")
  /\ UNCHANGED <<main, writer, reader, dsp, code, lines, buffer, lock, pipe, taken, said,
                 alive, stop, exit>>

(* Told to stop, at the end of the file, or the stream is dead. *)
ReaderEnds ==
  /\ Up /\ reader = "run"
  /\ Len(toDsp) < DspQueue
  /\ \E why \in IF stop THEN {"stop"} ELSE {"eof", "stall"} : toDsp' = Append(toDsp, why)
  /\ reader' = "gone"
  /\ UNCHANGED <<main, writer, dsp, code, frames, lines, buffer, lock, pipe, taken, said,
                 alive, stop, exit>>

Dsp ==
  /\ Up /\ dsp = "run"
  /\ toDsp # <<>>
  /\ toDsp' = Tail(toDsp)
  /\ IF Head(toDsp) = "frame"
       THEN Say(<<"line">>) /\ UNCHANGED <<dsp, code>>
       ELSE /\ Say(IF Head(toDsp) = "stop" THEN <<"line">> ELSE <<Head(toDsp)>>)
            /\ dsp' = "gone"
            /\ code' = IF Head(toDsp) = "stall" THEN 3 ELSE 0
  /\ UNCHANGED <<main, writer, reader, frames, buffer, lock, pipe, taken, alive, stop, exit>>

-----------------------------------------------------------------------------
(* The orchestrator, as far as the process sees it. *)

Take ==
  /\ alive /\ pipe # <<>>
  /\ taken' = Append(taken, Head(pipe))
  /\ pipe' = Tail(pipe)
  /\ UNCHANGED <<main, writer, reader, dsp, code, frames, toDsp, lines, buffer, lock,
                 said, alive, stop, exit>>

SayStop ==
  /\ Up /\ alive /\ ~stop
  /\ stop' = TRUE
  /\ UNCHANGED <<main, writer, reader, dsp, code, frames, toDsp, lines, buffer, lock,
                 pipe, taken, said, alive, exit>>

Die ==
  /\ Up /\ "orphan" \in Faults /\ alive
  /\ alive' = FALSE /\ stop' = TRUE
  /\ UNCHANGED <<main, writer, reader, dsp, code, frames, toDsp, lines, buffer, lock,
                 pipe, taken, said, exit>>

-----------------------------------------------------------------------------
Init ==
  /\ main = "parse" /\ writer = "unborn" /\ reader = "unborn" /\ dsp = "unborn"
  /\ code = 0 /\ frames = 0
  /\ toDsp = <<>> /\ lines = <<>> /\ buffer = <<>> /\ pipe = <<>>
  /\ taken = <<>> /\ said = <<>>
  /\ lock = FALSE /\ alive = TRUE /\ stop = FALSE
  /\ exit = No

Main   == Parse \/ SpawnWriter \/ Ready \/ Drop \/ Exit
Writer == Lock \/ TakeLine \/ Drained \/ Flush \/ FlushFails \/ WriterEnds
Reader == ReadFrame \/ ReaderEnds

Next == \/ Main \/ Writer \/ Reader \/ Dsp \/ Fatal
        \/ MainFails \/ ReaderFails
        \/ Take \/ SayStop \/ Die

Spec == Init /\ [][Next]_vars

(* Every thread runs while it can, and the orchestrator's stdout thread    *)
(* does nothing but take lines.                                            *)
FairSpec == /\ Spec
            /\ WF_vars(Main) /\ WF_vars(Writer) /\ WF_vars(Reader)
            /\ WF_vars(Dsp) /\ WF_vars(Fatal) /\ WF_vars(Take)

-----------------------------------------------------------------------------
(* Properties. *)

(* An orderly exit loses nothing: every line said is in the pipe, in       *)
(* order, and the status tells a dead stream from every other end.         *)
ExitSaysAll ==
  exit.by = "main" =>
    /\ taken \o pipe = said
    /\ exit.code = 3 <=> said[Len(said)] = "stall"

(* Told to stop, or orphaned, the process ends, unless a thread has        *)
(* failed: its threads never wait on each other, whatever is still in the  *)
(* channels.                                                               *)
StopEnds == stop ~> ~Up \/ "fatal" \in {main, reader}

Reported == exit.by = "fatal" /\ taken # <<>> /\ taken[Len(taken)] = "error"

(* A fatal error before there is a writer (a bad configuration) ends the   *)
(* process, and reaches the orchestrator, if it lives, as an "error" line. *)
EarlyFatalIsReported ==
  main = "fatal" /\ writer = "unborn" ~> Reported \/ (~alive /\ ~Up)

(* Any fatal error reaches an orchestrator that lives. *)
FatalIsReported == "fatal" \in {main, reader} ~> Reported
=============================================================================
