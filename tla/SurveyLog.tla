------------------------------ MODULE SurveyLog ------------------------------
(***************************************************************************)
(* What one receiver's capture loop promises the survey database, whatever *)
(* engine drives it: a coverage window is on record before anything heard  *)
(* in it and closed after it, every event belongs to the window it was     *)
(* heard in, and each row goes once through detected, decided and closed.  *)
(***************************************************************************)
EXTENDS Integers, Sequences

CONSTANTS Channels, Centers

None == -1

VARIABLES
  windows,  \* rows of coverage_windows
  events,   \* rows of events
  ended     \* the run has an end

logVars == <<windows, events, ended>>

Row(ch, w) == [ch |-> ch, window |-> w, closed |-> FALSE, parent |-> None,
               analysed |-> FALSE]

Last == Len(windows)
Listening == windows # <<>> /\ ~windows[Last].closed
OpenRows == {r \in 1 .. Len(events) : ~events[r].closed}

Init == windows = <<>> /\ events = <<>> /\ ended = FALSE

OpenWindow(c) ==
  /\ ~Listening
  /\ OpenRows = {}
  /\ windows' = Append(windows, [center |-> c, closed |-> FALSE, linear |-> None])
  /\ UNCHANGED <<events, ended>>

Verdict ==
  /\ Listening
  /\ windows' = [windows EXCEPT ![Last].linear = windows[Last].center]
  /\ UNCHANGED <<events, ended>>

Hear(ch) ==
  /\ Listening
  /\ \A r \in OpenRows : events[r].ch # ch
  /\ events' = Append(events, Row(ch, Last))
  /\ UNCHANGED <<windows, ended>>

Harmonic(r, p) ==
  /\ r # p
  /\ ~events[r].analysed
  /\ events[r].parent = None
  /\ events' = [events EXCEPT ![r].parent = p]
  /\ UNCHANGED <<windows, ended>>

(* Results come back in batches, for rows open or closed. *)
Analyse(R) ==
  /\ \A r \in R : events[r].parent = None /\ ~events[r].analysed
  /\ events' = [r \in 1 .. Len(events) |->
                  IF r \in R THEN [events[r] EXCEPT !.analysed = TRUE] ELSE events[r]]
  /\ UNCHANGED <<windows, ended>>

Closed(R) == [r \in 1 .. Len(events) |->
                IF r \in R THEN [events[r] EXCEPT !.closed = TRUE] ELSE events[r]]

Close(R) ==
  /\ events' = Closed(R)
  /\ UNCHANGED <<windows, ended>>

(* A row whose end could not be written stays in flight, and is the last.  *)
CloseWindow ==
  /\ Listening
  /\ \E R \in SUBSET OpenRows : events' = Closed(R)
  /\ windows' = [windows EXCEPT ![Last].closed = TRUE]
  /\ UNCHANGED ended

(* An engine that dies says no close, and one that is late is not heard:   *)
(* its rows stay in flight, but the window and the run end.                *)
EndRun ==
  /\ windows' = IF Listening THEN [windows EXCEPT ![Last].closed = TRUE] ELSE windows
  /\ ended' = TRUE
  /\ UNCHANGED events

Next ==
  /\ ~ended
  /\ \/ \E c \in Centers : OpenWindow(c)
     \/ Verdict
     \/ \E ch \in Channels : Hear(ch)
     \/ \E r, p \in OpenRows : Harmonic(r, p)
     \/ \E R \in SUBSET (1 .. Len(events)) : Analyse(R)
     \/ \E R \in SUBSET OpenRows : Close(R)
     \/ CloseWindow
     \/ EndRun

Spec == Init /\ [][Next]_logVars
=============================================================================
