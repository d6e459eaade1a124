------------------------- MODULE CaptureLoop_proofs -------------------------
(***************************************************************************)
(* What the Python capture loop tells its supervisor and what it puts on   *)
(* record about its gain; what it analyses for an event, and that what it  *)
(* asked for is applied; how many events it loses the end of when things   *)
(* fail; what it keeps on disk; and that it implements SurveyLog.  All for *)
(* any windows, front ends, queues, bounds and failures.                   *)
(***************************************************************************)
EXTENDS CaptureLoop, SequenceTheorems, FiniteSetTheorems, WellFoundedInduction, TLAPS

Verdicts == {"unset", "unchecked", "inconclusive", "compressed", "linear"}

WindowRows == [center : Range(Windows), closed : BOOLEAN, linear : Verdicts]

Types ==
  /\ mode \in {"radio", "simulate"} /\ running \in BOOLEAN
  /\ visits \in Nat /\ failures \in Nat /\ status \in {0, 1}
  /\ gain \in Int /\ probe.up \in BOOLEAN /\ probe.floors \in Seq(Int)
  /\ probe = [up |-> probe.up, floors |-> probe.floors]
  /\ windows \in Seq(WindowRows)
  /\ windowId \in {None} \cup DOMAIN windows

(* Who may clear `running`, and that nothing gets to finish() otherwise    *)
(* than through it or through an exception.                                *)
Finishing == pc \in {"stop", "join", "collect", "last", "end", "done"}

Endings ==
  /\ failures > 0 => status = 1
  /\ running \/ signalled \/ status = 1 \/ (mode = "simulate" /\ visits = Len(Windows))
  /\ Finishing => ~running \/ status = 1
  /\ Starting => visits = 0
  /\ mode = "simulate" => visits <= Len(Windows)
  /\ mode = "simulate" /\ running /\ pc = "open" => visits < Len(Windows)

(* The gain is the configured one but in a sweep, and a sweep has heard    *)
(* the floors of its own gains in its own band; each is a gain there is.   *)
InSweep ==
  pc = "probe" =>
    /\ windowId \in DOMAIN windows
    /\ Len(probe.floors) <= 3
    /\ IF probe.floors = <<>> THEN gain = Gain
                              ELSE mode = "radio" /\ Possible(probe.up)
    /\ \A i \in 1 .. Len(probe.floors) :
         probe.floors[i] = FrontEnd[windows[windowId].center][Sweep(probe.up)[i]]

OnRecord == \A w \in DOMAIN windows :
              windows[w].linear = "linear" =>
                \E up \in BOOLEAN : RisesOn(windows[w].center, up)

Configured == Starting \/ pc \in {"open", "read", "close"} => gain = Gain

LoopInv == Types /\ Endings /\ InSweep /\ OnRecord /\ Configured

loopInvVars == <<pc, mode, running, visits, status, gain, probe, windowId, windows,
                 may, signalled, failures>>

-----------------------------------------------------------------------------
(* The front end and the verdict. *)

LEMMA GainType == Gain \in Int
BY CaptureConstants

LEMMA FloorType ==
  ASSUME NEW center \in Range(Windows), NEW g \in 0 .. MaxGain
  PROVE  FrontEnd[center][g] \in Int
<1>1. FrontEnd \in [Range(Windows) -> [0 .. MaxGain -> Int]]
  BY FrontEndAssumption
<1>2. FrontEnd[center] \in [0 .. MaxGain -> Int]
  BY <1>1
<1> QED
  BY <1>2

LEMMA SweepType ==
  ASSUME NEW up \in BOOLEAN
  PROVE  /\ Sweep(up) \in Seq(Int) /\ Len(Sweep(up)) = 3
         /\ Sweep(up)[1] = IF up THEN Gain ELSE Gain - 2
         /\ Sweep(up)[2] = IF up THEN Gain + 1 ELSE Gain - 1
         /\ Sweep(up)[3] = IF up THEN Gain + 2 ELSE Gain
BY GainType DEF Sweep

(* The gains of a sweep there is room for are the receiver's. *)
LEMMA SweepGains ==
  ASSUME NEW up \in BOOLEAN, Possible(up), NEW i \in 1 .. 3
  PROVE  Sweep(up)[i] \in 0 .. MaxGain
<1>1. Gain \in 0 .. MaxGain /\ MaxGain \in Nat /\ Gain \in Nat
  BY CaptureConstants
<1>2. Sweep(up)[1] >= 0 /\ Sweep(up)[3] <= IF "top" \in may THEN Gain + 1 ELSE MaxGain
  BY DEF Possible, HighestGain
<1>3. PICK x, y, z : x = Sweep(up)[1] /\ y = Sweep(up)[2] /\ z = Sweep(up)[3]
  OBVIOUS
<1>4. CASE up
  <2>1. x = Gain /\ y = Gain + 1 /\ z = Gain + 2
    BY <1>3, <1>4, SweepType
  <2>2. Gain + 2 <= MaxGain
    BY <1>1, <1>2, <1>3, <2>1
  <2>3. x \in 0 .. MaxGain /\ y \in 0 .. MaxGain /\ z \in 0 .. MaxGain
    BY <1>1, <2>1, <2>2
  <2> QED
    BY <1>3, <2>3, i = 1 \/ i = 2 \/ i = 3
<1>5. CASE ~up
  <2>1. x = Gain - 2 /\ y = Gain - 1 /\ z = Gain
    BY <1>3, <1>5, SweepType
  <2>2. Gain - 2 >= 0
    BY <1>2, <1>3, <2>1
  <2>3. x \in 0 .. MaxGain /\ y \in 0 .. MaxGain /\ z \in 0 .. MaxGain
    BY <1>1, <2>1, <2>2
  <2> QED
    BY <1>3, <2>3, i = 1 \/ i = 2 \/ i = 3
<1> QED
  BY <1>4, <1>5

(* The verdict on a whole sweep of a band is linear only if its floor rises*)
(* on over the three gains.                                                *)
LEMMA LinearVerdict ==
  ASSUME NEW center \in Range(Windows), NEW up \in BOOLEAN, NEW floors, Possible(up),
         \A i \in 1 .. 3 : floors[i] = FrontEnd[center][Sweep(up)[i]],
         CompressionVerdict(floors) = "linear"
  PROVE  RisesOn(center, up)
<1>1. /\ floors[1] = FrontEnd[center][Sweep(up)[1]]
      /\ floors[2] = FrontEnd[center][Sweep(up)[2]]
      /\ floors[3] = FrontEnd[center][Sweep(up)[3]]
  BY 1 \in 1 .. 3, 2 \in 1 .. 3, 3 \in 1 .. 3
<1>2. floors[1] \in Int /\ floors[2] \in Int /\ floors[3] \in Int
  <2>1. \A i \in 1 .. 3 : Sweep(up)[i] \in 0 .. MaxGain
    BY SweepGains
  <2>2. \A i \in 1 .. 3 : FrontEnd[center][Sweep(up)[i]] \in Int
    BY <2>1, FloorType
  <2> QED
    BY <1>1, <2>2
<1>3. /\ floors[2] >= floors[1] + MinRise
      /\ 10 * (floors[3] - floors[2]) >= 7 * (floors[2] - floors[1])
  BY <1>2 DEF CompressionVerdict, MinRise
<1> QED
  BY <1>1, <1>3 DEF RisesOn

LEMMA VerdictType ==
  ASSUME NEW floors PROVE CompressionVerdict(floors) \in Verdicts
BY DEF CompressionVerdict, Verdicts

-----------------------------------------------------------------------------
(* The table of windows. *)

LEMMA CenterType ==
  ASSUME Types, NEW w \in DOMAIN windows
  PROVE  windows[w].center \in Range(Windows)
<1>1. windows[w] \in WindowRows
  BY DEF Types
<1> QED
  BY <1>1 DEF WindowRows

LEMMA VerdictRecorded ==
  ASSUME Types, windowId \in DOMAIN windows, NEW v \in Verdicts,
         windows' = [windows EXCEPT ![windowId].linear = v]
  PROVE  /\ windows' \in Seq(WindowRows) /\ DOMAIN windows' = DOMAIN windows
         /\ \A w \in DOMAIN windows :
              /\ windows'[w].center = windows[w].center
              /\ windows'[w].linear = IF w = windowId THEN v ELSE windows[w].linear
<1> DEFINE row == [windows[windowId] EXCEPT !.linear = v]
<1>1. windowId \in 1 .. Len(windows) /\ windows[windowId] \in WindowRows
  BY DEF Types
<1>2. row \in WindowRows /\ row.center = windows[windowId].center /\ row.linear = v
  BY <1>1 DEF WindowRows
<1>3. windows' = [windows EXCEPT ![windowId] = row]
  OBVIOUS
<1>4. /\ windows' \in Seq(WindowRows) /\ Len(windows') = Len(windows)
      /\ \A w \in 1 .. Len(windows) : windows'[w] = IF w = windowId THEN row ELSE windows[w]
  <2> HIDE DEF row
  <2> QED
    BY <1>1, <1>2, <1>3, ExceptSeq DEF Types
<1> QED
  BY <1>2, <1>4 DEF Types

LEMMA WindowsClosed ==
  ASSUME Types
  PROVE  /\ WindowClosed \in Seq(WindowRows) /\ DOMAIN WindowClosed = DOMAIN windows
         /\ \A w \in DOMAIN windows : /\ WindowClosed[w].center = windows[w].center
                                      /\ WindowClosed[w].linear = windows[w].linear
<1>1. CASE windowId = None
  BY <1>1 DEF WindowClosed, Types
<1>2. CASE windowId # None
  <2> DEFINE row == [windows[windowId] EXCEPT !.closed = TRUE]
  <2>1. windowId \in 1 .. Len(windows) /\ windows[windowId] \in WindowRows
    BY <1>2 DEF Types
  <2>2. /\ row \in WindowRows /\ row.center = windows[windowId].center
        /\ row.linear = windows[windowId].linear
    BY <2>1 DEF WindowRows
  <2>3. WindowClosed = [windows EXCEPT ![windowId] = row]
    BY <1>2 DEF WindowClosed
  <2>4. /\ WindowClosed \in Seq(WindowRows) /\ Len(WindowClosed) = Len(windows)
        /\ \A w \in 1 .. Len(windows) :
             WindowClosed[w] = IF w = windowId THEN row ELSE windows[w]
    <3> HIDE DEF row
    <3> QED
      BY <2>1, <2>2, <2>3, ExceptSeq DEF Types
  <2>5. DOMAIN windows = 1 .. Len(windows) /\ DOMAIN WindowClosed = 1 .. Len(WindowClosed)
    BY <2>4 DEF Types
  <2> QED
    BY <2>2, <2>4, <2>5
<1> QED
  BY <1>1, <1>2

-----------------------------------------------------------------------------
(* The invariant, step by step. *)

LEMMA InvInit == Init => LoopInv
<1> SUFFICES ASSUME Init PROVE LoopInv
  OBVIOUS
<1>1. Types
  BY CaptureConstants, GainType DEF Init, Types, FirstSweep, None
<1>2. Endings
  BY DEF Init, Endings, Finishing, Starting
<1>3. InSweep /\ OnRecord /\ Configured
  BY DEF Init, InSweep, OnRecord, Configured
<1> QED
  BY <1>1, <1>2, <1>3 DEF LoopInv

LEMMA RisesOnKept ==
  ASSUME UNCHANGED may, NEW center, NEW up PROVE RisesOn(center, up)' = RisesOn(center, up)
BY DEF RisesOn, Possible, HighestGain

(* The steps that leave the table of windows alone, or its verdicts. *)
LEMMA RecordKept ==
  ASSUME OnRecord, UNCHANGED may, DOMAIN windows' = DOMAIN windows,
         \A w \in DOMAIN windows : /\ windows'[w].center = windows[w].center
                                   /\ windows'[w].linear = windows[w].linear
  PROVE  OnRecord'
BY RisesOnKept DEF OnRecord

LEMMA Unrelated ==
  ASSUME LoopInv, UNCHANGED loopInvVars
  PROVE  LoopInv'
<1>1. OnRecord'
  BY RecordKept DEF LoopInv, loopInvVars
<1> QED
  BY <1>1 DEF LoopInv, loopInvVars, Types, Endings, InSweep, Configured, Finishing, Starting,
              Possible, HighestGain

(* The steps that leave windows, gain and sweep alone. *)
LEMMA SameWindows ==
  ASSUME LoopInv, UNCHANGED <<windows, windowId, gain, probe, mode, may>>, pc' # "probe",
         Configured'
  PROVE  InSweep' /\ OnRecord' /\ Configured'
<1>1. OnRecord'
  BY RecordKept DEF LoopInv
<1> QED
  BY <1>1 DEF LoopInv, InSweep

LEMMA StartUpStep == LoopInv /\ StartUp => LoopInv'
<1> SUFFICES ASSUME LoopInv, StartUp PROVE LoopInv'
  OBVIOUS
<1>1. /\ UNCHANGED <<mode, running, visits, status, gain, probe, windowId, windows,
                     signalled, failures, may>>
      /\ Starting /\ (Starting' \/ pc' = "open") /\ ~Finishing'
  BY DEF StartUp, Configure, StartRun, RegisterReceiver, StartStream, StartsUp, Starting,
         Finishing, radioVars, envVars
<1>2. Types'
  BY <1>1 DEF LoopInv, Types
<1>3. Len(Windows) \in Nat \ {0}
  BY CaptureConstants
<1>4. Endings'
  BY <1>1, <1>3 DEF LoopInv, Endings
<1>5. Configured'
  BY <1>1 DEF LoopInv, Configured
<1> QED
  BY <1>1, <1>2, <1>4, <1>5, SameWindows DEF LoopInv, Starting

LEMMA OpenStep == LoopInv /\ OpenWindow => LoopInv'
<1> SUFFICES ASSUME LoopInv, OpenWindow PROVE LoopInv'
  OBVIOUS
<1> DEFINE center == Windows[(visits % Len(Windows)) + 1]
           row == [center |-> center, closed |-> FALSE, linear |-> "unset"]
<1>1. /\ UNCHANGED <<mode, running, status, gain, signalled, failures, may>>
      /\ pc = "open" /\ running /\ pc' = "probe" /\ probe' = FirstSweep
      /\ visits' = visits + 1
      /\ windows' = Append(windows, row) /\ windowId' = Len(windows) + 1
  BY DEF OpenWindow, ThisWindow
<1>2. /\ Windows \in Seq(Nat) /\ Len(Windows) \in Nat \ {0}
      /\ visits \in Nat /\ windows \in Seq(WindowRows)
  BY CaptureConstants DEF LoopInv, Types
<1>3. center \in Range(Windows)
  <2>1. (visits % Len(Windows)) + 1 \in 1 .. Len(Windows)
    BY <1>2
  <2> QED
    BY <1>2, <2>1 DEF Range
<1>4. row \in WindowRows
  BY <1>3 DEF WindowRows, Verdicts
<1>5. /\ windows' \in Seq(WindowRows) /\ Len(windows') = Len(windows) + 1
      /\ \A w \in 1 .. Len(windows) : windows'[w] = windows[w]
      /\ windows'[Len(windows) + 1] = row
  <2> HIDE DEF row
  <2> QED
    BY <1>1, <1>2, <1>4, AppendProperties
<1>6. /\ DOMAIN windows = 1 .. Len(windows) /\ DOMAIN windows' = 1 .. Len(windows) + 1
      /\ Len(windows) \in Nat
  BY <1>2, <1>5
<1>7. Types'
  BY <1>1, <1>5, <1>6 DEF LoopInv, Types, FirstSweep
<1>8. Endings'
  BY <1>1, <1>2 DEF LoopInv, Endings, Finishing, Starting
<1>9. InSweep'
  BY <1>1, <1>6 DEF LoopInv, Configured, InSweep, FirstSweep
<1>10. OnRecord'
  BY <1>1, <1>5, <1>6, RisesOnKept DEF LoopInv, OnRecord
<1> QED
  BY <1>1, <1>7, <1>8, <1>9, <1>10 DEF LoopInv, Configured, Starting

(* The end of a sweep, in either of its two ways. *)
LEMMA SweepEnds ==
  ASSUME LoopInv, pc = "probe", NEW v \in Verdicts, SweepSays(v), gain' = Gain,
         UNCHANGED <<mode, running, visits, status, windowId, signalled, failures, may>>,
         v = "linear" => \E up \in BOOLEAN : RisesOn(windows[windowId].center, up)
  PROVE  LoopInv'
<1>1. CASE /\ pc' = pc /\ probe' = [up |-> TRUE, floors |-> <<>>] /\ UNCHANGED windows
  <2>1. Types'
    BY <1>1, GainType DEF LoopInv, Types
  <2>2. Endings'
    BY <1>1 DEF LoopInv, Endings, Finishing, Starting
  <2>3. InSweep' /\ OnRecord' /\ Configured'
    BY <1>1, RisesOnKept DEF LoopInv, InSweep, OnRecord, Configured, Starting
  <2> QED
    BY <2>1, <2>2, <2>3 DEF LoopInv
<1>2. CASE SetWindowLinearity(v)
  <2>1. /\ windowId \in DOMAIN windows /\ Types
        /\ windows' = [windows EXCEPT ![windowId].linear = v]
        /\ pc' = "read" /\ probe' = FirstSweep
    BY <1>2 DEF LoopInv, InSweep, SetWindowLinearity
  <2>2. /\ windows' \in Seq(WindowRows) /\ DOMAIN windows' = DOMAIN windows
        /\ \A w \in DOMAIN windows :
             /\ windows'[w].center = windows[w].center
             /\ windows'[w].linear = IF w = windowId THEN v ELSE windows[w].linear
    BY <2>1, VerdictRecorded
  <2>3. Types'
    BY <2>1, <2>2, GainType DEF Types, FirstSweep
  <2>4. Endings'
    BY <2>1 DEF LoopInv, Endings, Finishing, Starting
  <2>5. OnRecord'
    BY <2>2, RisesOnKept DEF LoopInv, OnRecord
  <2> QED
    BY <2>1, <2>3, <2>4, <2>5 DEF LoopInv, InSweep, Configured
<1> QED
  BY <1>1, <1>2 DEF SweepSays

LEMMA SweepStep == LoopInv /\ CheckLinearity => LoopInv'
<1> SUFFICES ASSUME LoopInv, CheckLinearity PROVE LoopInv'
  OBVIOUS
<1>1. CASE Unchecked
  <2>1. /\ pc = "probe" /\ SetWindowLinearity("unchecked") /\ gain' = gain
        /\ UNCHANGED <<mode, running, visits, status, windowId, signalled, failures, may>>
        /\ mode = "simulate"
    BY <1>1 DEF Unchecked, ProbeUnchanged
  <2>2. gain' = Gain
    BY <2>1 DEF LoopInv, InSweep
  <2>3. SweepSays("unchecked") /\ "unchecked" \in Verdicts
    BY <2>1 DEF SweepSays, Verdicts
  <2> QED
    BY <2>1, <2>2, <2>3, SweepEnds
<1>2. CASE ProbeGain
  <2> DEFINE center == windows[windowId].center
             n == Len(probe.floors) + 1
             g == Sweep(probe.up)[n]
  <2>1. /\ pc = "probe" /\ pc' = "probe" /\ mode = "radio" /\ Len(probe.floors) < 3
        /\ Possible(probe.up) /\ gain' = g
        /\ probe' = [probe EXCEPT !.floors = Append(@, FrontEnd[center][g])]
        /\ UNCHANGED <<mode, running, visits, status, windowId, windows, may, signalled, failures>>
    BY <1>2 DEF ProbeGain, Probing, ProbeUnchanged
  <2>2. /\ windowId \in DOMAIN windows /\ probe.up \in BOOLEAN /\ probe.floors \in Seq(Int)
        /\ probe = [up |-> probe.up, floors |-> probe.floors]
        /\ \A i \in 1 .. Len(probe.floors) : probe.floors[i] = FrontEnd[center][Sweep(probe.up)[i]]
    BY <2>1 DEF LoopInv, Types, InSweep
  <2>3. n \in 1 .. 3 /\ g \in 0 .. MaxGain /\ g \in Int
    <3>1. n \in 1 .. 3
      BY <2>1, <2>2
    <3> QED
      BY <2>1, <2>2, <3>1, SweepGains, SweepType
  <2>4. center \in Range(Windows)
    BY <2>2, CenterType DEF LoopInv
  <2>5. FrontEnd[center][g] \in Int
    BY <2>3, <2>4, FloorType
  <2>6. probe' = [up |-> probe.up, floors |-> Append(probe.floors, FrontEnd[center][g])]
    BY <2>1, <2>2
  <2>7. /\ probe'.floors \in Seq(Int) /\ Len(probe'.floors) = n /\ probe'.floors # <<>>
        /\ probe'.floors[n] = FrontEnd[center][g]
        /\ \A i \in 1 .. Len(probe.floors) : probe'.floors[i] = probe.floors[i]
    <3> HIDE DEF g, center
    <3> QED
      BY <2>2, <2>5, <2>6, AppendProperties
  <2>8. Types'
    BY <2>1, <2>2, <2>3, <2>6, <2>7 DEF LoopInv, Types
  <2>9. Endings'
    BY <2>1 DEF LoopInv, Endings, Finishing, Starting
  <2>10. InSweep'
    <3>1. ASSUME NEW i \in 1 .. n
          PROVE  probe'.floors[i] = FrontEnd[center][Sweep(probe.up)[i]]
      BY <2>1, <2>2, <2>7
    <3> HIDE DEF g, n, center
    <3> QED
      BY <2>1, <2>2, <2>3, <2>6, <2>7, <3>1 DEF InSweep, Possible, HighestGain, center
  <2>11. OnRecord' /\ Configured'
    BY <2>1, RecordKept DEF LoopInv, Configured, Starting
  <2> QED
    BY <2>8, <2>9, <2>10, <2>11 DEF LoopInv
<1>3. CASE ProbeHearsNothing
  <2>1. /\ pc = "probe" /\ SweepSays("inconclusive") /\ gain' = Gain
        /\ UNCHANGED <<mode, running, visits, status, windowId, signalled, failures, may>>
    BY <1>3 DEF ProbeHearsNothing, Probing, ProbeUnchanged, Restored
  <2> QED
    BY <2>1, SweepEnds DEF Verdicts
<1>4. CASE SkipSweep
  <2>1. /\ pc = "probe" /\ SweepSays("inconclusive") /\ gain' = gain /\ ~Possible(probe.up)
        /\ UNCHANGED <<mode, running, visits, status, windowId, signalled, failures, may>>
    BY <1>4 DEF SkipSweep, Probing, ProbeUnchanged
  <2>2. gain' = Gain
    BY <2>1 DEF LoopInv, InSweep
  <2> QED
    BY <2>1, <2>2, SweepEnds DEF Verdicts
<1>5. CASE EndSweep
  <2> DEFINE v == CompressionVerdict(probe.floors)
             center == windows[windowId].center
  <2>1. /\ pc = "probe" /\ SweepSays(v) /\ gain' = Gain /\ Len(probe.floors) = 3
        /\ UNCHANGED <<mode, running, visits, status, windowId, signalled, failures, may>>
    BY <1>5 DEF EndSweep, ProbeUnchanged, Restored
  <2>2. /\ center \in Range(Windows) /\ probe.up \in BOOLEAN /\ Possible(probe.up)
        /\ \A i \in 1 .. 3 : probe.floors[i] = FrontEnd[center][Sweep(probe.up)[i]]
    <3>1. windowId \in DOMAIN windows /\ Types
      BY <2>1 DEF LoopInv, InSweep
    <3> QED
      BY <2>1, <3>1, CenterType DEF LoopInv, Types, InSweep
  <2>3. v = "linear" => \E up \in BOOLEAN : RisesOn(center, up)
    <3> HIDE DEF center
    <3> QED
      BY <2>1, <2>2, LinearVerdict
  <2>4. v \in Verdicts
    BY VerdictType
  <2> HIDE DEF v
  <2> QED
    BY <2>1, <2>3, <2>4, SweepEnds
<1> QED
  BY <1>1, <1>2, <1>3, <1>4, <1>5 DEF CheckLinearity

(* The dwell of a window, and its end. *)
LEMMA DwellStep == LoopInv /\ (LeaveWindow \/ ReadNothing) => LoopInv'
<1> SUFFICES ASSUME LoopInv, LeaveWindow \/ ReadNothing PROVE LoopInv'
  OBVIOUS
<1>1. /\ pc = "read" /\ pc' \in {"read", "close"}
      /\ UNCHANGED <<mode, running, visits, status, gain, probe, windowId, windows,
                     signalled, failures, may>>
  BY DEF LeaveWindow, ReadNothing, Goes, radioVars, envVars, dbVars
<1>2. Types' /\ Endings'
  BY <1>1 DEF LoopInv, Types, Endings, Finishing, Starting
<1>3. Configured'
  BY <1>1 DEF LoopInv, Configured
<1> QED
  BY <1>1, <1>2, <1>3, SameWindows DEF LoopInv

LEMMA WindowsCloseStep ==
  ASSUME LoopInv, Close, UNCHANGED <<gain, probe, mode, visits, signalled, failures, may>>,
         status' \in {0, 1}, running' \in BOOLEAN
  PROVE  Types' /\ OnRecord'
<1>1. windows' = WindowClosed /\ windowId' = None /\ Types
  BY DEF Close, LoopInv
<1>2. /\ windows' \in Seq(WindowRows) /\ DOMAIN windows' = DOMAIN windows
      /\ \A w \in DOMAIN windows : /\ windows'[w].center = windows[w].center
                                   /\ windows'[w].linear = windows[w].linear
  BY <1>1, WindowsClosed
<1>3. Types'
  BY <1>1, <1>2 DEF Types
<1>4. OnRecord'
  BY <1>2, RecordKept DEF LoopInv
<1> QED
  BY <1>3, <1>4

LEMMA CloseStep == LoopInv /\ CloseWindow => LoopInv'
<1> SUFFICES ASSUME LoopInv, CloseWindow PROVE LoopInv'
  OBVIOUS
<1>1. /\ pc = "close" /\ pc' = "open" /\ Close
      /\ status' = (IF Stalled THEN 1 ELSE status) /\ running' = GoesOn
      /\ UNCHANGED <<gain, probe, mode, visits, signalled, failures, may>>
  BY DEF CloseWindow, StallStatus, radioVars, envVars
<1>2. running' = (running /\ ~Stalled /\ ~(mode = "simulate" /\ visits >= Len(Windows)))
  BY <1>1 DEF GoesOn
<1>3. status' \in {0, 1} /\ running' \in BOOLEAN
  BY <1>1, <1>2 DEF LoopInv, Types
<1>4. Types' /\ OnRecord'
  BY <1>1, <1>3, WindowsCloseStep
<1>5. visits \in Nat /\ Len(Windows) \in Nat
  BY CaptureConstants DEF LoopInv, Types
<1>6. Endings'
  <2>1. failures > 0 => status' = 1
    BY <1>1 DEF LoopInv, Endings, Types
  <2>2. \/ running' \/ signalled \/ status' = 1
        \/ mode = "simulate" /\ visits = Len(Windows)
    <3>1. /\ running \/ signalled \/ status = 1 \/ (mode = "simulate" /\ visits = Len(Windows))
          /\ mode = "simulate" => visits <= Len(Windows)
      BY DEF LoopInv, Endings
    <3>2. CASE Stalled
      BY <1>1, <3>2
    <3>3. CASE ~Stalled /\ mode = "simulate" /\ visits >= Len(Windows)
      BY <1>5, <3>1, <3>3
    <3>4. CASE ~Stalled /\ ~(mode = "simulate" /\ visits >= Len(Windows))
      BY <1>1, <1>2, <3>1, <3>4
    <3> QED
      BY <3>2, <3>3, <3>4
  <2>3. mode = "simulate" /\ running' => visits < Len(Windows)
    <3> SUFFICES ASSUME mode = "simulate", running' PROVE visits < Len(Windows)
      OBVIOUS
    <3>1. ~(visits >= Len(Windows))
      BY <1>2
    <3> QED
      BY <1>5, <3>1
  <2> QED
    BY <1>1, <2>1, <2>2, <2>3 DEF LoopInv, Endings, Finishing, Starting
<1> QED
  BY <1>1, <1>4, <1>6 DEF LoopInv, InSweep, Configured

(* finish() *)
LEMMA FinishStep ==
  LoopInv /\ (StopSeen \/ PutNone \/ Join \/ StopTimesOut \/ Collect \/ CloseLast \/ EndRun)
    => LoopInv'
<1> SUFFICES ASSUME LoopInv, StopSeen \/ PutNone \/ Join \/ StopTimesOut \/ Collect
                             \/ CloseLast \/ EndRun
             PROVE  LoopInv'
  OBVIOUS
<1>1. /\ (Finishing \/ (pc = "open" /\ ~running)) /\ Finishing' /\ pc' # "probe"
      /\ UNCHANGED <<mode, running, visits, gain, probe, signalled, failures, may>>
      /\ status' \in {status, 1}
  BY DEF StopSeen, PutNone, Join, StopTimesOut, Collect, CloseLast, EndRun, Goes, Finishing,
         radioVars, envVars, dbVars, workVars
<1>2. status \in {0, 1} /\ status' \in {0, 1} /\ running \in BOOLEAN
  BY <1>1 DEF LoopInv, Types
<1>3. Types' /\ OnRecord'
  <2>1. CASE CloseLast
    BY <1>1, <1>2, <2>1, WindowsCloseStep DEF CloseLast
  <2>2. CASE ~CloseLast
    <3>1. UNCHANGED <<windows, windowId>>
      BY <2>2 DEF StopSeen, PutNone, Join, StopTimesOut, Collect, EndRun, Goes, dbVars
    <3> QED
      BY <1>1, <1>2, <3>1, RecordKept DEF LoopInv, Types
  <2> QED
    BY <2>1, <2>2
<1>4. ~Starting' /\ pc' # "open" /\ pc' # "read" /\ pc' # "close"
  BY <1>1 DEF Finishing, Starting
<1>5. Endings'
  BY <1>1, <1>2, <1>4 DEF LoopInv, Endings
<1> QED
  BY <1>1, <1>3, <1>4, <1>5 DEF LoopInv, InSweep, Configured

(* An exception, and SIGINT before and after there is a handler. *)
LEMMA RaiseStep == LoopInv /\ Raised => LoopInv'
<1> SUFFICES ASSUME LoopInv, Raised PROVE LoopInv'
  OBVIOUS
<1>1. /\ Finishing' /\ status' = 1 /\ failures' = failures + 1
      /\ UNCHANGED <<mode, running, visits, signalled, windows, windowId, may>>
  BY DEF Raised, RadioRaises, DbRaises, DiskRaises, Raises, Finishing
<1>2. gain' \in {gain, Gain} /\ probe' \in {probe, FirstSweep}
  BY DEF Raised, RadioRaises, DbRaises, DiskRaises, Restored, radioVars
<1>3. Types'
  <2>1. gain' \in Int /\ failures' \in Nat
    BY <1>1, <1>2, GainType DEF LoopInv, Types
  <2>2. /\ probe'.up \in BOOLEAN /\ probe'.floors \in Seq(Int)
        /\ probe' = [up |-> probe'.up, floors |-> probe'.floors]
    <3>1. CASE probe' = probe
      BY <3>1 DEF LoopInv, Types
    <3>2. CASE probe' = FirstSweep
      BY <3>2 DEF FirstSweep
    <3> QED
      BY <1>2, <3>1, <3>2
  <2> QED
    BY <1>1, <2>1, <2>2 DEF LoopInv, Types
<1>4. ~Starting' /\ pc' # "open" /\ pc' # "read" /\ pc' # "close" /\ pc' # "probe"
  BY <1>1 DEF Finishing, Starting
<1> QED
  BY <1>1, <1>3, <1>4, RecordKept DEF LoopInv, Endings, InSweep, Configured

LEMMA SignalStep == LoopInv /\ (Sigint \/ Interrupt) => LoopInv'
<1> SUFFICES ASSUME LoopInv, Sigint \/ Interrupt PROVE LoopInv'
  OBVIOUS
<1>1. CASE Sigint
  <2>1. /\ signalled' = TRUE /\ running' = FALSE /\ pc \in {"open", "read"}
        /\ UNCHANGED <<pc, mode, visits, status, gain, probe, windowId, windows, failures, may>>
    BY <1>1 DEF Sigint, Looking, radioVars, dbVars
  <2> QED
    BY <2>1, RecordKept DEF LoopInv, Types, Endings, InSweep, Configured, Finishing, Starting
<1>2. CASE Interrupt
  <2>1. /\ signalled' = TRUE /\ status' = 1 /\ pc' = "done"
        /\ UNCHANGED <<mode, running, visits, gain, probe, windowId, windows, failures, may>>
    BY <1>2 DEF Interrupt, radioVars, dbVars
  <2> QED
    BY <2>1, RecordKept DEF LoopInv, Types, Endings, InSweep, Configured, Finishing, Starting
<1> QED
  BY <1>1, <1>2

(* Frames, rows, jobs and the analysis thread change nothing of this. *)
LEMMA FrameStep ==
  LoopInv /\ (ReadOverflow \/ FrameShort \/ Frame \/ Start \/ AnalyseDue \/ AnalyseLast \/ End
              \/ Worker \/ RadioDies \/ UNCHANGED vars) => LoopInv'
<1> SUFFICES ASSUME LoopInv,
                    \/ ReadOverflow \/ FrameShort \/ Frame \/ Start \/ AnalyseDue
                    \/ AnalyseLast \/ End \/ Worker \/ RadioDies \/ UNCHANGED vars
             PROVE  LoopInv'
  OBVIOUS
<1>1. CASE ReadOverflow \/ FrameShort \/ Frame
  BY <1>1, Unrelated DEF ReadOverflow, FrameShort, Frame, LiveRead, loopInvVars, radioVars, dbVars
<1>2. CASE Start \/ AnalyseDue \/ AnalyseLast \/ End
  BY <1>2, Unrelated DEF Start, AnalyseDue, AnalyseLast, End, FrameUnchanged, loopInvVars,
                         radioVars, envVars
<1>3. CASE Worker \/ RadioDies \/ UNCHANGED vars
  BY <1>3, Unrelated DEF Worker, TakeJob, FinishJob, WorkerUnchanged, RadioDies, vars, loopVars,
                         dbVars, envVars, loopInvVars, radioVars
<1> QED
  BY <1>1, <1>2, <1>3

LEMMA InvStep == LoopInv /\ [Next]_vars => LoopInv'
<1> SUFFICES ASSUME LoopInv, [Next]_vars PROVE LoopInv'
  OBVIOUS
<1>1. CASE StartUp
  BY <1>1, StartUpStep
<1>2. CASE OpenWindow
  BY <1>2, OpenStep
<1>3. CASE CheckLinearity
  BY <1>3, SweepStep
<1>4. CASE LeaveWindow \/ ReadNothing
  BY <1>4, DwellStep
<1>5. CASE CloseWindow
  BY <1>5, CloseStep
<1>6. CASE StopSeen \/ PutNone \/ Join \/ StopTimesOut \/ Collect \/ CloseLast \/ EndRun
  BY <1>6, FinishStep
<1>7. CASE Raised
  BY <1>7, RaiseStep
<1>8. CASE Sigint \/ Interrupt
  BY <1>8, SignalStep
<1>9. CASE \/ ReadOverflow \/ FrameShort \/ Frame \/ Start \/ AnalyseDue \/ AnalyseLast \/ End
           \/ Worker \/ RadioDies \/ UNCHANGED vars
  BY <1>9, FrameStep
<1> QED
  BY <1>1, <1>2, <1>3, <1>4, <1>5, <1>6, <1>7, <1>8, <1>9 DEF Next, Main, Done

-----------------------------------------------------------------------------
(* Theorems. *)

(* The process exits with zero only if it was interrupted or has visited   *)
(* every window of a simulation, and nothing raised on the way.            *)
THEOREM ExitIsHonest == Spec => []FailureExitsNonzero
<1>1. LoopInv => FailureExitsNonzero
  <2> SUFFICES ASSUME LoopInv, pc = "done", status = 0
               PROVE  /\ failures = 0
                      /\ signalled \/ (mode = "simulate" /\ visits = Len(Windows))
    BY DEF FailureExitsNonzero
  <2> QED
    BY DEF LoopInv, Types, Endings, Finishing
<1> QED
  BY <1>1, InvInit, InvStep, PTL DEF Spec

(* Frames are read at the configured gain, and a window on record as       *)
(* linear is of a band whose floor rises on over all of a sweep that       *)
(* begins or ends there.                                                   *)
THEOREM GainIsRestored == Spec => []LinearAtConfiguredGain
<1>1. LoopInv => LinearAtConfiguredGain
  BY DEF LoopInv, OnRecord, Configured, LinearAtConfiguredGain
<1> QED
  BY <1>1, InvInit, InvStep, PTL DEF Spec

-----------------------------------------------------------------------------
(* The tables and queues of the events, and what the loop is about to do. *)

EventRows ==
  [ch : Channels, window : {None} \cup Nat, heard : Nat, from : Nat, closed : {None} \cup Nat,
   parent : {None} \cup Nat, result : {None} \cup Nat]

JobRows == [row : Nat, gen : Nat, start : Nat, n : Nat]

Answers == [row : Nat, gen : Nat, ok : BOOLEAN, n : Nat]

Lines == [s : SUBSET Channels, due : SUBSET Channels, e : SUBSET Channels,
          from : {None} \cup Nat, te : {None} \cup Nat]

EventTypes ==
  /\ events \in Seq(EventRows)
  /\ openRows \in [Channels -> {None} \cup Nat] /\ pending \in [Channels -> {None} \cup Nat]
  /\ written \in Nat /\ logWindow \in {None} \cup Nat
  /\ line \in Lines

QueueTypes ==
  /\ jobs \in Seq(JobRows \cup {NoJob})
  /\ results \in Seq(Answers)
  /\ worker.state \in {"idle", "busy", "exited"}
  /\ worker.state = "busy" => worker.job \in JobRows
  /\ worker.state # "busy" => worker.job = NoJob

(* The analysis that begins at `at` has some of the event in it. *)
Covers(at, from) == at <= from /\ from < at + Analyze

(* What is left to do of a frame. *)
LineInv ==
  /\ line.s # {} => line.from # None
  /\ \A c \in line.s : openRows[c] = None
  /\ \A c \in line.s : c \notin line.e
  /\ \A c \in line.s : pending[c] # None => Covers(pending[c], line.from)
  /\ \A c \in line.e : openRows[c] # None => events[openRows[c]].from < line.te

(* The open row of a channel is of an event heard on it in this window. *)
RowsOpen ==
  /\ \A c \in Channels : openRows[c] # None => openRows[c] \in DOMAIN events
  /\ \A c \in Channels : openRows[c] # None => events[openRows[c]].ch = c
  /\ \A c \in Channels : openRows[c] # None => events[openRows[c]].heard = visits
  /\ \A c \in Channels : openRows[c] # None => events[openRows[c]].closed = None
  /\ \A c \in Channels : openRows[c] # None /\ pending[c] # None =>
                           Covers(pending[c], events[openRows[c]].from)

(* A job is of the event it says, and so is an answer. *)
JobRight(j, ev) ==
  /\ j.row \in DOMAIN ev
  /\ j.gen = ev[j.row].heard
  /\ j.start <= ev[j.row].from /\ ev[j.row].from < j.start + j.n

AnswerRight(a, ev) == a.row \in DOMAIN ev /\ a.gen = ev[a.row].heard

JobsRight ==
  /\ \A i \in DOMAIN jobs : jobs[i] # NoJob => JobRight(jobs[i], events)
  /\ worker.state = "busy" => JobRight(worker.job, events)
  /\ \A i \in DOMAIN results : AnswerRight(results[i], events)
  /\ \A r \in DOMAIN events : events[r].result \in {None, events[r].heard}

(* What is open is of the window that is open; nothing is lost but by an   *)
(* exception.                                                              *)
Booked ==
  /\ line # NoLine => pc = "read"
  /\ Starting \/ pc \in {"open", "probe"} => openRows = NoRows
  /\ pc = "end" \/ run = "ended" => openRows = NoRows /\ windowId = None
  /\ Starting \/ pc = "open" => windowId = None
  /\ pc \in {"probe", "read", "close"} => windowId = Len(windows) /\ logWindow = windowId
  /\ windowId \in {None, Len(windows)}
  /\ \A w \in DOMAIN windows : windows[w].closed = (w # windowId)
  /\ run = "ended" => pc = "done"
  /\ Finishing \/ failures = 0

(* The analysis thread ends with the job that says so, which is the last. *)
AtEnd == pc \in {"join", "collect", "last", "end", "done"}

Ended ==
  /\ \A i \in DOMAIN jobs : jobs[i] = NoJob => i = Len(jobs) /\ AtEnd
  /\ worker.state = "exited" => jobs = <<>> /\ AtEnd
  /\ pc \in {"collect", "last", "end"} \/ run = "ended" => gaveUp \/ worker.state = "exited"
  /\ pc \in {"last", "end"} \/ run = "ended" => gaveUp \/ results = <<>>

EventsInv == EventTypes /\ QueueTypes /\ LineInv /\ RowsOpen /\ JobsRight /\ Booked /\ Ended

-----------------------------------------------------------------------------
(* Operators. *)

LEMMA ConstantTypes ==
  /\ Analyze \in Nat /\ Pretrigger \in Nat /\ Pretrigger < Analyze
  /\ MinAnalyze \in Nat /\ MinAnalyze > 0 /\ MinFrames \in Nat /\ MinFrames > 0
  /\ HangFrames \in Nat /\ HangFrames > 0 /\ RingCapacity \in Nat /\ JobDepth \in Nat
<1>1. {NChannels, StallFrames, MinFrames, HangFrames, MinAnalyze, Warmup, JobDepth,
       MaxVisits} \subseteq Nat \ {0}
  BY CaptureConstants, Zenon
<1>2. {DwellReads, Pretrigger, Analyze, RingCapacity, MaxReads} \subseteq Nat
  BY CaptureConstants, Zenon
<1>3. {MinFrames, HangFrames, MinAnalyze, JobDepth} \subseteq Nat \ {0}
  BY <1>1
<1>4. {Pretrigger, Analyze, RingCapacity} \subseteq Nat
  BY <1>2
<1>5. \A n \in Nat \ {0} : n \in Nat /\ n > 0
  OBVIOUS
<1>6. MinFrames \in Nat /\ MinFrames > 0
  BY <1>3, <1>5
<1>7. HangFrames \in Nat /\ HangFrames > 0
  BY <1>3, <1>5
<1>8. MinAnalyze \in Nat /\ MinAnalyze > 0
  BY <1>3, <1>5
<1>9. JobDepth \in Nat /\ Pretrigger \in Nat /\ Analyze \in Nat /\ RingCapacity \in Nat
  BY <1>3, <1>4
<1> QED
  BY <1>6, <1>7, <1>8, <1>9, AnalyzeAssumption

LEMMA NoJobIsNone == NoJob \notin JobRows
BY DEF NoJob, JobRows, None

LEMMA NoLineType == NoLine \in Lines
BY DEF NoLine, Lines

LEMMA SettledIs ==
  ASSUME NEW l \in Lines
  PROVE  /\ Settled(l) \in Lines
         /\ Settled(l).s = l.s /\ Settled(l).due = l.due /\ Settled(l).e = l.e
         /\ l.s # {} => Settled(l) = l
         /\ l.e # {} => Settled(l) = l
BY NoLineType DEF Settled, NoLine, Lines

LEMMA SaturatedIs ==
  ASSUME NEW n \in Int
  PROVE  Sat(n) \in Nat /\ Sat(n) >= n /\ (n >= 0 => Sat(n) = n)
BY DEF Sat

(* An analysis is asked for from the reach back on. *)
LEMMA ReachBack ==
  ASSUME NEW from \in Nat
  PROVE  Sat(from - Pretrigger) \in Nat /\ Covers(Sat(from - Pretrigger), from)
BY ConstantTypes DEF Sat, Covers

LEMMA LesserIs ==
  ASSUME NEW m \in Int, NEW n \in Int
  PROVE  Lesser(m, n) \in Int /\ (Lesser(m, n) = m \/ Lesser(m, n) = n)
BY DEF Lesser

LEMMA LeastOf ==
  ASSUME NEW S \in SUBSET Channels, S # {}
  PROVE  MinOf(S) \in S
<1>1. S \in SUBSET Nat
  <2>1. NChannels \in Nat
    BY CaptureConstants
  <2> QED
    BY <2>1 DEF Channels
<1>2. PICK x \in S : \A y \in S : ~ (<<y, x>> \in OpToRel(<, Nat))
  BY <1>1, NatLessThanWellFounded, WFMin, Zenon
<1>3. \A y \in S : ~ (y < x)
  BY <1>1, <1>2, Zenon DEF OpToRel
<1>4. \A y \in S : x <= y
  BY <1>1, <1>3
<1> QED
  BY <1>4 DEF MinOf

LEMMA EventField ==
  ASSUME EventTypes, NEW r \in DOMAIN events
  PROVE  /\ r \in Nat /\ r >= 1 /\ r <= Len(events) /\ events[r] \in EventRows
         /\ events[r].ch \in Channels /\ events[r].window \in {None} \cup Nat
         /\ events[r].heard \in Nat /\ events[r].from \in Nat
         /\ events[r].closed \in {None} \cup Nat /\ events[r].parent \in {None} \cup Nat
         /\ events[r].result \in {None} \cup Nat
<1>1. events[r] \in EventRows /\ r \in 1 .. Len(events)
  BY DEF EventTypes
<1> QED
  BY <1>1 DEF EventRows

(* No row goes, and when and where an event was heard is never changed. *)
SameHistory(ev, ev1) ==
  /\ DOMAIN ev \subseteq DOMAIN ev1
  /\ \A r \in DOMAIN ev : /\ ev1[r].ch = ev[r].ch
                          /\ ev1[r].heard = ev[r].heard
                          /\ ev1[r].from = ev[r].from

LEMMA HistoryKeeps ==
  ASSUME NEW ev, NEW ev1, SameHistory(ev, ev1)
  PROVE  /\ \A j : JobRight(j, ev) => JobRight(j, ev1)
         /\ \A a : AnswerRight(a, ev) => AnswerRight(a, ev1)
BY DEF SameHistory, JobRight, AnswerRight

(* What the answers that were collected do to the rows. *)
LEMMA AppliedIs ==
  ASSUME EventTypes, NEW rs \in Seq(Answers)
  PROVE  /\ Applied(rs) \in Seq(EventRows) /\ DOMAIN Applied(rs) = DOMAIN events
         /\ SameHistory(events, Applied(rs))
         /\ \A r \in DOMAIN events :
              /\ Applied(rs)[r].closed = events[r].closed
              /\ Applied(rs)[r].parent = events[r].parent
              /\ Applied(rs)[r].window = events[r].window
              /\ \/ Applied(rs)[r] = events[r]
                 \/ \E i \in DOMAIN rs : /\ rs[i].row = r /\ rs[i].ok
                                         /\ Applied(rs)[r].result = rs[i].gen
<1>1. DOMAIN events = 1 .. Len(events) /\ Len(events) \in Nat
  BY DEF EventTypes
<1>2. ASSUME NEW r \in DOMAIN events
      PROVE  /\ Applied(rs)[r] \in EventRows
             /\ Applied(rs)[r].ch = events[r].ch /\ Applied(rs)[r].heard = events[r].heard
             /\ Applied(rs)[r].from = events[r].from
             /\ Applied(rs)[r].closed = events[r].closed
             /\ Applied(rs)[r].parent = events[r].parent
             /\ Applied(rs)[r].window = events[r].window
             /\ \/ Applied(rs)[r] = events[r]
                \/ \E i \in DOMAIN rs : /\ rs[i].row = r /\ rs[i].ok
                                        /\ Applied(rs)[r].result = rs[i].gen
  <2> DEFINE of == {i \in DOMAIN rs : rs[i].row = r /\ rs[i].ok}
  <2>1. Applied(rs)[r] = IF of = {} THEN events[r]
                         ELSE [events[r] EXCEPT !.result = rs[CHOOSE i \in of : TRUE].gen]
    BY DEF Applied
  <2>2. events[r] \in EventRows
    BY EventField
  <2>3. CASE of = {}
    BY <2>1, <2>2, <2>3
  <2>4. CASE of # {}
    <3>1. PICK i \in of : i = (CHOOSE k \in of : TRUE)
      BY <2>4
    <3>2. i \in DOMAIN rs /\ rs[i].row = r /\ rs[i].ok
      BY <3>1
    <3>3. rs[i].gen \in Nat
      <4>1. rs[i] \in Answers
        BY <3>2
      <4> QED
        BY <4>1 DEF Answers
    <3>4. Applied(rs)[r] = [events[r] EXCEPT !.result = rs[i].gen]
      BY <2>1, <2>4, <3>1
    <3> HIDE DEF of
    <3>5. /\ Applied(rs)[r] \in EventRows /\ Applied(rs)[r].result = rs[i].gen
          /\ Applied(rs)[r].ch = events[r].ch /\ Applied(rs)[r].heard = events[r].heard
          /\ Applied(rs)[r].from = events[r].from
          /\ Applied(rs)[r].closed = events[r].closed
          /\ Applied(rs)[r].parent = events[r].parent
          /\ Applied(rs)[r].window = events[r].window
      BY <2>2, <3>3, <3>4 DEF EventRows
    <3> QED
      BY <3>2, <3>5
  <2> QED
    BY <2>3, <2>4
<1>3. DOMAIN Applied(rs) = DOMAIN events
  BY DEF Applied
<1>4. Applied(rs) = [r \in 1 .. Len(events) |-> Applied(rs)[r]]
  BY <1>1 DEF Applied
<1>5. Applied(rs) \in Seq(EventRows)
  <2> DEFINE to == Applied(rs)
  <2>1. to = [r \in 1 .. Len(events) |-> to[r]] /\ \A r \in 1 .. Len(events) : to[r] \in EventRows
    BY <1>1, <1>2, <1>4
  <2> HIDE DEF to
  <2>2. to \in [1 .. Len(events) -> EventRows]
    BY <2>1
  <2>3. to \in Seq(EventRows)
    BY <1>1, <2>2
  <2> QED
    BY <2>3 DEF to
<1> QED
  BY <1>2, <1>3, <1>5 DEF SameHistory

(* The rows of some channels are closed. *)
LEMMA RowsClosedIs ==
  ASSUME EventTypes, visits \in Nat, NEW done \in SUBSET Channels
  PROVE  /\ RowsClosed(done) \in Seq(EventRows) /\ DOMAIN RowsClosed(done) = DOMAIN events
         /\ SameHistory(events, RowsClosed(done))
         /\ \A r \in DOMAIN events :
              /\ RowsClosed(done)[r].result = events[r].result
              /\ RowsClosed(done)[r].parent = events[r].parent
              /\ RowsClosed(done)[r].window = events[r].window
              /\ RowsClosed(done)[r].closed = IF \E c \in done : openRows[c] = r
                                              THEN visits ELSE events[r].closed
<1>1. DOMAIN events = 1 .. Len(events) /\ Len(events) \in Nat
  BY DEF EventTypes
<1>2. ASSUME NEW r \in DOMAIN events
      PROVE  /\ RowsClosed(done)[r] \in EventRows
             /\ RowsClosed(done)[r].ch = events[r].ch
             /\ RowsClosed(done)[r].heard = events[r].heard
             /\ RowsClosed(done)[r].from = events[r].from
             /\ RowsClosed(done)[r].result = events[r].result
             /\ RowsClosed(done)[r].parent = events[r].parent
             /\ RowsClosed(done)[r].window = events[r].window
             /\ RowsClosed(done)[r].closed = IF \E c \in done : openRows[c] = r
                                             THEN visits ELSE events[r].closed
  <2>1. RowsClosed(done)[r] = IF \E c \in done : openRows[c] = r
                              THEN [events[r] EXCEPT !.closed = visits] ELSE events[r]
    BY DEF RowsClosed
  <2>2. events[r] \in EventRows
    BY EventField
  <2> QED
    BY <2>1, <2>2 DEF EventRows
<1>3. DOMAIN RowsClosed(done) = DOMAIN events
  BY DEF RowsClosed
<1>4. RowsClosed(done) = [r \in 1 .. Len(events) |-> RowsClosed(done)[r]]
  BY <1>1 DEF RowsClosed
<1>5. RowsClosed(done) \in Seq(EventRows)
  <2> DEFINE to == RowsClosed(done)
  <2>1. to = [r \in 1 .. Len(events) |-> to[r]] /\ \A r \in 1 .. Len(events) : to[r] \in EventRows
    BY <1>1, <1>2, <1>4
  <2> HIDE DEF to
  <2>2. to \in [1 .. Len(events) -> EventRows]
    BY <2>1
  <2>3. to \in Seq(EventRows)
    BY <1>1, <2>2
  <2> QED
    BY <2>3 DEF to
<1> QED
  BY <1>2, <1>3, <1>5 DEF SameHistory

(* One row is written to. *)
LEMMA RowWritten ==
  ASSUME EventTypes, NEW r \in DOMAIN events, NEW row \in EventRows,
         row.ch = events[r].ch, row.heard = events[r].heard, row.from = events[r].from,
         NEW to, to = [events EXCEPT ![r] = row]
  PROVE  /\ to \in Seq(EventRows) /\ DOMAIN to = DOMAIN events
         /\ SameHistory(events, to)
         /\ \A q \in DOMAIN events : to[q] = IF q = r THEN row ELSE events[q]
<1>1. r \in 1 .. Len(events) /\ events \in Seq(EventRows)
  BY DEF EventTypes
<1>2. to \in Seq(EventRows)
  BY <1>1, ExceptSeq
<1> QED
  BY <1>2 DEF SameHistory

-----------------------------------------------------------------------------
(* The steps that leave the events alone. *)

LEMMA EventsInit == Init => EventsInv
<1> SUFFICES ASSUME Init PROVE EventsInv
  OBVIOUS
<1>1. NoRows \in [Channels -> {None} \cup Nat]
  BY DEF NoRows
<1>2. EventTypes
  BY <1>1, NoLineType DEF Init, EventTypes
<1>3. QueueTypes
  BY DEF Init, QueueTypes
<1>4. LineInv /\ RowsOpen /\ JobsRight
  BY DEF Init, LineInv, RowsOpen, JobsRight, NoLine, NoRows
<1>5. Booked /\ Ended
  BY DEF Init, Booked, Ended, Starting, Finishing, AtEnd
<1> QED
  BY <1>2, <1>3, <1>4, <1>5 DEF EventsInv

LEMMA EventsSame ==
  ASSUME EventsInv, UNCHANGED <<events, openRows, pending, visits>>,
         written' \in Nat, logWindow' = logWindow, line' \in {line, NoLine}
  PROVE  EventTypes' /\ LineInv' /\ RowsOpen'
<1>1. EventTypes'
  BY NoLineType DEF EventsInv, EventTypes
<1>2. LineInv'
  <2>1. CASE line' = line
    BY <2>1 DEF EventsInv, LineInv
  <2>2. CASE line' = NoLine
    BY <2>2 DEF LineInv, NoLine
  <2> QED
    BY <2>1, <2>2
<1>3. RowsOpen'
  BY DEF EventsInv, RowsOpen
<1> QED
  BY <1>1, <1>2, <1>3

LEMMA QueuesSame ==
  ASSUME EventsInv, UNCHANGED <<jobs, results, worker, events>>
  PROVE  QueueTypes' /\ JobsRight'
BY DEF EventsInv, QueueTypes, JobsRight

(* The loop moves on, outside finish(). *)
LEMMA LoopMoves ==
  ASSUME EventsInv, UNCHANGED <<jobs, results, worker, gaveUp, run, failures>>, ~AtEnd, ~AtEnd'
  PROVE  Ended'
BY DEF EventsInv, Ended, AtEnd, Booked

LEMMA StartUpEvents == EventsInv /\ StartUp => EventsInv'
<1> SUFFICES ASSUME EventsInv, StartUp PROVE EventsInv'
  OBVIOUS
<1>1. /\ UNCHANGED <<mode, running, visits, written, pending, windowId, logWindow, openRows,
                     line, workVars, windows, events, envVars>>
      /\ Starting /\ (Starting' \/ pc' = "open") /\ pc' # "probe" /\ pc # "read" /\ ~AtEnd /\ ~AtEnd'
      /\ run' \in {run, "started", "registered"} /\ pc # "done" /\ pc' # "end" /\ pc' # "read"
      /\ pc' # "close"
  BY DEF StartUp, Configure, StartRun, RegisterReceiver, StartStream, StartsUp, Starting, AtEnd
<1>2. EventTypes' /\ LineInv' /\ RowsOpen'
  BY <1>1, EventsSame DEF EventsInv, EventTypes
<1>3. QueueTypes' /\ JobsRight'
  BY <1>1, QueuesSame DEF workVars
<1>4. Booked'
  BY <1>1 DEF EventsInv, Booked, workVars, envVars, Finishing, Starting
<1>5. Ended'
  BY <1>1 DEF EventsInv, Ended, Booked, workVars, envVars, AtEnd
<1> QED
  BY <1>2, <1>3, <1>4, <1>5 DEF EventsInv

LEMMA OpenEventsStep == LoopInv /\ EventsInv /\ OpenWindow => EventsInv'
<1> SUFFICES ASSUME LoopInv, EventsInv, OpenWindow PROVE EventsInv'
  OBVIOUS
<1> DEFINE row == [center |-> Windows[(visits % Len(Windows)) + 1], closed |-> FALSE,
                   linear |-> "unset"]
<1>1. /\ pc = "open" /\ pc' = "probe" /\ visits' = visits + 1
      /\ windows' = Append(windows, row)
      /\ windowId' = Len(windows) + 1 /\ logWindow' = Len(windows) + 1
      /\ pending' = NoRows /\ written' = 0
      /\ UNCHANGED <<openRows, line, jobs, results, worker, run, events, failures, gaveUp>>
  BY DEF OpenWindow, ThisWindow, workVars
<1>2. windows \in Seq(WindowRows) /\ Len(windows) \in Nat
  BY DEF LoopInv, Types
<1>3. openRows = NoRows /\ line = NoLine /\ openRows' = NoRows /\ line' = NoLine
  BY <1>1 DEF EventsInv, Booked
<1>4. NoRows \in [Channels -> {None} \cup Nat]
  BY DEF NoRows
<1>5. EventTypes'
  BY <1>1, <1>2, <1>4 DEF EventsInv, EventTypes
<1>6. LineInv' /\ RowsOpen'
  BY <1>3 DEF LineInv, RowsOpen, NoLine, NoRows
<1>7. QueueTypes' /\ JobsRight'
  BY <1>1, QueuesSame
<1>8. /\ Len(windows') = Len(windows) + 1 /\ DOMAIN windows' = 1 .. Len(windows) + 1
      /\ windows'[Len(windows) + 1].closed = FALSE
      /\ \A w \in DOMAIN windows : windows'[w] = windows[w]
      /\ DOMAIN windows = 1 .. Len(windows)
  <2>1. row.closed = FALSE
    OBVIOUS
  <2> HIDE DEF row
  <2> QED
    BY <1>1, <1>2, <2>1
<1>9. \A w \in DOMAIN windows' : windows'[w].closed = (w # windowId')
  <2>1. windowId = None
    BY <1>1 DEF EventsInv, Booked
  <2>2. ASSUME NEW w \in DOMAIN windows'
        PROVE  windows'[w].closed = (w # windowId')
    <3>1. w \in 1 .. Len(windows) + 1 /\ w \in Int
      BY <1>2, <1>8
    <3>2. CASE w = Len(windows) + 1
      BY <1>1, <1>8, <3>2
    <3>3. CASE w # Len(windows) + 1
      <4>1. w \in DOMAIN windows
        BY <1>2, <1>8, <3>1, <3>3
      <4>2. windows[w].closed = (w # windowId)
        BY <4>1 DEF EventsInv, Booked
      <4>3. w # windowId
        BY <2>1, <1>2, <1>8, <4>1 DEF None
      <4> QED
        BY <1>1, <1>8, <3>3, <4>1, <4>2, <4>3
    <3> QED
      BY <3>2, <3>3
  <2> QED
    BY <2>2
<1>10. Booked'
  BY <1>1, <1>2, <1>3, <1>8, <1>9 DEF EventsInv, Booked, Starting, Finishing
<1>11. Ended'
  BY <1>1, LoopMoves DEF AtEnd
<1> QED
  BY <1>5, <1>6, <1>7, <1>10, <1>11 DEF EventsInv

LEMMA VerdictKeepsClosed ==
  ASSUME LoopInv, windowId \in DOMAIN windows, NEW v \in Verdicts, SetWindowLinearity(v)
  PROVE  /\ DOMAIN windows' = DOMAIN windows /\ Len(windows') = Len(windows)
         /\ \A w \in DOMAIN windows : windows'[w].closed = windows[w].closed
<1>1. windows \in Seq(WindowRows) /\ windowId \in 1 .. Len(windows)
  BY DEF LoopInv, Types
<1>2. windows' = [windows EXCEPT ![windowId].linear = v]
  BY DEF SetWindowLinearity
<1>3. \A w \in DOMAIN windows : windows'[w].closed = windows[w].closed
  <2> TAKE w \in DOMAIN windows
  <2>1. windows[w] \in WindowRows
    BY <1>1
  <2> QED
    BY <1>1, <1>2, <2>1 DEF WindowRows
<1>4. windows' \in Seq(WindowRows) /\ DOMAIN windows' = DOMAIN windows
  BY <1>2, VerdictRecorded DEF LoopInv
<1> QED
  BY <1>1, <1>3, <1>4

LEMMA LinearityEvents == LoopInv /\ EventsInv /\ CheckLinearity => EventsInv'
<1> SUFFICES ASSUME LoopInv, EventsInv, CheckLinearity PROVE EventsInv'
  OBVIOUS
<1>1. /\ pc = "probe" /\ pc' \in {"probe", "read"}
      /\ UNCHANGED <<visits, written, pending, windowId, logWindow, openRows, line, jobs, results,
                     worker, run, events, failures, gaveUp>>
  BY DEF CheckLinearity, Unchecked, ProbeGain, ProbeHearsNothing, SkipSweep, EndSweep, Probing,
         ProbeUnchanged, workVars, SweepSays, SetWindowLinearity
<1>2. UNCHANGED windows \/ \E v \in Verdicts : SetWindowLinearity(v)
  BY VerdictType DEF CheckLinearity, Unchecked, ProbeGain, ProbeHearsNothing, SkipSweep, EndSweep,
     SweepSays, Verdicts
<1>3. /\ DOMAIN windows' = DOMAIN windows /\ Len(windows') = Len(windows)
      /\ \A w \in DOMAIN windows : windows'[w].closed = windows[w].closed
  <2>1. windowId \in DOMAIN windows
    BY <1>1 DEF LoopInv, InSweep
  <2> QED
    BY <1>2, <2>1, VerdictKeepsClosed
<1>4. EventTypes' /\ LineInv' /\ RowsOpen'
  BY <1>1, EventsSame DEF EventsInv, EventTypes
<1>5. QueueTypes' /\ JobsRight'
  BY <1>1, QueuesSame
<1>6. line = NoLine /\ openRows = NoRows /\ windowId = Len(windows) /\ logWindow = windowId
  BY <1>1 DEF EventsInv, Booked
<1>7. Booked'
  BY <1>1, <1>3, <1>6 DEF EventsInv, Booked, Starting, Finishing
<1>8. Ended'
  BY <1>1, LoopMoves DEF AtEnd
<1> QED
  BY <1>4, <1>5, <1>7, <1>8 DEF EventsInv

(* Reads that bring nothing to look at, the end of a dwell, and signals. *)
LEMMA ReadEvents ==
  EventsInv /\ (LeaveWindow \/ ReadOverflow \/ ReadNothing \/ FrameShort \/ Sigint \/ RadioDies
                \/ UNCHANGED vars)
    => EventsInv'
<1> SUFFICES ASSUME EventsInv, \/ LeaveWindow \/ ReadOverflow \/ ReadNothing \/ FrameShort
                               \/ Sigint \/ RadioDies \/ UNCHANGED vars
             PROVE  EventsInv'
  OBVIOUS
<1>1. /\ UNCHANGED <<visits, pending, windowId, logWindow, openRows, jobs, results, worker, run,
                     windows, events, failures, gaveUp, line>>
      /\ written' \in {written, written + 1}
      /\ pc' = pc \/ (pc = "read" /\ line = NoLine /\ pc' \in {"read", "close"})
  BY DEF LeaveWindow, ReadOverflow, ReadNothing, FrameShort, Sigint, RadioDies, vars, LiveRead,
         MayRead, Goes, Looking, workVars, dbVars, loopVars, envVars
<1>2. EventTypes' /\ LineInv' /\ RowsOpen'
  BY <1>1, EventsSame DEF EventsInv, EventTypes
<1>3. QueueTypes' /\ JobsRight'
  BY <1>1, QueuesSame
<1>4. Booked'
  BY <1>1 DEF EventsInv, Booked, Starting, Finishing
<1>5. Ended'
  BY <1>1 DEF EventsInv, Ended, AtEnd
<1> QED
  BY <1>2, <1>3, <1>4, <1>5 DEF EventsInv

LEMMA InterruptEvents == EventsInv /\ Interrupt => EventsInv'
<1> SUFFICES ASSUME EventsInv, Interrupt PROVE EventsInv'
  OBVIOUS
<1>1. /\ UNCHANGED <<visits, pending, windowId, logWindow, openRows, jobs, results, worker, run,
                     windows, events, failures, gaveUp, line, written>>
      /\ Starting /\ pc' = "done"
  BY DEF Interrupt, workVars, dbVars
<1>2. EventTypes' /\ LineInv' /\ RowsOpen'
  BY <1>1, EventsSame DEF EventsInv, EventTypes
<1>3. QueueTypes' /\ JobsRight'
  BY <1>1, QueuesSame
<1>4. line = NoLine /\ run # "ended"
  BY <1>1 DEF EventsInv, Booked, Starting
<1>5. Booked'
  BY <1>1, <1>4 DEF EventsInv, Booked, Starting, Finishing
<1>6. Ended'
  BY <1>1, <1>4 DEF EventsInv, Ended, AtEnd
<1> QED
  BY <1>2, <1>3, <1>5, <1>6 DEF EventsInv

(* finish(), but for what it writes of the events *)
LEMMA FinishEvents ==
  EventsInv /\ (StopSeen \/ PutNone \/ Join \/ StopTimesOut \/ EndRun) => EventsInv'
<1> SUFFICES ASSUME EventsInv, StopSeen \/ PutNone \/ Join \/ StopTimesOut \/ EndRun
             PROVE  EventsInv'
  OBVIOUS
<1>1. /\ UNCHANGED <<visits, pending, windowId, logWindow, openRows, results, worker,
                     windows, events, failures, line, written>>
      /\ pc \in {"open", "stop", "join", "end"}
  BY DEF StopSeen, PutNone, Join, StopTimesOut, EndRun, Goes, workVars, dbVars, envVars
<1>2. EventTypes' /\ LineInv' /\ RowsOpen'
  BY <1>1, EventsSame DEF EventsInv, EventTypes
<1>3. line = NoLine
  BY <1>1 DEF EventsInv, Booked
<1>4. CASE PutNone
  <2>1. /\ pc = "stop" /\ pc' = "join" /\ jobs' = Append(jobs, NoJob) /\ UNCHANGED <<run, gaveUp>>
    BY <1>4 DEF PutNone, dbVars, envVars
  <2>2. jobs \in Seq(JobRows \cup {NoJob})
    BY DEF EventsInv, QueueTypes
  <2>3. /\ jobs' \in Seq(JobRows \cup {NoJob}) /\ Len(jobs') = Len(jobs) + 1
        /\ DOMAIN jobs' = 1 .. Len(jobs) + 1 /\ DOMAIN jobs = 1 .. Len(jobs) /\ Len(jobs) \in Nat
        /\ jobs'[Len(jobs) + 1] = NoJob
        /\ \A i \in 1 .. Len(jobs) : jobs'[i] = jobs[i]
    <3> HIDE DEF NoJob
    <3> QED
      BY <2>1, <2>2
  <2>4. QueueTypes' /\ JobsRight'
    <3>1. \A i \in DOMAIN jobs' : jobs'[i] # NoJob => i \in DOMAIN jobs /\ jobs'[i] = jobs[i]
      BY <2>3
    <3>2. QueueTypes'
      BY <1>1, <2>3 DEF EventsInv, QueueTypes
    <3>3. JobsRight'
      BY <1>1, <3>1 DEF EventsInv, JobsRight
    <3> QED
      BY <3>2, <3>3
  <2>5. Booked'
    BY <1>1, <1>3, <2>1 DEF EventsInv, Booked, Starting, Finishing
  <2>6. Ended'
    <3>1. worker.state # "exited" /\ \A i \in DOMAIN jobs : jobs[i] # NoJob
      BY <2>1 DEF EventsInv, Ended, AtEnd
    <3>2. \A i \in DOMAIN jobs' : jobs'[i] = NoJob => i = Len(jobs')
      BY <2>3, <3>1
    <3>3. run # "ended"
      BY <2>1 DEF EventsInv, Booked
    <3> QED
      BY <1>1, <2>1, <3>1, <3>2, <3>3 DEF EventsInv, Ended, AtEnd
  <2> QED
    BY <1>2, <2>4, <2>5, <2>6 DEF EventsInv
<1>5. CASE StopSeen \/ Join \/ StopTimesOut
  <2>1. /\ UNCHANGED <<jobs, run>> /\ run # "ended"
        /\ \/ pc = "open" /\ pc' = "stop" /\ UNCHANGED gaveUp
           \/ pc = "join" /\ pc' = "collect" /\ UNCHANGED gaveUp /\ worker.state = "exited"
           \/ pc \in {"stop", "join"} /\ pc' = "collect" /\ gaveUp' = TRUE
    BY <1>1, <1>5 DEF StopSeen, Join, StopTimesOut, Goes, workVars, envVars, Joined,
       EventsInv, Booked
  <2>2. QueueTypes' /\ JobsRight'
    BY <1>1, <2>1, QueuesSame
  <2>3. Booked'
    BY <1>1, <1>3, <2>1 DEF EventsInv, Booked, Starting, Finishing
  <2>4. Ended'
    BY <1>1, <2>1 DEF EventsInv, Ended, AtEnd
  <2> QED
    BY <1>2, <2>2, <2>3, <2>4 DEF EventsInv
<1>6. CASE EndRun
  <2>1. /\ pc = "end" /\ pc' = "done" /\ run' = "ended" /\ UNCHANGED <<jobs, gaveUp>>
    BY <1>6 DEF EndRun, workVars, envVars
  <2>2. QueueTypes' /\ JobsRight'
    BY <1>1, <2>1, QueuesSame
  <2>3. Booked'
    BY <1>1, <1>3, <2>1 DEF EventsInv, Booked, Starting, Finishing
  <2>4. Ended'
    BY <1>1, <2>1 DEF EventsInv, Ended, AtEnd
  <2> QED
    BY <1>2, <2>2, <2>3, <2>4 DEF EventsInv
<1> QED
  BY <1>4, <1>5, <1>6

-----------------------------------------------------------------------------
(* The steps that write events. *)

LEMMA JobsKept ==
  ASSUME EventsInv, SameHistory(events, events'), UNCHANGED <<jobs, worker>>,
         results' \in {results, <<>>},
         \A r \in DOMAIN events' : events'[r].result \in {None, events'[r].heard}
  PROVE  QueueTypes' /\ JobsRight'
<1>1. QueueTypes'
  <2>1. QueueTypes
    BY DEF EventsInv
  <2>2. results' \in Seq(Answers)
    <3>1. CASE results' = results
      BY <2>1, <3>1, Zenon DEF QueueTypes
    <3>2. CASE results' = <<>>
      BY <3>2
    <3> QED
      BY <3>1, <3>2
  <2>3. jobs' \in Seq(JobRows \cup {NoJob})
    BY <2>1 DEF QueueTypes
  <2> QED
    BY <2>1, <2>2, <2>3, Zenon DEF QueueTypes
<1>2. /\ \A j : JobRight(j, events) => JobRight(j, events')
      /\ \A a : AnswerRight(a, events) => AnswerRight(a, events')
  BY HistoryKeeps
<1>3. \A i \in DOMAIN jobs' : jobs'[i] # NoJob => JobRight(jobs'[i], events')
  BY <1>2 DEF EventsInv, JobsRight
<1>4. worker'.state = "busy" => JobRight(worker'.job, events')
  BY <1>2 DEF EventsInv, JobsRight
<1>5. \A i \in DOMAIN results' : AnswerRight(results'[i], events')
  BY <1>2 DEF EventsInv, JobsRight
<1> QED
  BY <1>1, <1>3, <1>4, <1>5 DEF JobsRight

LEMMA RowsKept ==
  ASSUME EventsInv, SameHistory(events, events'), UNCHANGED visits,
         openRows' \in [Channels -> {None} \cup Nat], pending' \in [Channels -> {None} \cup Nat],
         \A c \in Channels : openRows'[c] \in {None, openRows[c]},
         \A c \in Channels : openRows'[c] # None => events'[openRows[c]].closed = None,
         \A c \in Channels : openRows'[c] # None => pending'[c] \in {None, pending[c]}
  PROVE  RowsOpen'
<1> SUFFICES ASSUME NEW c \in Channels, openRows'[c] # None
             PROVE  /\ openRows'[c] \in DOMAIN events'
                    /\ events'[openRows'[c]].ch = c
                    /\ events'[openRows'[c]].heard = visits'
                    /\ events'[openRows'[c]].closed = None
                    /\ pending'[c] # None => Covers(pending'[c], events'[openRows'[c]].from)
  BY DEF RowsOpen
<1>1. openRows'[c] = openRows[c] /\ openRows[c] # None
  OBVIOUS
<1>2. PICK r : r = openRows[c]
  OBVIOUS
<1>3. /\ r \in DOMAIN events /\ events[r].ch = c /\ events[r].heard = visits
      /\ pending[c] # None => Covers(pending[c], events[r].from)
  BY <1>1, <1>2 DEF EventsInv, RowsOpen
<1>4. /\ r \in DOMAIN events' /\ events'[r].ch = c /\ events'[r].heard = visits
      /\ events'[r].from = events[r].from
  BY <1>3 DEF SameHistory
<1> QED
  BY <1>1, <1>2, <1>3, <1>4

LEMMA LineKept ==
  ASSUME EventsInv, SameHistory(events, events'),
         \A c \in Channels : openRows'[c] \in {None, openRows[c]},
         line'.from = line.from, line'.te = line.te, line'.s \subseteq line.s,
         line'.e \subseteq line.e,
         \A c \in line'.s : pending'[c] = pending[c]
  PROVE  LineInv'
<1>1. line \in Lines /\ line'.s \subseteq Channels /\ line'.e \subseteq Channels
  BY DEF EventsInv, EventTypes, Lines
<1>2. line'.s # {} => line'.from # None
  BY DEF EventsInv, LineInv
<1>3. \A c \in line'.s : openRows'[c] = None
  BY <1>1 DEF EventsInv, LineInv
<1>4. \A c \in line'.s : c \notin line'.e
  BY DEF EventsInv, LineInv
<1>5. \A c \in line'.s : pending'[c] # None => Covers(pending'[c], line'.from)
  BY DEF EventsInv, LineInv
<1>6. \A c \in line'.e : openRows'[c] # None => events'[openRows'[c]].from < line'.te
  <2> TAKE c \in line'.e
  <2> HAVE openRows'[c] # None
  <2>1. PICK r : r = openRows[c] /\ r = openRows'[c] /\ r # None
    BY <1>1
  <2>2. r \in DOMAIN events /\ events[r].from < line.te
    BY <1>1, <2>1 DEF EventsInv, RowsOpen, LineInv
  <2>3. events'[r].from < line'.te
    BY <2>2 DEF SameHistory
  <2> QED
    BY <2>1, <2>3
<1> QED
  BY <1>2, <1>3, <1>4, <1>5, <1>6 DEF LineInv

LEMMA NoLineInv ==
  ASSUME line' = NoLine PROVE LineInv'
BY DEF LineInv, NoLine

(* The answers collected, all of them or up to the one that failed. *)
LEMMA AnswersApplied ==
  ASSUME EventsInv, NEW rs \in Seq(Answers), events' = Applied(rs),
         \A i \in DOMAIN rs : AnswerRight(rs[i], events)
  PROVE  /\ events' \in Seq(EventRows) /\ DOMAIN events' = DOMAIN events
         /\ SameHistory(events, events')
         /\ \A r \in DOMAIN events : events'[r].closed = events[r].closed
         /\ \A r \in DOMAIN events' : events'[r].result \in {None, events'[r].heard}
<1>1. /\ events' \in Seq(EventRows) /\ DOMAIN events' = DOMAIN events
      /\ SameHistory(events, events')
      /\ \A r \in DOMAIN events : events'[r].closed = events[r].closed
      /\ \A r \in DOMAIN events :
           \/ events'[r] = events[r]
           \/ \E i \in DOMAIN rs : rs[i].row = r /\ rs[i].ok /\ events'[r].result = rs[i].gen
  BY AppliedIs DEF EventsInv
<1>2. ASSUME NEW r \in DOMAIN events
      PROVE  events'[r].result \in {None, events'[r].heard}
  <2>1. CASE events'[r] = events[r]
    BY <2>1 DEF EventsInv, JobsRight
  <2>2. CASE \E i \in DOMAIN rs : rs[i].row = r /\ rs[i].ok /\ events'[r].result = rs[i].gen
    BY <1>1, <2>2 DEF AnswerRight, SameHistory
  <2> QED
    BY <1>1, <2>1, <2>2
<1> QED
  BY <1>1, <1>2

LEMMA SomeAnswers ==
  ASSUME EventsInv, NEW k \in 0 .. Len(results)
  PROVE  /\ SubSeq(results, 1, k) \in Seq(Answers)
         /\ \A i \in DOMAIN SubSeq(results, 1, k) : AnswerRight(SubSeq(results, 1, k)[i], events)
<1>1. results \in Seq(Answers) /\ Len(results) \in Nat /\ DOMAIN results = 1 .. Len(results)
  BY DEF EventsInv, QueueTypes
<1>2. /\ SubSeq(results, 1, k) \in Seq(Answers) /\ Len(SubSeq(results, 1, k)) = k
      /\ \A i \in 1 .. k : SubSeq(results, 1, k)[i] = results[i]
  <2>1. \A i \in 1 .. k : results[i] \in Answers
    BY <1>1
  <2>2. SubSeq(results, 1, k) = [i \in 1 .. k |-> results[i]]
    BY <1>1
  <2> QED
    BY <1>1, <2>1, <2>2
<1>3. \A i \in 1 .. k : AnswerRight(results[i], events)
  BY <1>1 DEF EventsInv, JobsRight
<1>4. DOMAIN SubSeq(results, 1, k) = 1 .. k
  BY <1>2
<1> QED
  BY <1>2, <1>3, <1>4

LEMMA AllAnswers ==
  ASSUME EventsInv
  PROVE  results \in Seq(Answers) /\ \A i \in DOMAIN results : AnswerRight(results[i], events)
BY DEF EventsInv, QueueTypes, JobsRight

LEMMA CollectEvents == EventsInv /\ Collect => EventsInv'
<1> SUFFICES ASSUME EventsInv, Collect PROVE EventsInv'
  OBVIOUS
<1>1. /\ pc = "collect" /\ pc' = "last" /\ events' = Applied(results) /\ results' = <<>>
      /\ UNCHANGED <<visits, pending, windowId, logWindow, openRows, jobs, worker,
                     windows, failures, line, written, run, gaveUp>>
  BY DEF Collect, envVars
<1>2. /\ events' \in Seq(EventRows) /\ DOMAIN events' = DOMAIN events
      /\ SameHistory(events, events')
      /\ \A r \in DOMAIN events : events'[r].closed = events[r].closed
      /\ \A r \in DOMAIN events' : events'[r].result \in {None, events'[r].heard}
  BY <1>1, AnswersApplied, AllAnswers
<1>3. EventTypes'
  BY <1>1, <1>2 DEF EventsInv, EventTypes
<1>4. QueueTypes' /\ JobsRight'
  BY <1>1, <1>2, JobsKept
<1>5. RowsOpen'
  <2>1. \A c \in Channels : openRows'[c] # None => events'[openRows[c]].closed = None
    BY <1>1, <1>2 DEF EventsInv, RowsOpen
  <2> QED
    BY <1>1, <1>2, <1>3, <2>1, RowsKept DEF EventTypes
<1>6. LineInv'
  BY <1>1, <1>2, LineKept
<1>7. Booked'
  BY <1>1 DEF EventsInv, Booked, Starting, Finishing
<1>8. Ended'
  <2>1. run # "ended"
    BY <1>1 DEF EventsInv, Booked
  <2> QED
    BY <1>1, <2>1 DEF EventsInv, Ended, AtEnd
<1> QED
  BY <1>3, <1>4, <1>5, <1>6, <1>7, <1>8 DEF EventsInv

(* A frame: what has begun is pending from the reach back on, and what has *)
(* ended began before.                                                     *)
LEMMA FrameEvents == EventsInv /\ Frame => EventsInv'
<1> SUFFICES ASSUME EventsInv, Frame PROVE EventsInv'
  OBVIOUS
<1>1. /\ pc = "read" /\ pc' = "read" /\ events' = Applied(results) /\ results' = <<>>
      /\ line = NoLine /\ written' = written + 1
      /\ UNCHANGED <<visits, windowId, logWindow, openRows, jobs, worker, windows, failures, run,
                     gaveUp>>
  BY DEF Frame, LiveRead, MayRead
<1>2. PICK s \in SUBSET (Channels \ InProgress),
           e \in SUBSET {c \in InProgress : written >= Declared(c) + HangFrames} :
       LET from == Sat(written - (MinFrames - 1))
           begun == [c \in Channels |-> IF c \in s THEN Sat(from - Pretrigger)
                                                   ELSE pending[c]]
       IN /\ written' < Warmup => s \cup e = {}
          /\ pending' = begun
          /\ line' = Settled([s |-> s, e |-> e, from |-> from,
                              te |-> Sat(written - (HangFrames - 1)),
                              due |-> {c \in Channels : begun[c] # None
                                                        /\ written' >= begun[c] + Analyze}])
  BY DEF Frame
<1> DEFINE from == Sat(written - (MinFrames - 1))
           te == Sat(written - (HangFrames - 1))
           due == {c \in Channels : pending'[c] # None /\ written' >= pending'[c] + Analyze}
           l == [s |-> s, e |-> e, from |-> from, te |-> te, due |-> due]
<1>3. /\ written \in Nat /\ pending \in [Channels -> {None} \cup Nat]
      /\ openRows \in [Channels -> {None} \cup Nat]
  BY DEF EventsInv, EventTypes
<1>4. /\ from \in Nat /\ te \in Nat /\ te >= written - (HangFrames - 1)
      /\ Sat(from - Pretrigger) \in Nat /\ Covers(Sat(from - Pretrigger), from)
  BY <1>3, ConstantTypes, SaturatedIs, ReachBack
<1>5. pending' = [c \in Channels |-> IF c \in s THEN Sat(from - Pretrigger) ELSE pending[c]]
  BY <1>2
<1>6. pending' \in [Channels -> {None} \cup Nat]
  <2> HIDE DEF from
  <2> QED
    BY <1>3, <1>4, <1>5
<1>7. s \subseteq Channels /\ e \subseteq Channels /\ s \cap e = {}
      /\ \A c \in s : openRows[c] = None
  BY DEF InProgress
<1>8. l \in Lines /\ line' = Settled(l)
  <2>1. line' = Settled(l)
    BY <1>2
  <2>2. l \in Lines
    <3> HIDE DEF from, te, due
    <3>1. due \subseteq Channels
      BY DEF due
    <3> QED
      BY <1>4, <1>7, <3>1 DEF Lines
  <2> QED
    BY <2>1, <2>2
<1>9. /\ line' \in Lines /\ line'.s = s /\ line'.e = e
      /\ s # {} => line' = l
      /\ e # {} => line' = l
  <2>1. l.s = s /\ l.e = e
    OBVIOUS
  <2> HIDE DEF l
  <2> QED
    BY <1>8, <2>1, SettledIs
<1>10. /\ events' \in Seq(EventRows) /\ DOMAIN events' = DOMAIN events
       /\ SameHistory(events, events')
       /\ \A r \in DOMAIN events : events'[r].closed = events[r].closed
       /\ \A r \in DOMAIN events' : events'[r].result \in {None, events'[r].heard}
  BY <1>1, AnswersApplied, AllAnswers
<1>11. EventTypes'
  BY <1>1, <1>3, <1>6, <1>9, <1>10 DEF EventsInv, EventTypes
<1>12. QueueTypes' /\ JobsRight'
  BY <1>1, <1>10, JobsKept
<1>13. RowsOpen'
  <2>1. \A c \in Channels : openRows'[c] # None => events'[openRows[c]].closed = None
    BY <1>1, <1>10 DEF EventsInv, RowsOpen
  <2>2. \A c \in Channels : openRows'[c] # None => pending'[c] \in {None, pending[c]}
    <3> HIDE DEF from
    <3> QED
      BY <1>1, <1>5, <1>7
  <2> QED
    BY <1>1, <1>10, <1>11, <2>1, <2>2, RowsKept DEF EventTypes
<1>14. LineInv'
  <2>1. line'.s # {} => line'.from # None
    <3>1. l.from = from /\ from # None
      BY <1>4 DEF None
    <3> HIDE DEF l, from
    <3> QED
      BY <1>9, <3>1
  <2>2. \A c \in line'.s : openRows'[c] = None /\ c \notin line'.e
    BY <1>1, <1>7, <1>9
  <2>3. \A c \in line'.s : pending'[c] # None => Covers(pending'[c], line'.from)
    <3> TAKE c \in line'.s
    <3>1. c \in s /\ line' = l /\ l.from = from
      BY <1>9
    <3>2. pending'[c] = Sat(from - Pretrigger) /\ line'.from = from
      <4> HIDE DEF l, from
      <4> QED
        BY <1>5, <1>7, <3>1
    <3> HIDE DEF l, from
    <3> QED
      BY <1>4, <3>2
  <2>4. \A c \in line'.e : openRows'[c] # None => events'[openRows'[c]].from < line'.te
    <3> TAKE c \in line'.e
    <3> HAVE openRows'[c] # None
    <3>1. c \in e /\ line' = l /\ l.te = te
      BY <1>9
    <3>2. PICK r : r = openRows[c] /\ r = openRows'[c] /\ r # None
      BY <1>1
    <3>3. r \in DOMAIN events
      BY <1>7, <3>1, <3>2 DEF EventsInv, RowsOpen
    <3>4. events[r].from \in Nat /\ events'[r].from = events[r].from
      BY <1>10, <3>3, EventField DEF EventsInv, SameHistory
    <3>5. written >= events[r].from + MinFrames - 1 + HangFrames
      BY <3>1, <3>2 DEF Declared
    <3>6. events[r].from < te
      <4> HIDE DEF te
      <4> QED
        BY <1>3, <1>4, <3>4, <3>5, ConstantTypes
    <3>7. line'.te = te
      <4> HIDE DEF l, te
      <4> QED
        BY <3>1
    <3> HIDE DEF te
    <3> QED
      BY <3>2, <3>4, <3>6, <3>7
  <2> QED
    BY <2>1, <2>2, <2>3, <2>4 DEF LineInv
<1>15. Booked'
  BY <1>1 DEF EventsInv, Booked, Starting, Finishing
<1>16. Ended'
  <2>1. run # "ended"
    BY <1>1 DEF EventsInv, Booked
  <2> QED
    BY <1>1, <2>1 DEF EventsInv, Ended, AtEnd
<1> QED
  BY <1>11, <1>12, <1>13, <1>14, <1>15, <1>16 DEF EventsInv

(* EventLog.start() *)
LEMMA StartEvents == LoopInv /\ EventsInv /\ Start => EventsInv'
<1> SUFFICES ASSUME LoopInv, EventsInv, Start PROVE EventsInv'
  OBVIOUS
<1>1. PICK ch : ch = MinOf(line.s)
  OBVIOUS
<1> DEFINE row == [ch |-> ch, window |-> logWindow, heard |-> visits, from |-> line.from,
                   closed |-> None, parent |-> None, result |-> None]
           l == [line EXCEPT !.s = line.s \ {ch}]
<1>2. /\ line.s # {} /\ events' = Append(events, row)
      /\ openRows' = [openRows EXCEPT ![ch] = Len(events')]
      /\ line' = Settled(l)
      /\ UNCHANGED <<pc, visits, pending, windowId, logWindow, jobs, worker, results, windows,
                     failures, run, gaveUp, written>>
  BY <1>1 DEF Start, FrameUnchanged, envVars
<1>3. /\ line \in Lines /\ line.s \subseteq Channels /\ line.from \in {None} \cup Nat
      /\ line = [s |-> line.s, due |-> line.due, e |-> line.e, from |-> line.from, te |-> line.te]
      /\ line.e \subseteq Channels
  BY DEF EventsInv, EventTypes, Lines
<1>4. ch \in line.s /\ ch \in Channels /\ ch \notin line.e /\ line.from \in Nat
  BY <1>1, <1>2, <1>3, LeastOf DEF EventsInv, LineInv
<1>5. visits \in Nat
  BY DEF LoopInv, Types
<1>6. row \in EventRows
  BY <1>3, <1>4, <1>5 DEF EventRows, EventsInv, EventTypes
<1>7. events \in Seq(EventRows) /\ openRows \in [Channels -> {None} \cup Nat]
  BY DEF EventsInv, EventTypes
<1>8. /\ events' \in Seq(EventRows) /\ Len(events') = Len(events) + 1 /\ Len(events) \in Nat
      /\ DOMAIN events = 1 .. Len(events) /\ DOMAIN events' = 1 .. Len(events) + 1
      /\ \A r \in DOMAIN events : events'[r] = events[r]
      /\ events'[Len(events) + 1] = row
  <2> HIDE DEF row
  <2> QED
    BY <1>2, <1>6, <1>7, AppendProperties
<1>9. SameHistory(events, events')
  BY <1>8 DEF SameHistory
<1>10. l \in Lines /\ l.s = line.s \ {ch} /\ l.e = line.e /\ l.from = line.from /\ l.te = line.te
  BY <1>3 DEF Lines
<1>11. /\ line' \in Lines /\ line'.s = line.s \ {ch} /\ line'.e = line.e
       /\ line'.s # {} => line'.from = line.from
       /\ line'.e # {} => line'.te = line.te
  <2> HIDE DEF l
  <2> QED
    BY <1>2, <1>10, SettledIs
<1>12. openRows' \in [Channels -> {None} \cup Nat]
  <2>1. openRows' = [openRows EXCEPT ![ch] = Len(events) + 1]
    BY <1>2, <1>8, Zenon
  <2>2. PICK n \in Nat : n = Len(events) + 1
    BY <1>8
  <2> QED
    BY <1>7, <2>1, <2>2
<1>13. /\ openRows'[ch] = Len(events) + 1
       /\ \A c \in Channels : c # ch => openRows'[c] = openRows[c]
  BY <1>2, <1>4, <1>7, <1>8
<1>14. EventTypes'
  BY <1>2, <1>8, <1>11, <1>12 DEF EventsInv, EventTypes
<1>15. QueueTypes' /\ JobsRight'
  <2>1. row.result = None
    OBVIOUS
  <2>2. \A r \in DOMAIN events' : events'[r].result \in {None, events'[r].heard}
    <3> TAKE r \in DOMAIN events'
    <3>1. CASE r \in DOMAIN events
      BY <1>8, <3>1 DEF EventsInv, JobsRight
    <3>2. CASE r = Len(events) + 1
      <4> HIDE DEF row
      <4> QED
        BY <1>8, <2>1, <3>2
    <3> QED
      BY <1>8, <3>1, <3>2
  <2> QED
    BY <1>2, <1>9, <2>2, JobsKept
<1>16. RowsOpen'
  <2> SUFFICES ASSUME NEW c \in Channels, openRows'[c] # None
               PROVE  /\ openRows'[c] \in DOMAIN events'
                      /\ events'[openRows'[c]].ch = c
                      /\ events'[openRows'[c]].heard = visits'
                      /\ events'[openRows'[c]].closed = None
                      /\ pending'[c] # None => Covers(pending'[c], events'[openRows'[c]].from)
    BY DEF RowsOpen
  <2>1. CASE c = ch
    <3>1. row.ch = ch /\ row.heard = visits /\ row.closed = None /\ row.from = line.from
      OBVIOUS
    <3>2. pending[ch] # None => Covers(pending[ch], line.from)
      BY <1>4 DEF EventsInv, LineInv
    <3> HIDE DEF row
    <3>3. events'[openRows'[c]] = row /\ openRows'[c] \in DOMAIN events'
      BY <1>8, <1>13, <2>1
    <3> QED
      BY <1>2, <2>1, <3>1, <3>2, <3>3
  <2>2. CASE c # ch
    <3>1. PICK r : r = openRows[c] /\ r = openRows'[c] /\ r # None
      BY <1>13, <2>2
    <3>2. /\ r \in DOMAIN events /\ events[r].ch = c /\ events[r].heard = visits
          /\ events[r].closed = None
          /\ pending[c] # None => Covers(pending[c], events[r].from)
      BY <3>1 DEF EventsInv, RowsOpen
    <3>3. r \in DOMAIN events' /\ events'[r] = events[r]
      BY <1>8, <3>2
    <3> QED
      BY <1>2, <3>1, <3>2, <3>3
  <2> QED
    BY <2>1, <2>2
<1>17. LineInv'
  <2>1. line'.s # {} => line'.from # None
    BY <1>4, <1>11 DEF None
  <2>2. \A c \in line'.s : openRows'[c] = None /\ c \notin line'.e
    BY <1>3, <1>11, <1>13 DEF EventsInv, LineInv
  <2>3. \A c \in line'.s : pending'[c] # None => Covers(pending'[c], line'.from)
    BY <1>2, <1>11 DEF EventsInv, LineInv
  <2>4. \A c \in line'.e : openRows'[c] # None => events'[openRows'[c]].from < line'.te
    <3> TAKE c \in line'.e
    <3> HAVE openRows'[c] # None
    <3>1. c # ch /\ c \in line.e /\ line'.te = line.te /\ c \in Channels
      BY <1>3, <1>4, <1>11
    <3>2. PICK r : r = openRows[c] /\ r = openRows'[c] /\ r # None
      BY <1>13, <3>1
    <3>3. r \in DOMAIN events /\ events[r].from < line.te
      BY <3>1, <3>2 DEF EventsInv, RowsOpen, LineInv
    <3>4. events'[r].from < line'.te
      BY <1>8, <3>1, <3>3
    <3> QED
      BY <3>2, <3>4
  <2> QED
    BY <2>1, <2>2, <2>3, <2>4 DEF LineInv
<1>18. pc = "read"
  BY <1>2 DEF EventsInv, Booked, NoLine
<1>19. Booked'
  BY <1>2, <1>18 DEF EventsInv, Booked, Starting, Finishing
<1>20. Ended'
  BY <1>2, <1>18, LoopMoves DEF AtEnd
<1> QED
  BY <1>14, <1>15, <1>16, <1>17, <1>19, <1>20 DEF EventsInv

-----------------------------------------------------------------------------
(* The analysis is decided: for a channel whose open row it covers. *)

CoversRow(ch, n) ==
  openRows[ch] # None /\ pending[ch] # None => events[openRows[ch]].from < pending[ch] + n

LEMMA JobAdded ==
  ASSUME EventsInv, NEW j \in JobRows, jobs' = Append(jobs, j), JobRight(j, events),
         UNCHANGED <<events, results, worker>>
  PROVE  /\ QueueTypes' /\ JobsRight'
         /\ \A i \in DOMAIN jobs' : jobs'[i] = NoJob => i \in DOMAIN jobs /\ jobs[i] = NoJob
<1>1. jobs \in Seq(JobRows \cup {NoJob})
  BY DEF EventsInv, QueueTypes
<1>2. /\ jobs' \in Seq(JobRows \cup {NoJob}) /\ Len(jobs) \in Nat
      /\ DOMAIN jobs = 1 .. Len(jobs) /\ DOMAIN jobs' = 1 .. Len(jobs) + 1
      /\ \A i \in DOMAIN jobs : jobs'[i] = jobs[i]
      /\ jobs'[Len(jobs) + 1] = j
  <2>1. Len(jobs') = Len(jobs) + 1 /\ jobs' \in Seq(JobRows \cup {NoJob})
    BY <1>1, AppendProperties
  <2> QED
    BY <1>1, <2>1, AppendProperties
<1>3. \A i \in DOMAIN jobs' : i \in DOMAIN jobs \/ i = Len(jobs) + 1
  BY <1>2
<1>4. QueueTypes'
  BY <1>2 DEF EventsInv, QueueTypes
<1>5. \A i \in DOMAIN jobs' : jobs'[i] # NoJob => JobRight(jobs'[i], events')
  BY <1>2, <1>3 DEF EventsInv, JobsRight
<1>6. JobsRight'
  BY <1>5 DEF EventsInv, JobsRight
<1>7. \A i \in DOMAIN jobs' : jobs'[i] = NoJob => i \in DOMAIN jobs /\ jobs[i] = NoJob
  BY <1>2, <1>3, NoJobIsNone
<1> QED
  BY <1>4, <1>6, <1>7

LEMMA RowMarked ==
  ASSUME EventsInv, NEW r \in DOMAIN events, NEW p \in DOMAIN events,
         events' = [events EXCEPT ![r].parent = p]
  PROVE  /\ events' \in Seq(EventRows) /\ DOMAIN events' = DOMAIN events
         /\ SameHistory(events, events')
         /\ \A q \in DOMAIN events : events'[q].closed = events[q].closed
         /\ \A q \in DOMAIN events' : events'[q].result \in {None, events'[q].heard}
<1> DEFINE row == [events[r] EXCEPT !.parent = p]
<1>1. EventTypes /\ p \in Nat /\ events[r] \in EventRows
  BY EventField DEF EventsInv
<1>2. /\ row \in EventRows /\ row.ch = events[r].ch /\ row.heard = events[r].heard
      /\ row.from = events[r].from /\ row.closed = events[r].closed
      /\ row.result = events[r].result
  BY <1>1 DEF EventRows
<1>3. events' = [events EXCEPT ![r] = row]
  OBVIOUS
<1> HIDE DEF row
<1>4. /\ events' \in Seq(EventRows) /\ DOMAIN events' = DOMAIN events
      /\ SameHistory(events, events')
      /\ \A q \in DOMAIN events : events'[q] = IF q = r THEN row ELSE events[q]
  BY <1>1, <1>2, <1>3, RowWritten
<1>5. \A q \in DOMAIN events : events'[q].result \in {None, events'[q].heard}
  BY <1>2, <1>4 DEF EventsInv, JobsRight
<1> QED
  BY <1>2, <1>4, <1>5

LEMMA Analysed ==
  ASSUME LoopInv, EventsInv, NEW ch \in Channels, NEW n \in Int, CoversRow(ch, n),
         Analyse(ch, n), UNCHANGED <<openRows, visits, results, worker>>
  PROVE  /\ events' \in Seq(EventRows) /\ SameHistory(events, events')
         /\ \A q \in DOMAIN events : events'[q].closed = events[q].closed
         /\ pending' \in [Channels -> {None} \cup Nat]
         /\ \A c \in Channels : pending'[c] \in {None, pending[c]}
         /\ RowsOpen' /\ QueueTypes' /\ JobsRight'
         /\ \A i \in DOMAIN jobs' : jobs'[i] = NoJob => i \in DOMAIN jobs /\ jobs[i] = NoJob
<1>1. /\ pending \in [Channels -> {None} \cup Nat] /\ openRows \in [Channels -> {None} \cup Nat]
      /\ visits \in Nat
  BY DEF EventsInv, EventTypes, LoopInv, Types
<1>2. pending' = [pending EXCEPT ![ch] = None]
  BY DEF Analyse
<1>3. /\ pending' \in [Channels -> {None} \cup Nat]
      /\ \A c \in Channels : pending'[c] \in {None, pending[c]}
  BY <1>1, <1>2
<1>4. ASSUME events' \in Seq(EventRows), SameHistory(events, events'),
             \A q \in DOMAIN events : events'[q].closed = events[q].closed
      PROVE  RowsOpen'
  <2>1. \A c \in Channels : openRows'[c] # None => events'[openRows[c]].closed = None
    BY <1>4 DEF EventsInv, RowsOpen
  <2> QED
    BY <1>1, <1>3, <1>4, <2>1, RowsKept
<1>5. CASE UNCHANGED <<events, jobs>>
  <2>1. /\ events' \in Seq(EventRows) /\ SameHistory(events, events')
        /\ \A q \in DOMAIN events : events'[q].closed = events[q].closed
    BY <1>5 DEF EventsInv, EventTypes, SameHistory
  <2>2. QueueTypes' /\ JobsRight'
    BY <1>5, QueuesSame
  <2> QED
    BY <1>3, <1>4, <1>5, <2>1, <2>2
<1>6. CASE /\ openRows[ch] # None
           /\ \E p \in InProgress : events' = [events EXCEPT ![openRows[ch]].parent = openRows[p]]
           /\ UNCHANGED jobs
  <2>1. PICK p \in InProgress : events' = [events EXCEPT ![openRows[ch]].parent = openRows[p]]
    BY <1>6
  <2>2. openRows[ch] \in DOMAIN events /\ openRows[p] \in DOMAIN events
    BY <1>6 DEF EventsInv, RowsOpen, InProgress
  <2>3. /\ events' \in Seq(EventRows) /\ DOMAIN events' = DOMAIN events
        /\ SameHistory(events, events')
        /\ \A q \in DOMAIN events : events'[q].closed = events[q].closed
        /\ \A q \in DOMAIN events' : events'[q].result \in {None, events'[q].heard}
    BY <2>1, <2>2, RowMarked
  <2>4. QueueTypes' /\ JobsRight'
    BY <1>6, <2>3, JobsKept
  <2> QED
    BY <1>3, <1>4, <1>6, <2>3, <2>4
<1>7. CASE /\ openRows[ch] # None /\ Held(pending[ch], n) /\ UNCHANGED events
           /\ jobs' = Append(jobs, [row |-> openRows[ch], gen |-> visits,
                                    start |-> pending[ch], n |-> n])
  <2> DEFINE j == [row |-> openRows[ch], gen |-> visits, start |-> pending[ch], n |-> n]
  <2>1. pending[ch] >= 0 /\ n > 0 /\ pending[ch] \in Int
    BY <1>1, <1>7 DEF Held, None
  <2>2. PICK r : r = openRows[ch]
    OBVIOUS
  <2>3. /\ r \in DOMAIN events /\ events[r].heard = visits /\ pending[ch] # None
        /\ Covers(pending[ch], events[r].from) /\ events[r].from < pending[ch] + n
    BY <1>7, <2>1, <2>2 DEF EventsInv, RowsOpen, CoversRow, None
  <2>4. r \in Nat
    BY <2>3, EventField DEF EventsInv
  <2>5. j = [row |-> r, gen |-> visits, start |-> pending[ch], n |-> n]
    BY <2>2
  <2>6. /\ j \in JobRows /\ j.row = r /\ j.gen = visits /\ j.start = pending[ch] /\ j.n = n
    BY <1>1, <2>1, <2>4, <2>5 DEF JobRows
  <2>7. jobs' = Append(jobs, j)
    BY <1>7
  <2> HIDE DEF j
  <2>8. JobRight(j, events)
    BY <2>3, <2>6 DEF JobRight, Covers
  <2>9. /\ QueueTypes' /\ JobsRight'
        /\ \A i \in DOMAIN jobs' : jobs'[i] = NoJob => i \in DOMAIN jobs /\ jobs[i] = NoJob
    BY <1>7, <2>6, <2>7, <2>8, JobAdded
  <2>10. /\ events' \in Seq(EventRows) /\ SameHistory(events, events')
         /\ \A q \in DOMAIN events : events'[q].closed = events[q].closed
    BY <1>7 DEF EventsInv, EventTypes, SameHistory
  <2> QED
    BY <1>3, <1>4, <2>9, <2>10
<1>8. \/ UNCHANGED <<events, jobs>>
      \/ /\ openRows[ch] # None
         /\ \E p \in InProgress : events' = [events EXCEPT ![openRows[ch]].parent = openRows[p]]
         /\ UNCHANGED jobs
      \/ /\ openRows[ch] # None /\ Held(pending[ch], n) /\ UNCHANGED events
         /\ jobs' = Append(jobs, [row |-> openRows[ch], gen |-> visits,
                                  start |-> pending[ch], n |-> n])
  <2>1. CASE openRows[ch] = None \/ n < MinAnalyze
    BY <2>1 DEF Analyse
  <2>2. CASE ~(openRows[ch] = None \/ n < MinAnalyze)
    BY <2>2, Zenon DEF Analyse
  <2> QED
    BY <2>1, <2>2
<1> QED
  BY <1>5, <1>6, <1>7, <1>8

LEMMA AnalyseIs ==
  ASSUME EventsInv, AnalyseDue \/ AnalyseLast
  PROVE  \E ch \in Channels, n \in Int : CoversRow(ch, n) /\ Analyse(ch, n)
<1>1. /\ line.due \subseteq Channels /\ line.e \subseteq Channels /\ line.te \in {None} \cup Nat
      /\ pending \in [Channels -> {None} \cup Nat]
  BY DEF EventsInv, EventTypes, Lines
<1>2. CASE AnalyseDue
  <2>1. PICK ch \in line.due : Analyse(ch, Analyze)
    BY <1>2 DEF AnalyseDue
  <2>2. ch \in Channels /\ Analyze \in Int
    BY <1>1, <2>1, ConstantTypes
  <2>3. CoversRow(ch, Analyze)
    BY <2>2 DEF CoversRow, EventsInv, RowsOpen, Covers
  <2> QED
    BY <2>1, <2>2, <2>3
<1>3. CASE AnalyseLast
  <2>1. PICK ch : ch = Ending
    OBVIOUS
  <2>2. ch \in line.e /\ ch \in Channels /\ pending[ch] # None /\ Analyse(ch, Available)
        /\ Available = Lesser(line.te - pending[ch], Analyze)
    BY <1>1, <1>3, <2>1, LeastOf DEF AnalyseLast, Ending, Available
  <2>3. pending[ch] \in Nat
    BY <1>1, <2>2
  <2>4. Available \in Int /\ Available \in {line.te - pending[ch], Analyze}
    <3>1. line.te - pending[ch] \in Int /\ Analyze \in Int
      BY <1>1, <2>3, ConstantTypes DEF None
    <3> QED
      BY <2>2, <3>1, LesserIs
  <2>5. CoversRow(ch, Available)
    <3> SUFFICES ASSUME openRows[ch] # None
                 PROVE  events[openRows[ch]].from < pending[ch] + Available
      BY DEF CoversRow
    <3>1. PICK r : r = openRows[ch]
      OBVIOUS
    <3>2. /\ r \in DOMAIN events /\ events[r].from < line.te
          /\ events[r].from < pending[ch] + Analyze
      BY <2>2, <3>1 DEF EventsInv, RowsOpen, LineInv, Covers
    <3>3. events[r].from \in Nat
      BY <3>2, EventField DEF EventsInv
    <3>4. CASE Available = Analyze
      BY <3>1, <3>2, <3>4
    <3>5. CASE Available = line.te - pending[ch]
      BY <1>1, <2>3, <3>1, <3>2, <3>3, <3>5 DEF None
    <3> QED
      BY <2>4, <3>4, <3>5
  <2> QED
    BY <2>2, <2>4, <2>5
<1> QED
  BY <1>2, <1>3

LEMMA AnalyseEvents == LoopInv /\ EventsInv /\ (AnalyseDue \/ AnalyseLast) => EventsInv'
<1> SUFFICES ASSUME LoopInv, EventsInv, AnalyseDue \/ AnalyseLast PROVE EventsInv'
  OBVIOUS
<1>1. /\ UNCHANGED <<pc, visits, written, windowId, logWindow, openRows, results, worker, run,
                     windows, failures, gaveUp>>
      /\ line.s = {} /\ (line.due # {} \/ line.e # {})
  BY DEF AnalyseDue, AnalyseLast, FrameUnchanged, envVars
<1>2. /\ line \in Lines /\ line.due \subseteq Channels /\ line.e \subseteq Channels
      /\ line.te \in {None} \cup Nat
      /\ line = [s |-> line.s, due |-> line.due, e |-> line.e, from |-> line.from, te |-> line.te]
  BY DEF EventsInv, EventTypes, Lines
<1>3. /\ pending \in [Channels -> {None} \cup Nat] /\ openRows \in [Channels -> {None} \cup Nat]
  BY DEF EventsInv, EventTypes
<1>5. PICK ch \in Channels, n \in Int : CoversRow(ch, n) /\ Analyse(ch, n)
  BY AnalyseIs
<1>6. /\ events' \in Seq(EventRows) /\ SameHistory(events, events')
      /\ pending' \in [Channels -> {None} \cup Nat]
      /\ RowsOpen' /\ QueueTypes' /\ JobsRight'
      /\ \A i \in DOMAIN jobs' : jobs'[i] = NoJob => i \in DOMAIN jobs /\ jobs[i] = NoJob
  BY <1>1, <1>5, Analysed
<1>7. /\ line' \in Lines /\ line'.s = {} /\ line'.e = line.e
      /\ line'.e # {} => line'.te = line.te
  <2>1. CASE AnalyseDue
    <3>1. PICK c \in line.due : line' = Settled([line EXCEPT !.due = line.due \ {c}])
      BY <2>1 DEF AnalyseDue
    <3> DEFINE l == [line EXCEPT !.due = line.due \ {c}]
    <3>2. l \in Lines /\ l.s = line.s /\ l.e = line.e /\ l.te = line.te
      BY <1>2 DEF Lines
    <3> HIDE DEF l
    <3>3. line' = Settled(l)
      BY <3>1 DEF l
    <3> QED
      BY <1>1, <3>2, <3>3, SettledIs
  <2>2. CASE AnalyseLast
    BY <1>1, <1>2, <2>2 DEF AnalyseLast
  <2> QED
    BY <2>1, <2>2
<1>8. EventTypes'
  BY <1>1, <1>3, <1>6, <1>7 DEF EventsInv, EventTypes
<1>9. LineInv'
  <2>1. \A c \in line'.e : openRows'[c] # None => events'[openRows'[c]].from < line'.te
    <3> TAKE c \in line'.e
    <3> HAVE openRows'[c] # None
    <3>1. PICK r : r = openRows[c] /\ r = openRows'[c] /\ r # None
      BY <1>1
    <3>2. r \in DOMAIN events /\ events[r].from < line.te /\ line'.te = line.te
      BY <1>2, <1>7, <3>1 DEF EventsInv, RowsOpen, LineInv
    <3>3. events'[r].from < line'.te
      BY <1>6, <3>2 DEF SameHistory
    <3> QED
      BY <3>1, <3>3
  <2> QED
    BY <1>7, <2>1 DEF LineInv
<1>10. pc = "read"
  BY <1>1 DEF EventsInv, Booked, NoLine
<1>11. Booked'
  BY <1>1, <1>10 DEF EventsInv, Booked, Starting, Finishing
<1>12. Ended'
  <2>1. \A i \in DOMAIN jobs : jobs[i] # NoJob
    BY <1>10 DEF EventsInv, Ended, AtEnd
  <2>2. \A i \in DOMAIN jobs' : jobs'[i] # NoJob
    BY <1>6, <2>1
  <2>3. worker.state # "exited" /\ run # "ended"
    BY <1>10 DEF EventsInv, Ended, Booked, AtEnd
  <2> QED
    BY <1>1, <1>10, <2>2, <2>3 DEF Ended, AtEnd
<1> QED
  BY <1>6, <1>8, <1>9, <1>11, <1>12 DEF EventsInv

(* EventLog.close() of one channel, and of all that are open *)
LEMMA RowClosed ==
  ASSUME LoopInv, EventsInv, NEW c \in Channels, openRows[c] # None,
         events' = [events EXCEPT ![openRows[c]].closed = visits]
  PROVE  /\ events' \in Seq(EventRows) /\ DOMAIN events' = DOMAIN events
         /\ SameHistory(events, events')
         /\ events'[openRows[c]].closed = visits
         /\ \A q \in DOMAIN events : q # openRows[c] => events'[q] = events[q]
         /\ \A q \in DOMAIN events' : events'[q].result \in {None, events'[q].heard}
<1>1. PICK r : r = openRows[c]
  OBVIOUS
<1> DEFINE row == [events[r] EXCEPT !.closed = visits]
<1>2. r \in DOMAIN events /\ EventTypes /\ visits \in Nat
  BY <1>1 DEF EventsInv, RowsOpen, LoopInv, Types
<1>3. events[r] \in EventRows
  BY <1>2, EventField
<1>4. /\ row \in EventRows /\ row.ch = events[r].ch /\ row.heard = events[r].heard
      /\ row.from = events[r].from /\ row.result = events[r].result /\ row.closed = visits
  BY <1>2, <1>3 DEF EventRows
<1>5. events' = [events EXCEPT ![r] = row]
  BY <1>1
<1> HIDE DEF row
<1>6. /\ events' \in Seq(EventRows) /\ DOMAIN events' = DOMAIN events
      /\ SameHistory(events, events')
      /\ \A q \in DOMAIN events : events'[q] = IF q = r THEN row ELSE events[q]
  BY <1>2, <1>4, <1>5, RowWritten
<1>7. \A q \in DOMAIN events : events'[q].result \in {None, events'[q].heard}
  BY <1>2, <1>4, <1>6 DEF EventsInv, JobsRight
<1> QED
  BY <1>1, <1>2, <1>4, <1>6, <1>7

(* Two channels have two rows. *)
LEMMA OwnRow ==
  ASSUME EventsInv, NEW c \in Channels, NEW d \in Channels, c # d, openRows[c] # None
  PROVE  openRows[c] # openRows[d]
BY DEF EventsInv, RowsOpen

LEMMA EndEvents == LoopInv /\ EventsInv /\ End => EventsInv'
<1> SUFFICES ASSUME LoopInv, EventsInv, End PROVE EventsInv'
  OBVIOUS
<1>1. PICK ch : ch = Ending
  OBVIOUS
<1> DEFINE l == [line EXCEPT !.e = line.e \ {ch}]
<1>2. /\ line.s = {} /\ line.e # {}
      /\ events' = IF openRows[ch] = None THEN events
                   ELSE [events EXCEPT ![openRows[ch]].closed = visits]
      /\ openRows' = [openRows EXCEPT ![ch] = None]
      /\ line' = Settled(l)
      /\ UNCHANGED <<pc, visits, written, windowId, logWindow, pending, jobs, results, worker, run,
                     windows, failures, gaveUp>>
  BY <1>1 DEF End, FrameUnchanged, envVars
<1>3. /\ line \in Lines /\ line.e \subseteq Channels
      /\ line = [s |-> line.s, due |-> line.due, e |-> line.e, from |-> line.from, te |-> line.te]
  BY DEF EventsInv, EventTypes, Lines
<1>4. ch \in Channels
  BY <1>1, <1>2, <1>3, LeastOf DEF Ending
<1>5. openRows \in [Channels -> {None} \cup Nat] /\ pending \in [Channels -> {None} \cup Nat]
  BY DEF EventsInv, EventTypes
<1>6. /\ openRows' \in [Channels -> {None} \cup Nat] /\ openRows'[ch] = None
      /\ \A c \in Channels : c # ch => openRows'[c] = openRows[c]
  BY <1>2, <1>4, <1>5
<1>7. /\ events' \in Seq(EventRows) /\ SameHistory(events, events')
      /\ \A q \in DOMAIN events : q # openRows[ch] => events'[q] = events[q]
      /\ \A q \in DOMAIN events' : events'[q].result \in {None, events'[q].heard}
  <2>1. CASE openRows[ch] = None
    BY <1>2, <2>1 DEF EventsInv, EventTypes, SameHistory, JobsRight
  <2>2. CASE openRows[ch] # None
    BY <1>2, <1>4, <2>2, RowClosed
  <2> QED
    BY <2>1, <2>2
<1>8. l \in Lines /\ l.s = {} /\ l.e = line.e \ {ch} /\ l.te = line.te
  BY <1>2, <1>3 DEF Lines
<1>9. /\ line' \in Lines /\ line'.s = {} /\ line'.e = line.e \ {ch}
      /\ line'.e # {} => line'.te = line.te
  <2> HIDE DEF l
  <2> QED
    BY <1>2, <1>8, SettledIs
<1>10. EventTypes'
  BY <1>2, <1>5, <1>6, <1>7, <1>9 DEF EventsInv, EventTypes
<1>11. QueueTypes' /\ JobsRight'
  BY <1>2, <1>7, JobsKept
<1>12. RowsOpen'
  <2>1. ASSUME NEW c \in Channels, openRows'[c] # None
        PROVE  events'[openRows[c]].closed = None
    <3>1. PICK r : r = openRows[c] /\ r # None /\ c # ch
      BY <1>6, <2>1
    <3>2. r \in DOMAIN events /\ events[r].closed = None /\ r # openRows[ch]
      BY <1>4, <3>1, OwnRow DEF EventsInv, RowsOpen
    <3> QED
      BY <1>7, <3>1, <3>2
  <2>2. \A c \in Channels : openRows'[c] \in {None, openRows[c]}
    BY <1>6
  <2> QED
    BY <1>2, <1>5, <1>6, <1>7, <2>1, <2>2, RowsKept
<1>13. LineInv'
  <2>1. \A c \in line'.e : openRows'[c] # None => events'[openRows'[c]].from < line'.te
    <3> TAKE c \in line'.e
    <3> HAVE openRows'[c] # None
    <3>1. c \in Channels /\ c # ch /\ c \in line.e /\ line'.te = line.te
      BY <1>3, <1>9
    <3>2. PICK r : r = openRows[c] /\ r = openRows'[c] /\ r # None
      BY <1>6, <3>1
    <3>3. r \in DOMAIN events /\ events[r].from < line.te
      BY <3>1, <3>2 DEF EventsInv, RowsOpen, LineInv
    <3>4. events'[r].from < line'.te
      BY <1>7, <3>1, <3>3 DEF SameHistory
    <3> QED
      BY <3>2, <3>4
  <2> QED
    BY <1>9, <2>1 DEF LineInv
<1>14. pc = "read"
  BY <1>2 DEF EventsInv, Booked, NoLine
<1>15. Booked'
  BY <1>2, <1>14 DEF EventsInv, Booked, Starting, Finishing
<1>16. Ended'
  BY <1>2, <1>14, LoopMoves DEF AtEnd
<1> QED
  BY <1>10, <1>11, <1>12, <1>13, <1>15, <1>16 DEF EventsInv

-----------------------------------------------------------------------------
(* The window and what is open in it are closed. *)
LEMMA WindowClosedIs ==
  ASSUME LoopInv, EventsInv, windows' = WindowClosed, windowId' = None
  PROVE  /\ DOMAIN windows' = DOMAIN windows /\ Len(windows') = Len(windows)
         /\ \A w \in DOMAIN windows' : windows'[w].closed = (w # windowId')
<1>1. windows \in Seq(WindowRows) /\ windows' \in Seq(WindowRows) /\ DOMAIN windows' = DOMAIN windows
  BY WindowsClosed DEF LoopInv, Types
<1>2. ASSUME NEW w \in DOMAIN windows
      PROVE  windows'[w].closed = TRUE
  <2>1. windows[w] \in WindowRows /\ windows[w].closed = (w # windowId)
    BY <1>1 DEF EventsInv, Booked
  <2>2. CASE windowId = None
    <3>1. w # None
      BY <1>1 DEF None
    <3> QED
      BY <2>1, <2>2, <3>1 DEF WindowClosed
  <2>3. CASE windowId # None
    <3>1. windows' = [windows EXCEPT ![windowId].closed = TRUE]
      BY <2>3 DEF WindowClosed
    <3>2. CASE w = windowId
      BY <2>1, <3>1, <3>2 DEF WindowRows
    <3>3. CASE w # windowId
      BY <2>1, <3>1, <3>3
    <3> QED
      BY <3>2, <3>3
  <2> QED
    BY <2>2, <2>3
<1>3. \A w \in DOMAIN windows' : w # windowId'
  BY <1>1 DEF None
<1>4. \A w \in DOMAIN windows' : windows'[w].closed = (w # windowId')
  BY <1>1, <1>2, <1>3, Zenon
<1>5. Len(windows') = Len(windows)
  BY <1>1
<1> QED
  BY <1>1, <1>4, <1>5

LEMMA SomeRowsClosed ==
  ASSUME LoopInv, EventsInv, NEW done \in SUBSET InProgress, events' = RowsClosed(done)
  PROVE  /\ events' \in Seq(EventRows) /\ DOMAIN events' = DOMAIN events
         /\ SameHistory(events, events')
         /\ \A r \in DOMAIN events' : events'[r].result \in {None, events'[r].heard}
         /\ \A c \in Channels \ done : openRows[c] # None => events'[openRows[c]].closed = None
         /\ \A r \in DOMAIN events :
              events'[r].closed = IF \E c \in done : openRows[c] = r THEN visits ELSE events[r].closed
<1>1. done \in SUBSET Channels /\ EventTypes /\ visits \in Nat
  BY DEF InProgress, EventsInv, LoopInv, Types
<1>2. /\ events' \in Seq(EventRows) /\ DOMAIN events' = DOMAIN events
      /\ SameHistory(events, events')
      /\ \A r \in DOMAIN events :
           /\ events'[r].result = events[r].result
           /\ events'[r].closed = IF \E c \in done : openRows[c] = r
                                  THEN visits ELSE events[r].closed
  BY <1>1, RowsClosedIs
<1>3. ASSUME NEW c \in Channels \ done, openRows[c] # None
      PROVE  events'[openRows[c]].closed = None
  <2>1. PICK r : r = openRows[c]
    OBVIOUS
  <2>2. r \in DOMAIN events /\ events[r].closed = None
    BY <1>3, <2>1 DEF EventsInv, RowsOpen
  <2>3. ~ \E d \in done : openRows[d] = r
    BY <1>1, <1>3, <2>1, OwnRow
  <2> QED
    BY <1>2, <2>1, <2>2, <2>3
<1>4. \A r \in DOMAIN events' : events'[r].result \in {None, events'[r].heard}
  BY <1>2 DEF EventsInv, JobsRight, SameHistory
<1> QED
  BY <1>2, <1>3, <1>4

LEMMA CloseEvents == LoopInv /\ EventsInv /\ (CloseWindow \/ CloseLast) => EventsInv'
<1> SUFFICES ASSUME LoopInv, EventsInv, CloseWindow \/ CloseLast PROVE EventsInv'
  OBVIOUS
<1>1. /\ events' = RowsClosed(InProgress) /\ openRows' = NoRows /\ windows' = WindowClosed
      /\ windowId' = None
      /\ UNCHANGED <<visits, written, logWindow, pending, jobs, results, worker, run,
                     failures, gaveUp, line>>
      /\ (pc = "close" /\ pc' = "open") \/ (pc = "last" /\ pc' = "end")
  BY DEF CloseWindow, CloseLast, Close, workVars, envVars
<1>2. /\ events' \in Seq(EventRows) /\ DOMAIN events' = DOMAIN events
      /\ SameHistory(events, events')
      /\ \A r \in DOMAIN events' : events'[r].result \in {None, events'[r].heard}
  BY <1>1, SomeRowsClosed
<1>3. NoRows \in [Channels -> {None} \cup Nat] /\ \A c \in Channels : NoRows[c] = None
  BY DEF NoRows
<1>4. line = NoLine /\ line' = NoLine /\ run # "ended"
  BY <1>1 DEF EventsInv, Booked
<1>5. EventTypes'
  BY <1>1, <1>2, <1>3 DEF EventsInv, EventTypes
<1>6. QueueTypes' /\ JobsRight'
  BY <1>1, <1>2, JobsKept
<1>7. RowsOpen'
  BY <1>1, <1>3 DEF RowsOpen
<1>8. LineInv'
  BY <1>4, NoLineInv
<1>9. \A w \in DOMAIN windows' : windows'[w].closed = (w # windowId')
  BY <1>1, WindowClosedIs
<1>10. Booked'
  BY <1>1, <1>4, <1>9 DEF EventsInv, Booked, Starting, Finishing
<1>11. Ended'
  BY <1>1, <1>4 DEF EventsInv, Ended, AtEnd
<1> QED
  BY <1>5, <1>6, <1>7, <1>8, <1>10, <1>11 DEF EventsInv

-----------------------------------------------------------------------------
(* The analysis thread *)

LEMMA WorkerEvents == EventsInv /\ Worker => EventsInv'
<1> SUFFICES ASSUME EventsInv, Worker PROVE EventsInv'
  OBVIOUS
<1>1. /\ UNCHANGED <<pc, visits, written, windowId, logWindow, openRows, pending, line, run,
                     windows, events, failures, gaveUp>>
      /\ pc # "done"
  BY DEF Worker, TakeJob, FinishJob, WorkerUnchanged, loopVars, dbVars, envVars
<1>2. EventTypes' /\ LineInv' /\ RowsOpen'
  BY <1>1, EventsSame DEF EventsInv, EventTypes
<1>3. Booked'
  BY <1>1 DEF EventsInv, Booked, Starting, Finishing
<1>4. /\ jobs \in Seq(JobRows \cup {NoJob}) /\ results \in Seq(Answers)
      /\ run # "ended"
  BY <1>1 DEF EventsInv, QueueTypes, Booked
<1>5. CASE TakeJob
  <2>1. /\ worker.state = "idle" /\ jobs # <<>> /\ jobs' = Tail(jobs) /\ results' = results
        /\ worker' = IF Head(jobs) = NoJob THEN [state |-> "exited", job |-> NoJob]
                     ELSE [state |-> "busy", job |-> Head(jobs)]
    BY <1>5 DEF TakeJob
  <2>2. /\ jobs' \in Seq(JobRows \cup {NoJob}) /\ Len(jobs) \in Nat /\ Len(jobs) > 0
        /\ DOMAIN jobs = 1 .. Len(jobs)
        /\ Len(jobs') = Len(jobs) - 1 /\ DOMAIN jobs' = 1 .. Len(jobs) - 1
        /\ \A i \in 1 .. Len(jobs) - 1 : jobs'[i] = jobs[i + 1]
        /\ Head(jobs) = jobs[1] /\ Head(jobs) \in JobRows \cup {NoJob} /\ 1 \in DOMAIN jobs
    <3>1. jobs' \in Seq(JobRows \cup {NoJob}) /\ Len(jobs') = Len(jobs) - 1
      BY <1>4, <2>1
    <3>2. Len(jobs) \in Nat /\ Len(jobs) > 0 /\ DOMAIN jobs = 1 .. Len(jobs)
      BY <1>4, <2>1
    <3>3. \A i \in 1 .. Len(jobs) - 1 : jobs'[i] = jobs[i + 1]
      BY <1>4, <2>1
    <3>4. Head(jobs) = jobs[1] /\ Head(jobs) \in JobRows \cup {NoJob}
      BY <1>4, <2>1
    <3> QED
      BY <3>1, <3>2, <3>3, <3>4
  <2>3. \A i \in DOMAIN jobs' : i + 1 \in DOMAIN jobs /\ jobs'[i] = jobs[i + 1]
    BY <2>2
  <2>4. \A i \in DOMAIN jobs' : jobs'[i] # NoJob => JobRight(jobs'[i], events')
    BY <1>1, <2>3 DEF EventsInv, JobsRight
  <2>5. CASE Head(jobs) = NoJob
    <3>1. worker'.state = "exited" /\ worker'.job = NoJob
      BY <2>1, <2>5
    <3>2. QueueTypes'
      BY <1>4, <2>1, <2>2, <3>1 DEF QueueTypes
    <3>3. JobsRight'
      BY <1>1, <2>1, <2>4, <3>1 DEF EventsInv, JobsRight
    <3>4. 1 = Len(jobs) /\ AtEnd
      BY <2>2, <2>5 DEF EventsInv, Ended
    <3>5. jobs' = <<>>
      <4>1. Len(jobs') = 0
        <5>1. Len(jobs') = Len(jobs) - 1 /\ Len(jobs) = 1
          BY <2>2, <3>4
        <5> QED
          BY <5>1
      <4> QED
        BY <2>2, <4>1, EmptySeq
    <3>6. Ended'
      BY <1>1, <1>4, <2>1, <3>1, <3>4, <3>5 DEF EventsInv, Ended, AtEnd
    <3> QED
      BY <1>2, <1>3, <3>2, <3>3, <3>6 DEF EventsInv
  <2>6. CASE Head(jobs) # NoJob
    <3>1. worker'.state = "busy" /\ worker'.job = jobs[1] /\ worker'.job \in JobRows
      BY <2>1, <2>2, <2>6
    <3>2. QueueTypes'
      BY <1>4, <2>1, <2>2, <3>1 DEF QueueTypes
    <3>3. JobRight(worker'.job, events')
      BY <1>1, <2>2, <2>6, <3>1 DEF EventsInv, JobsRight
    <3>4. JobsRight'
      BY <1>1, <2>1, <2>4, <3>3 DEF EventsInv, JobsRight
    <3>5. \A i \in DOMAIN jobs' : jobs'[i] = NoJob => i = Len(jobs') /\ AtEnd'
      <4> TAKE i \in DOMAIN jobs'
      <4> HAVE jobs'[i] = NoJob
      <4>1. i + 1 = Len(jobs) /\ AtEnd
        BY <2>3 DEF EventsInv, Ended
      <4> QED
        BY <1>1, <2>2, <4>1 DEF AtEnd
    <3>6. pc \in {"collect", "last", "end"} => gaveUp
      BY <2>1 DEF EventsInv, Ended
    <3>7. Ended'
      BY <1>1, <1>4, <2>1, <3>1, <3>5, <3>6 DEF Ended
    <3> QED
      BY <1>2, <1>3, <3>2, <3>4, <3>7 DEF EventsInv
  <2> QED
    BY <2>5, <2>6
<1>6. CASE FinishJob
  <2>1. PICK ok \in BOOLEAN :
          results' = Append(results, [row |-> worker.job.row, gen |-> worker.job.gen, ok |-> ok,
                                      n |-> IF Keeps THEN worker.job.n ELSE 0])
    BY <1>6 DEF FinishJob
  <2>2. /\ worker.state = "busy" /\ worker' = [state |-> "idle", job |-> NoJob] /\ jobs' = jobs
    BY <1>6 DEF FinishJob
  <2> DEFINE a == [row |-> worker.job.row, gen |-> worker.job.gen, ok |-> ok,
                   n |-> IF Keeps THEN worker.job.n ELSE 0]
  <2>3. worker.job \in JobRows /\ JobRight(worker.job, events)
    BY <2>2 DEF EventsInv, QueueTypes, JobsRight
  <2>4. worker.job.row \in Nat /\ worker.job.gen \in Nat /\ worker.job.n \in Nat
    BY <2>3 DEF JobRows
  <2>5. a \in Answers /\ a.row = worker.job.row /\ a.gen = worker.job.gen
    BY <2>4 DEF Answers
  <2>6. AnswerRight(a, events)
    BY <2>3, <2>5 DEF AnswerRight, JobRight
  <2>7. results' = Append(results, a)
    BY <2>1
  <2> HIDE DEF a
  <2>8. /\ results' \in Seq(Answers) /\ DOMAIN results = 1 .. Len(results) /\ Len(results) \in Nat
        /\ DOMAIN results' = 1 .. Len(results) + 1
        /\ \A i \in DOMAIN results : results'[i] = results[i]
        /\ results'[Len(results) + 1] = a
    <3>1. Len(results') = Len(results) + 1 /\ results' \in Seq(Answers)
      BY <1>4, <2>5, <2>7, AppendProperties
    <3> QED
      BY <1>4, <2>5, <2>7, <3>1, AppendProperties
  <2>9. \A i \in DOMAIN results' : AnswerRight(results'[i], events')
    BY <1>1, <2>6, <2>8 DEF EventsInv, JobsRight
  <2>10. worker'.state = "idle" /\ worker'.job = NoJob
    BY <2>2
  <2>11. QueueTypes'
    BY <2>2, <2>8, <2>10 DEF EventsInv, QueueTypes
  <2>12. JobsRight'
    BY <1>1, <2>2, <2>9, <2>10 DEF EventsInv, JobsRight
  <2>13. pc \in {"collect", "last", "end"} => gaveUp
    BY <2>2 DEF EventsInv, Ended
  <2>14. Ended'
    BY <1>1, <1>4, <2>2, <2>10, <2>13 DEF EventsInv, Ended, AtEnd
  <2> QED
    BY <1>2, <1>3, <2>11, <2>12, <2>14 DEF EventsInv
<1> QED
  BY <1>5, <1>6 DEF Worker

-----------------------------------------------------------------------------
(* Exceptions *)

LEMMA RaisesKeep ==
  ASSUME LoopInv, EventsInv, Raises, UNCHANGED <<windowId, windows, written>>,
         pc \notin {"stop", "join", "done"},
         events' \in Seq(EventRows), SameHistory(events, events'), results' \in {results, <<>>},
         \A r \in DOMAIN events' : events'[r].result \in {None, events'[r].heard},
         openRows' \in [Channels -> {None} \cup Nat],
         \A c \in Channels : openRows'[c] \in {None, openRows[c]},
         \A c \in Channels : openRows'[c] # None => events'[openRows[c]].closed = None
  PROVE  EventsInv'
<1>1. /\ UNCHANGED <<visits, pending, logWindow, jobs, worker, run, gaveUp>>
      /\ line' = NoLine /\ failures' = failures + 1
      /\ pc' = IF Starting \/ InFinish THEN "done" ELSE "stop"
  BY DEF Raises
<1>2. EventTypes'
  BY <1>1, NoLineType DEF EventsInv, EventTypes
<1>3. QueueTypes' /\ JobsRight'
  BY <1>1, JobsKept
<1>4. RowsOpen'
  <2>1. \A c \in Channels : openRows'[c] # None => pending'[c] \in {None, pending[c]}
    BY <1>1
  <2>2. pending' \in [Channels -> {None} \cup Nat]
    BY <1>2 DEF EventTypes
  <2> QED
    BY <1>1, <2>1, <2>2, RowsKept
<1>5. LineInv'
  BY <1>1, NoLineInv
<1>6. run # "ended"
  BY DEF EventsInv, Booked
<1>7. Booked'
  BY <1>1, <1>6 DEF EventsInv, Booked, Starting, Finishing
<1>8. pc' = "done" \/ ~AtEnd
  BY <1>1 DEF InFinish, AtEnd
<1>9. Ended'
  BY <1>1, <1>6, <1>8 DEF EventsInv, Ended, AtEnd
<1> QED
  BY <1>2, <1>3, <1>4, <1>5, <1>7, <1>9 DEF EventsInv

LEMMA RaisedEvents == LoopInv /\ EventsInv /\ Raised => EventsInv'
<1> SUFFICES ASSUME LoopInv, EventsInv, Raised PROVE EventsInv'
  OBVIOUS
<1>1. Raises /\ UNCHANGED <<windowId, windows, written>>
  BY DEF Raised, RadioRaises, DbRaises, DiskRaises
<1>2. pc \notin {"stop", "join", "done"}
  BY DEF Raised, RadioRaises, DbRaises, DiskRaises, Probing
<1>3. /\ events \in Seq(EventRows) /\ SameHistory(events, events)
      /\ \A r \in DOMAIN events : events[r].result \in {None, events[r].heard}
      /\ openRows \in [Channels -> {None} \cup Nat]
      /\ \A c \in Channels : openRows[c] # None => events[openRows[c]].closed = None
  BY DEF EventsInv, EventTypes, SameHistory, JobsRight, RowsOpen
<1>4. CASE UNCHANGED <<openRows, results, events>>
  BY <1>1, <1>2, <1>3, <1>4, RaisesKeep
<1>5. CASE \E k \in 0 .. Len(results) : /\ events' = Applied(SubSeq(results, 1, k))
                                        /\ results' = <<>> /\ UNCHANGED openRows
  <2>1. PICK k \in 0 .. Len(results) : events' = Applied(SubSeq(results, 1, k))
    BY <1>5
  <2>2. /\ events' \in Seq(EventRows) /\ DOMAIN events' = DOMAIN events
        /\ SameHistory(events, events')
        /\ \A r \in DOMAIN events : events'[r].closed = events[r].closed
        /\ \A r \in DOMAIN events' : events'[r].result \in {None, events'[r].heard}
    BY <2>1, SomeAnswers, AnswersApplied
  <2>3. \A c \in Channels : openRows[c] # None => events'[openRows[c]].closed = None
    BY <1>3, <2>2 DEF EventsInv, RowsOpen
  <2> QED
    BY <1>1, <1>2, <1>3, <1>5, <2>2, <2>3, RaisesKeep
<1>6. CASE /\ pc = "read" /\ line # NoLine
           /\ \/ UNCHANGED openRows
              \/ line.e # {} /\ openRows' = [openRows EXCEPT ![Ending] = None]
           /\ UNCHANGED <<results, events>>
  <2>1. /\ openRows' \in [Channels -> {None} \cup Nat]
        /\ \A c \in Channels : openRows'[c] \in {None, openRows[c]}
    BY <1>3, <1>6
  <2>2. \A c \in Channels : openRows'[c] # None => events'[openRows[c]].closed = None
    BY <1>3, <1>6, <2>1
  <2> QED
    BY <1>1, <1>2, <1>3, <1>6, <2>1, <2>2, RaisesKeep
<1>7. CASE /\ \E done \in SUBSET InProgress :
                /\ events' = RowsClosed(done)
                /\ openRows' \in {[c \in Channels |-> IF c \in done \cup lost THEN None
                                                      ELSE openRows[c]] :
                                  lost \in {{}} \cup {{c} : c \in InProgress \ done}}
           /\ UNCHANGED results
  <2>0. PICK done \in SUBSET InProgress :
          /\ events' = RowsClosed(done)
          /\ openRows' \in {[c \in Channels |-> IF c \in done \cup lost THEN None
                                                ELSE openRows[c]] :
                            lost \in {{}} \cup {{c} : c \in InProgress \ done}}
    BY <1>7
  <2>1. PICK lost \in {{}} \cup {{c} : c \in InProgress \ done} :
          openRows' = [c \in Channels |-> IF c \in done \cup lost THEN None ELSE openRows[c]]
    BY <2>0
  <2>2. /\ events' \in Seq(EventRows) /\ SameHistory(events, events')
        /\ \A r \in DOMAIN events' : events'[r].result \in {None, events'[r].heard}
        /\ \A c \in Channels \ done : openRows[c] # None => events'[openRows[c]].closed = None
    BY <2>0, SomeRowsClosed
  <2>3. /\ openRows' \in [Channels -> {None} \cup Nat]
        /\ \A c \in Channels : openRows'[c] \in {None, openRows[c]}
        /\ \A c \in Channels : openRows'[c] # None => c \notin done
    BY <1>3, <2>1
  <2>4. \A c \in Channels : openRows'[c] # None => events'[openRows[c]].closed = None
    BY <2>2, <2>3
  <2> QED
    BY <1>1, <1>2, <1>7, <2>2, <2>3, <2>4, RaisesKeep
<1>8. Len(results) \in Nat /\ DOMAIN results = 1 .. Len(results)
  BY DEF EventsInv, QueueTypes
<1>9. CASE RadioRaises
  <2>1. UNCHANGED <<openRows, results, events>>
    BY <1>9 DEF RadioRaises
  <2> QED
    BY <1>4, <2>1
<1>10. CASE DiskRaises
  <2>1. PICK k \in DOMAIN results : events' = Applied(SubSeq(results, 1, k))
    BY <1>10 DEF DiskRaises
  <2>2. results' = <<>> /\ UNCHANGED openRows
    BY <1>10 DEF DiskRaises
  <2>3. k \in 0 .. Len(results)
    BY <1>8, <2>1
  <2> QED
    BY <1>5, <2>1, <2>2, <2>3
<1>11. CASE DbRaises
  BY <1>4, <1>5, <1>6, <1>7, <1>11 DEF DbRaises
<1> QED
  BY <1>9, <1>10, <1>11 DEF Raised

LEMMA EventsNext == LoopInv /\ EventsInv /\ [Next]_vars => EventsInv'
<1> SUFFICES ASSUME LoopInv, EventsInv, [Next]_vars PROVE EventsInv'
  OBVIOUS
<1>1. CASE StartUp
  BY <1>1, StartUpEvents
<1>2. CASE OpenWindow
  BY <1>2, OpenEventsStep
<1>3. CASE CheckLinearity
  BY <1>3, LinearityEvents
<1>4. CASE LeaveWindow \/ ReadOverflow \/ ReadNothing \/ FrameShort \/ Sigint \/ RadioDies
           \/ UNCHANGED vars
  BY <1>4, ReadEvents
<1>5. CASE Frame
  BY <1>5, FrameEvents
<1>6. CASE Start
  BY <1>6, StartEvents
<1>7. CASE AnalyseDue \/ AnalyseLast
  BY <1>7, AnalyseEvents
<1>8. CASE End
  BY <1>8, EndEvents
<1>9. CASE CloseWindow \/ CloseLast
  BY <1>9, CloseEvents
<1>10. CASE StopSeen \/ PutNone \/ Join \/ StopTimesOut \/ EndRun
  BY <1>10, FinishEvents
<1>11. CASE Collect
  BY <1>11, CollectEvents
<1>12. CASE Worker
  BY <1>12, WorkerEvents
<1>13. CASE Raised
  BY <1>13, RaisedEvents
<1>14. CASE Interrupt
  BY <1>14, InterruptEvents
<1> QED
  BY <1>1, <1>2, <1>3, <1>4, <1>5, <1>6, <1>7, <1>8, <1>9, <1>10, <1>11, <1>12, <1>13, <1>14
     DEF Next, Main, Done

LEMMA EventsInvariant == Spec => [](LoopInv /\ EventsInv)
BY InvInit, InvStep, EventsInit, EventsNext, PTL DEF Spec

-----------------------------------------------------------------------------
(* What is analysed for an event is its own band and some of the event     *)
(* itself, and the result on a row was computed from that row's visit,     *)
(* however late it came, whatever failed, for queues of any depth.         *)
THEOREM AnalysisIsOfOwnSignal == Spec => []AnalysisOfOwnSignal
<1>1. EventsInv => AnalysisOfOwnSignal
  <2> SUFFICES ASSUME EventsInv PROVE AnalysisOfOwnSignal
    OBVIOUS
  <2>1. \A j \in ({jobs[i] : i \in DOMAIN jobs} \cup {worker.job}) \ {NoJob} : JobRight(j, events)
    BY DEF EventsInv, JobsRight, QueueTypes
  <2> QED
    BY <2>1 DEF EventsInv, JobsRight, JobRight, AnalysisOfOwnSignal
<1> QED
  BY <1>1, EventsInvariant, PTL

(* What was queued is analysed and applied before the run ends, unless     *)
(* the analysis thread was given up on.                                    *)
THEOREM QueuedAreApplied == Spec => []AnalysesApplied
<1>1. EventsInv => AnalysesApplied
  BY DEF EventsInv, Ended, AnalysesApplied
<1> QED
  BY <1>1, EventsInvariant, PTL

-----------------------------------------------------------------------------
(* The events whose end was lost: those that are open and no channel's.    *)

Lost == {r \in OpenEvents : \A c \in Channels : openRows[c] # r}

LostInv == IsFiniteSet(Lost) /\ Cardinality(Lost) <= failures

LEMMA LostType == EventsInv => IsFiniteSet(Lost)
<1> SUFFICES ASSUME EventsInv PROVE IsFiniteSet(Lost)
  OBVIOUS
<1>1. Len(events) \in Nat /\ DOMAIN events = 1 .. Len(events)
  BY DEF EventsInv, EventTypes
<1>2. IsFiniteSet(1 .. Len(events))
  BY <1>1, FS_Interval
<1>3. Lost \subseteq 1 .. Len(events)
  BY <1>1 DEF Lost, OpenEvents
<1> QED
  BY <1>2, <1>3, FS_Subset

(* The rows that were there are open only if they were. *)
LEMMA NoMoreLost ==
  ASSUME LostInv, failures \in Nat, Lost' \subseteq Lost, failures' = failures
  PROVE  LostInv'
<1>1. IsFiniteSet(Lost') /\ Cardinality(Lost') <= Cardinality(Lost)
  BY FS_Subset DEF LostInv
<1>2. Cardinality(Lost) \in Nat /\ Cardinality(Lost') \in Nat
  BY <1>1, FS_CardinalityType DEF LostInv
<1> QED
  BY <1>1, <1>2 DEF LostInv

LEMMA OneMoreLost ==
  ASSUME LostInv, failures \in Nat, NEW r, Lost' \subseteq Lost \cup {r}, failures' = failures + 1
  PROVE  LostInv'
<1>1. /\ IsFiniteSet(Lost \cup {r})
      /\ Cardinality(Lost \cup {r}) \in {Cardinality(Lost), Cardinality(Lost) + 1}
  BY FS_AddElement DEF LostInv
<1>2. IsFiniteSet(Lost') /\ Cardinality(Lost') <= Cardinality(Lost \cup {r})
  BY <1>1, FS_Subset
<1>3. Cardinality(Lost) \in Nat /\ Cardinality(Lost') \in Nat
  BY <1>2, FS_CardinalityType DEF LostInv
<1> QED
  BY <1>1, <1>2, <1>3 DEF LostInv

LEMMA LostSame ==
  ASSUME DOMAIN events' = DOMAIN events, UNCHANGED openRows,
         \A r \in DOMAIN events : events'[r].closed = events[r].closed
  PROVE  Lost' \subseteq Lost
BY DEF Lost, OpenEvents

LEMMA StartLosesNone == EventsInv /\ Start => Lost' \subseteq Lost
<1> SUFFICES ASSUME EventsInv, Start PROVE Lost' \subseteq Lost
  OBVIOUS
<1>1. PICK ch : ch = MinOf(line.s)
  OBVIOUS
<1>2. PICK row : events' = Append(events, row)
  BY DEF Start
<1>3. line.s # {} /\ openRows' = [openRows EXCEPT ![ch] = Len(events')]
  BY <1>1 DEF Start
<1>4. line.s \subseteq Channels /\ events \in Seq(EventRows)
      /\ openRows \in [Channels -> {None} \cup Nat]
  BY DEF EventsInv, EventTypes, Lines
<1>5. ch \in line.s /\ ch \in Channels
  BY <1>1, <1>3, <1>4, LeastOf
<1>6. /\ Len(events') = Len(events) + 1 /\ DOMAIN events' = 1 .. Len(events) + 1
      /\ DOMAIN events = 1 .. Len(events) /\ Len(events) \in Nat
      /\ \A r \in DOMAIN events : events'[r] = events[r]
  BY <1>2, <1>4
<1>7. openRows[ch] = None /\ openRows'[ch] = Len(events) + 1
      /\ \A c \in Channels : c # ch => openRows'[c] = openRows[c]
  BY <1>3, <1>4, <1>5, <1>6 DEF EventsInv, LineInv
<1> SUFFICES ASSUME NEW r \in Lost' PROVE r \in Lost
  OBVIOUS
<1>8. /\ r \in DOMAIN events' /\ events'[r].closed = None
      /\ \A c \in Channels : openRows'[c] # r
  BY DEF Lost, OpenEvents
<1>9. r \in DOMAIN events
  BY <1>5, <1>6, <1>7, <1>8
<1>10. \A c \in Channels : openRows[c] # r
  BY <1>6, <1>7, <1>8, <1>9 DEF None
<1> QED
  BY <1>6, <1>8, <1>9, <1>10 DEF Lost, OpenEvents

LEMMA EndLosesNone == LoopInv /\ EventsInv /\ End => Lost' \subseteq Lost
<1> SUFFICES ASSUME LoopInv, EventsInv, End PROVE Lost' \subseteq Lost
  OBVIOUS
<1>1. PICK ch : ch = Ending
  OBVIOUS
<1>2. /\ line.e # {}
      /\ events' = IF openRows[ch] = None THEN events
                   ELSE [events EXCEPT ![openRows[ch]].closed = visits]
      /\ openRows' = [openRows EXCEPT ![ch] = None]
  BY <1>1 DEF End
<1>3. line.e \subseteq Channels /\ openRows \in [Channels -> {None} \cup Nat] /\ visits \in Nat
  BY DEF EventsInv, EventTypes, Lines, LoopInv, Types
<1>4. ch \in Channels
  BY <1>1, <1>2, <1>3, LeastOf DEF Ending
<1>5. \A c \in Channels : c # ch => openRows'[c] = openRows[c]
  BY <1>2, <1>3
<1> SUFFICES ASSUME NEW r \in Lost' PROVE r \in Lost
  OBVIOUS
<1>6. /\ r \in DOMAIN events' /\ events'[r].closed = None
      /\ \A c \in Channels : openRows'[c] # r
  BY DEF Lost, OpenEvents
<1>7. r \in DOMAIN events /\ r # openRows[ch] /\ events'[r] = events[r]
  <2>1. CASE openRows[ch] = None
    <3>1. events' = events
      BY <1>2, <2>1
    <3>2. r \in 1 .. Len(events) /\ Len(events) \in Nat
      BY <1>6, <3>1 DEF EventsInv, EventTypes
    <3> QED
      BY <1>6, <2>1, <3>1, <3>2 DEF None
  <2>2. CASE openRows[ch] # None
    <3>1. /\ DOMAIN events' = DOMAIN events
          /\ events'[openRows[ch]].closed = visits
          /\ \A q \in DOMAIN events : q # openRows[ch] => events'[q] = events[q]
      BY <1>2, <1>4, <2>2, RowClosed
    <3>2. visits # None
      BY <1>3 DEF None
    <3> QED
      BY <1>6, <3>1, <3>2
  <2> QED
    BY <2>1, <2>2
<1> QED
  BY <1>5, <1>6, <1>7 DEF Lost, OpenEvents

(* What is closed at the end of a window is all that was open in it. *)
LEMMA ClosedAreNotLost ==
  ASSUME LoopInv, EventsInv, NEW done \in SUBSET InProgress, events' = RowsClosed(done),
         NEW r \in Lost'
  PROVE  r \in DOMAIN events /\ events[r].closed = None /\ \A c \in done : openRows[c] # r
<1>1. /\ DOMAIN events' = DOMAIN events
      /\ \A q \in DOMAIN events :
           events'[q].closed = IF \E c \in done : openRows[c] = q THEN visits ELSE events[q].closed
  BY SomeRowsClosed
<1>2. r \in DOMAIN events' /\ events'[r].closed = None
  BY DEF Lost, OpenEvents
<1>3. visits # None
  BY DEF LoopInv, Types, None
<1> QED
  BY <1>1, <1>2, <1>3

LEMMA CloseLosesNone == LoopInv /\ EventsInv /\ Close => Lost' \subseteq Lost
<1> SUFFICES ASSUME LoopInv, EventsInv, Close, NEW r \in Lost' PROVE r \in Lost
  OBVIOUS
<1>1. events' = RowsClosed(InProgress)
  BY DEF Close
<1>2. r \in DOMAIN events /\ events[r].closed = None /\ \A c \in InProgress : openRows[c] # r
  BY <1>1, ClosedAreNotLost
<1>3. r # None
  BY <1>2, EventField DEF EventsInv, None
<1> QED
  BY <1>2, <1>3 DEF Lost, OpenEvents, InProgress

LEMMA RaisedLosesOne == LoopInv /\ EventsInv /\ Raised => \E r : Lost' \subseteq Lost \cup {r}
<1> SUFFICES ASSUME LoopInv, EventsInv, Raised PROVE \E r : Lost' \subseteq Lost \cup {r}
  OBVIOUS
<1>1. CASE UNCHANGED <<openRows, events>>
  BY <1>1, LostSame
<1>2. CASE \E k \in 0 .. Len(results) : /\ events' = Applied(SubSeq(results, 1, k))
                                        /\ UNCHANGED openRows
  <2>1. PICK k \in 0 .. Len(results) : events' = Applied(SubSeq(results, 1, k))
    BY <1>2
  <2>2. /\ DOMAIN events' = DOMAIN events
        /\ \A r \in DOMAIN events : events'[r].closed = events[r].closed
    BY <2>1, SomeAnswers, AnswersApplied
  <2> QED
    BY <1>2, <2>2, LostSame
<1>3. CASE openRows' = [openRows EXCEPT ![Ending] = None] /\ UNCHANGED events
  <2>1. openRows \in [Channels -> {None} \cup Nat]
    BY DEF EventsInv, EventTypes
  <2>2. \A c \in Channels : c # Ending => openRows'[c] = openRows[c]
    BY <1>3, <2>1
  <2>3. Lost' \subseteq Lost \cup {openRows[Ending]}
    BY <1>3, <2>2 DEF Lost, OpenEvents
  <2> QED
    BY <2>3
<1>4. CASE \E done \in SUBSET InProgress :
             /\ events' = RowsClosed(done)
             /\ openRows' \in {[c \in Channels |-> IF c \in done \cup lost THEN None
                                                   ELSE openRows[c]] :
                               lost \in {{}} \cup {{c} : c \in InProgress \ done}}
  <2>1. PICK done \in SUBSET InProgress :
          /\ events' = RowsClosed(done)
          /\ openRows' \in {[c \in Channels |-> IF c \in done \cup lost THEN None
                                                ELSE openRows[c]] :
                            lost \in {{}} \cup {{c} : c \in InProgress \ done}}
    BY <1>4
  <2>2. PICK lost \in {{}} \cup {{c} : c \in InProgress \ done} :
          openRows' = [c \in Channels |-> IF c \in done \cup lost THEN None ELSE openRows[c]]
    BY <2>1
  <2>3. PICK d : lost \subseteq {d}
    BY <2>2
  <2>4. ASSUME NEW r \in Lost' PROVE r \in Lost \cup {openRows[d]}
    <3>1. r \in DOMAIN events /\ events[r].closed = None /\ \A c \in done : openRows[c] # r
      BY <2>1, ClosedAreNotLost
    <3>2. \A c \in Channels : openRows'[c] # r
      BY DEF Lost
    <3>3. \A c \in Channels : c \notin done \cup {d} => openRows[c] # r
      BY <2>2, <2>3, <3>2
    <3> QED
      BY <3>1, <3>3 DEF Lost, OpenEvents
  <2> QED
    BY <2>4
<1>5. Len(results) \in Nat /\ DOMAIN results = 1 .. Len(results)
  BY DEF EventsInv, QueueTypes
<1>6. CASE RadioRaises
  BY <1>1, <1>6 DEF RadioRaises
<1>7. CASE DiskRaises
  <2>1. PICK k \in DOMAIN results : events' = Applied(SubSeq(results, 1, k))
    BY <1>7 DEF DiskRaises
  <2>2. k \in 0 .. Len(results) /\ UNCHANGED openRows
    BY <1>5, <1>7, <2>1 DEF DiskRaises
  <2> QED
    BY <1>2, <2>1, <2>2
<1>8. CASE DbRaises
  BY <1>1, <1>2, <1>3, <1>4, <1>8 DEF DbRaises
<1> QED
  BY <1>6, <1>7, <1>8 DEF Raised

LEMMA LostInit == Init => LostInv
<1> SUFFICES ASSUME Init PROVE LostInv
  OBVIOUS
<1>1. Lost = {} /\ failures = 0
  BY DEF Init, Lost, OpenEvents
<1> QED
  BY <1>1, FS_EmptySet DEF LostInv

LEMMA LostNext == LoopInv /\ EventsInv /\ LostInv /\ [Next]_vars => LostInv'
<1> SUFFICES ASSUME LoopInv, EventsInv, LostInv, [Next]_vars PROVE LostInv'
  OBVIOUS
<1>1. failures \in Nat
  BY DEF LoopInv, Types
<1>2. CASE UNCHANGED <<events, openRows, failures>>
  BY <1>1, <1>2, NoMoreLost, LostSame
<1>3. CASE Frame \/ Collect
  <2>1. events' = Applied(results) /\ UNCHANGED <<openRows, failures>>
    BY <1>3 DEF Frame, Collect, LiveRead, envVars
  <2>2. /\ DOMAIN events' = DOMAIN events
        /\ \A r \in DOMAIN events : events'[r].closed = events[r].closed
    BY <2>1, AllAnswers, AnswersApplied
  <2> QED
    BY <1>1, <2>1, <2>2, NoMoreLost, LostSame
<1>4. CASE Start
  <2>1. failures' = failures
    BY <1>4 DEF Start, FrameUnchanged, envVars
  <2> QED
    BY <1>1, <1>4, <2>1, NoMoreLost, StartLosesNone
<1>5. CASE AnalyseDue \/ AnalyseLast
  <2>1. UNCHANGED <<openRows, visits, results, worker, failures>>
    BY <1>5 DEF AnalyseDue, AnalyseLast, FrameUnchanged, envVars
  <2>2. PICK ch \in Channels, n \in Int : CoversRow(ch, n) /\ Analyse(ch, n)
    BY <1>5, AnalyseIs
  <2>3. /\ DOMAIN events' = DOMAIN events
        /\ \A r \in DOMAIN events : events'[r].closed = events[r].closed
    <3>1. DOMAIN events' = DOMAIN events
      BY <2>2 DEF Analyse
    <3> QED
      BY <2>1, <2>2, <3>1, Analysed
  <2> QED
    BY <1>1, <2>1, <2>3, NoMoreLost, LostSame
<1>6. CASE End
  <2>1. failures' = failures
    BY <1>6 DEF End, FrameUnchanged, envVars
  <2> QED
    BY <1>1, <1>6, <2>1, NoMoreLost, EndLosesNone
<1>7. CASE CloseWindow \/ CloseLast
  <2>1. Close /\ failures' = failures
    BY <1>7 DEF CloseWindow, CloseLast, envVars
  <2> QED
    BY <1>1, <2>1, NoMoreLost, CloseLosesNone
<1>8. CASE Raised
  <2>1. failures' = failures + 1
    BY <1>8 DEF Raised, RadioRaises, DbRaises, DiskRaises, Raises
  <2>2. PICK r : Lost' \subseteq Lost \cup {r}
    BY <1>8, RaisedLosesOne
  <2> QED
    BY <1>1, <2>1, <2>2, OneMoreLost
<1>9. CASE StartUp \/ OpenWindow \/ CheckLinearity \/ LeaveWindow \/ ReadOverflow \/ ReadNothing
           \/ FrameShort
  <2>1. UNCHANGED <<events, openRows, failures>>
    BY <1>9 DEF StartUp, Configure, StartRun, RegisterReceiver, StartStream, StartsUp, OpenWindow,
       CheckLinearity, Unchecked, ProbeGain, ProbeHearsNothing, SkipSweep, EndSweep,
       ProbeUnchanged, LeaveWindow, ReadOverflow, ReadNothing, FrameShort, LiveRead, Goes,
       envVars, dbVars
  <2> QED
    BY <1>2, <2>1
<1>10. CASE StopSeen \/ PutNone \/ Join \/ StopTimesOut \/ EndRun
  <2>1. UNCHANGED <<events, openRows, failures>>
    BY <1>10 DEF StopSeen, PutNone, Join, StopTimesOut, EndRun, Goes, envVars, dbVars
  <2> QED
    BY <1>2, <2>1
<1>11. CASE Worker \/ Sigint \/ Interrupt \/ RadioDies \/ UNCHANGED vars
  <2>1. UNCHANGED <<events, openRows, failures>>
    BY <1>11 DEF Worker, TakeJob, FinishJob, WorkerUnchanged, Sigint, Interrupt, RadioDies, vars,
       loopVars, envVars, dbVars
  <2> QED
    BY <1>2, <2>1
<1> QED
  BY <1>3, <1>4, <1>5, <1>6, <1>7, <1>8, <1>9, <1>10, <1>11 DEF Next, Main, Done

(* A run that has an end has closed all its windows, and has lost the end  *)
(* of no more events than there were exceptions, however many were open.   *)
THEOREM FailuresLoseOneEventEach == Spec => []OneFailureLosesOneEvent
<1>1. LoopInv /\ EventsInv /\ LostInv => OneFailureLosesOneEvent
  <2> SUFFICES ASSUME LoopInv, EventsInv, LostInv, run = "ended"
               PROVE  /\ \A w \in DOMAIN windows : windows[w].closed
                      /\ Cardinality(OpenEvents) <= failures
    BY DEF OneFailureLosesOneEvent
  <2>1. openRows = NoRows /\ windowId = None
    BY DEF EventsInv, Booked
  <2>2. \A w \in DOMAIN windows : windows[w].closed
    <3> TAKE w \in DOMAIN windows
    <3>1. w \in 1 .. Len(windows) /\ windows[w].closed = (w # windowId)
      BY DEF EventsInv, Booked, LoopInv, Types
    <3>2. w # None
      BY <3>1 DEF None
    <3> QED
      BY <2>1, <3>1, <3>2
  <2>3. OpenEvents = Lost
    <3>1. \A r \in OpenEvents : r # None
      BY EventField DEF EventsInv, OpenEvents, None
    <3> QED
      BY <2>1, <3>1 DEF Lost, NoRows
  <2> QED
    BY <2>2, <2>3 DEF LostInv
<1> QED
  BY <1>1, EventsInvariant, LostInit, LostNext, InvInit, InvStep, EventsInit, EventsNext, PTL DEF Spec

-----------------------------------------------------------------------------
(* An event is decided once: its row is asked about in one place at a time, *)
(* and only while it is undecided.                                          *)

Undecided(r) == events[r].parent = None /\ events[r].result = None

QueuedRows   == {jobs[i].row : i \in DOMAIN jobs} \ {None}
RowInHand    == {worker.job.row} \ {None}
AnsweredRows == {results[i].row : i \in DOMAIN results}
RowsAsked    == QueuedRows \cup RowInHand \cup AnsweredRows

Once ==
  /\ \A i, k \in DOMAIN jobs : jobs[i].row = jobs[k].row => i = k
  /\ QueuedRows \cap RowInHand = {} /\ QueuedRows \cap AnsweredRows = {}
  /\ RowInHand \cap AnsweredRows = {}
  /\ \A r \in RowsAsked : Undecided(r)
  /\ \A c \in Channels : openRows[c] # None /\ pending[c] # None =>
                           Undecided(openRows[c]) /\ openRows[c] \notin RowsAsked
  /\ \A c \in line.due : pending[c] # None

LEMMA AskedAreRows ==
  ASSUME EventsInv PROVE RowsAsked \subseteq DOMAIN events
<1>1. ASSUME NEW i \in DOMAIN jobs, jobs[i].row # None PROVE jobs[i].row \in DOMAIN events
  <2>1. jobs[i] # NoJob
    BY <1>1 DEF NoJob
  <2> QED
    BY <2>1 DEF EventsInv, JobsRight, JobRight
<1>2. worker.job.row # None => worker.job.row \in DOMAIN events
  <2> SUFFICES ASSUME worker.job.row # None PROVE worker.job.row \in DOMAIN events
    OBVIOUS
  <2>1. worker.job # NoJob
    BY DEF NoJob
  <2> QED
    BY <2>1 DEF EventsInv, QueueTypes, JobsRight, JobRight
<1>3. \A i \in DOMAIN results : results[i].row \in DOMAIN events
  BY DEF EventsInv, JobsRight, AnswerRight
<1> QED
  BY <1>1, <1>2, <1>3 DEF RowsAsked, QueuedRows, RowInHand, AnsweredRows

(* Nothing is asked, and at most what was answered is decided. *)
LEMMA OnceKept ==
  ASSUME EventsInv, Once, UNCHANGED <<jobs, worker>>,
         \A r \in DOMAIN events : events'[r].parent = events[r].parent,
         \/ results' = results /\ \A r \in DOMAIN events : events'[r].result = events[r].result
         \/ results' = <<>> /\ \A r \in DOMAIN events :
                                 r \notin AnsweredRows => events'[r].result = events[r].result,
         \A c \in Channels : openRows'[c] # None /\ pending'[c] # None =>
                               openRows'[c] = openRows[c] /\ pending[c] # None,
         \A c \in line'.due : pending'[c] # None
  PROVE  Once'
<1>1. QueuedRows' = QueuedRows /\ RowInHand' = RowInHand
  BY DEF QueuedRows, RowInHand
<1>2. AnsweredRows' \in {AnsweredRows, {}}
  <2>1. CASE results' = results
    BY <2>1 DEF AnsweredRows
  <2>2. CASE results' = <<>>
    BY <2>2 DEF AnsweredRows
  <2> QED
    BY <2>1, <2>2
<1>3. RowsAsked' \subseteq RowsAsked
  BY <1>1, <1>2 DEF RowsAsked
<1>4. RowsAsked \subseteq DOMAIN events
  BY AskedAreRows
<1>5. ASSUME NEW r \in DOMAIN events, Undecided(r), r \in RowsAsked' \/ r \notin RowsAsked
      PROVE  Undecided(r)'
  <2>1. CASE \A q \in DOMAIN events : events'[q].result = events[q].result
    BY <1>5, <2>1 DEF Undecided
  <2>2. CASE results' = <<>> /\ \A q \in DOMAIN events :
                                  q \notin AnsweredRows => events'[q].result = events[q].result
    <3>1. AnsweredRows' = {}
      BY <2>2 DEF AnsweredRows
    <3>2. r \notin AnsweredRows
      BY <1>1, <1>5, <3>1 DEF Once, RowsAsked
    <3> QED
      BY <1>5, <2>2, <3>2 DEF Undecided
  <2> QED
    BY <2>1, <2>2
<1>6. \A r \in RowsAsked' : Undecided(r)'
  BY <1>3, <1>4, <1>5 DEF Once
<1>7. ASSUME NEW c \in Channels, openRows'[c] # None, pending'[c] # None
      PROVE  (Undecided(openRows[c]) /\ openRows[c] \notin RowsAsked)'
  <2>1. openRows'[c] = openRows[c] /\ openRows[c] # None /\ pending[c] # None
    BY <1>7
  <2>2. PICK r : r = openRows[c]
    OBVIOUS
  <2>3. Undecided(r) /\ r \notin RowsAsked /\ r \in DOMAIN events
    BY <2>1, <2>2 DEF Once, EventsInv, RowsOpen
  <2>4. Undecided(r)' /\ r \notin RowsAsked'
    BY <1>3, <1>5, <2>3
  <2> QED
    BY <2>1, <2>2, <2>4 DEF Undecided
<1> QED
  BY <1>1, <1>2, <1>6, <1>7 DEF Once

LEMMA OnceInit == Init => Once
<1> SUFFICES ASSUME Init PROVE Once
  OBVIOUS
<1>1. jobs = <<>> /\ results = <<>> /\ worker.job = NoJob /\ openRows = NoRows /\ line = NoLine
  BY DEF Init
<1>2. RowsAsked = {} /\ QueuedRows = {} /\ RowInHand = {} /\ AnsweredRows = {}
  BY <1>1 DEF RowsAsked, QueuedRows, RowInHand, AnsweredRows, NoJob
<1> QED
  BY <1>1, <1>2 DEF Once, NoRows, NoLine

(* EventLog.start(): the row that is added is nobody's. *)
LEMMA OnceStart == LoopInv /\ EventsInv /\ Once /\ Start => Once'
<1> SUFFICES ASSUME LoopInv, EventsInv, Once, Start PROVE Once'
  OBVIOUS
<1>1. PICK ch : ch = MinOf(line.s)
  OBVIOUS
<1>2. PICK n : n = Len(events) + 1
  OBVIOUS
<1>3. PICK row : row = [ch |-> ch, window |-> logWindow, heard |-> visits, from |-> line.from,
                        closed |-> None, parent |-> None, result |-> None]
  OBVIOUS
<1>4. /\ events' = Append(events, row) /\ openRows' = [openRows EXCEPT ![ch] = Len(events')]
      /\ line' = Settled([line EXCEPT !.s = line.s \ {ch}])
      /\ UNCHANGED <<pending, jobs, results, worker>>
  BY <1>1, <1>3 DEF Start, FrameUnchanged
<1>5. DOMAIN events = 1 .. Len(events) /\ Len(events) \in Nat /\ line \in Lines
      /\ openRows \in [Channels -> {None} \cup Nat]
  BY DEF EventsInv, EventTypes
<1>6. /\ Len(events') = n /\ n \in DOMAIN events' /\ n \notin DOMAIN events
      /\ \A r \in DOMAIN events : events'[r] = events[r]
      /\ events'[n] = row
  BY <1>2, <1>4, <1>5 DEF EventsInv, EventTypes
<1>7. \A r \in DOMAIN events : Undecided(r) => Undecided(r)'
  BY <1>6 DEF Undecided
<1>8. Undecided(n)'
  BY <1>3, <1>6 DEF Undecided
<1>9. RowsAsked \subseteq DOMAIN events
  BY AskedAreRows
<1>10. QueuedRows' = QueuedRows /\ RowInHand' = RowInHand /\ AnsweredRows' = AnsweredRows
       /\ RowsAsked' = RowsAsked
  BY <1>4 DEF RowsAsked, QueuedRows, RowInHand, AnsweredRows
<1>11. \A r \in RowsAsked' : Undecided(r)'
  BY <1>7, <1>9, <1>10 DEF Once
<1>12. ASSUME NEW c \in Channels, openRows'[c] # None, pending'[c] # None
       PROVE  (Undecided(openRows[c]) /\ openRows[c] \notin RowsAsked)'
  <2>1. CASE c = ch
    <3>1. openRows'[c] = n
      BY <1>4, <1>5, <1>6, <2>1
    <3> QED
      BY <1>6, <1>8, <1>9, <1>10, <3>1 DEF Undecided
  <2>2. CASE c # ch
    <3>1. openRows'[c] = openRows[c] /\ pending[c] # None
      BY <1>4, <1>5, <1>12, <2>2
    <3>2. openRows[c] \in DOMAIN events /\ Undecided(openRows[c]) /\ openRows[c] \notin RowsAsked
      BY <1>12, <3>1 DEF Once, EventsInv, RowsOpen
    <3> QED
      BY <1>6, <1>10, <3>1, <3>2 DEF Undecided
  <2> QED
    BY <2>1, <2>2
<1>13. line'.due \subseteq line.due
  BY <1>4, <1>5 DEF Settled, NoLine, Lines
<1>14. \A c \in line'.due : pending'[c] # None
  BY <1>4, <1>13 DEF Once
<1> QED
  BY <1>4, <1>10, <1>11, <1>12, <1>14 DEF Once

(* _analyse(): once it is decided, the row is of no more interest to its   *)
(* channel.                                                                *)
LEMMA OnceAnalysed ==
  ASSUME LoopInv, EventsInv, Once, NEW ch \in Channels, NEW n, pending[ch] # None, Analyse(ch, n),
         UNCHANGED <<openRows, visits, results, worker>>, line'.due \subseteq line.due \ {ch}
  PROVE  Once'
<1>1. /\ pending' = [pending EXCEPT ![ch] = None]
      /\ pending \in [Channels -> {None} \cup Nat] /\ openRows \in [Channels -> {None} \cup Nat]
      /\ line.due \subseteq Channels
  BY DEF Analyse, EventsInv, EventTypes, Lines
<1>2. pending'[ch] = None /\ \A c \in Channels : c # ch => pending'[c] = pending[c]
  BY <1>1
<1>3. \A c \in line'.due : pending'[c] # None
  BY <1>1, <1>2 DEF Once
<1>4. \A c \in Channels : openRows'[c] # None /\ pending'[c] # None =>
                            c # ch /\ openRows[c] # None /\ pending[c] # None
  BY <1>2
<1>5. CASE UNCHANGED <<events, jobs>>
  BY <1>3, <1>4, <1>5, OnceKept
<1>6. PICK row : row = openRows[ch]
  OBVIOUS
<1>7. CASE /\ row # None /\ UNCHANGED jobs
           /\ \E p \in InProgress : events' = [events EXCEPT ![row].parent = openRows[p]]
  <2>1. PICK p : events' = [events EXCEPT ![row].parent = p]
    BY <1>7
  <2>2. row \in DOMAIN events /\ row \notin RowsAsked
    BY <1>6, <1>7 DEF Once, EventsInv, RowsOpen
  <2>3. \A r \in DOMAIN events : r # row => events'[r] = events[r]
    BY <2>1, <2>2
  <2>4. RowsAsked' = RowsAsked /\ QueuedRows' = QueuedRows /\ RowInHand' = RowInHand
        /\ AnsweredRows' = AnsweredRows
    BY <1>7 DEF RowsAsked, QueuedRows, RowInHand, AnsweredRows
  <2>5. \A r \in RowsAsked' : Undecided(r)'
    BY <2>2, <2>3, <2>4, AskedAreRows DEF Once, Undecided
  <2>6. ASSUME NEW c \in Channels, openRows'[c] # None, pending'[c] # None
        PROVE  (Undecided(openRows[c]) /\ openRows[c] \notin RowsAsked)'
    <3>1. c # ch /\ openRows[c] # None /\ pending[c] # None
      BY <1>4, <2>6
    <3>2. openRows[c] \in DOMAIN events /\ Undecided(openRows[c]) /\ openRows[c] \notin RowsAsked
      BY <3>1 DEF Once, EventsInv, RowsOpen
    <3>3. openRows[c] # row
      BY <1>6, <1>7, <3>1, OwnRow
    <3> QED
      BY <2>3, <2>4, <3>2, <3>3 DEF Undecided
  <2> QED
    BY <1>3, <1>7, <2>4, <2>5, <2>6 DEF Once
<1>8. CASE /\ row # None /\ UNCHANGED events
           /\ jobs' = Append(jobs, [row |-> row, gen |-> visits, start |-> pending[ch], n |-> n])
  <2>1. PICK j : j = [row |-> row, gen |-> visits, start |-> pending[ch], n |-> n]
    OBVIOUS
  <2>2. PICK m : m = Len(jobs) + 1
    OBVIOUS
  <2>3. /\ DOMAIN jobs = 1 .. Len(jobs) /\ Len(jobs) \in Nat
        /\ DOMAIN jobs' = 1 .. m /\ jobs'[m] = j
        /\ \A i \in DOMAIN jobs : jobs'[i] = jobs[i] /\ i # m
    BY <1>8, <2>1, <2>2 DEF EventsInv, QueueTypes
  <2>4. DOMAIN jobs' = DOMAIN jobs \cup {m}
    BY <2>2, <2>3
  <2>5. row \in DOMAIN events /\ row \notin RowsAsked /\ Undecided(row)
    BY <1>6, <1>8 DEF Once, EventsInv, RowsOpen
  <2>6. jobs'[m].row = row
    BY <2>1, <2>3
  <2>7. \A i \in DOMAIN jobs : jobs'[i].row = jobs[i].row /\ jobs[i].row # row
    BY <1>8, <2>3, <2>5 DEF RowsAsked, QueuedRows
  <2>8. \A i, k \in DOMAIN jobs' : jobs'[i].row = jobs'[k].row => i = k
    BY <2>4, <2>6, <2>7 DEF Once
  <2>9. QueuedRows' = QueuedRows \cup {row}
    BY <1>8, <2>4, <2>6, <2>7 DEF QueuedRows
  <2>10. RowInHand' = RowInHand /\ AnsweredRows' = AnsweredRows /\ RowsAsked' = RowsAsked \cup {row}
    BY <2>9 DEF RowsAsked, RowInHand, AnsweredRows
  <2>11. \A r : Undecided(r)' <=> Undecided(r)
    BY <1>8 DEF Undecided
  <2>12. ASSUME NEW c \in Channels, openRows'[c] # None, pending'[c] # None
         PROVE  (Undecided(openRows[c]) /\ openRows[c] \notin RowsAsked)'
    <3>1. c # ch /\ openRows[c] # None /\ pending[c] # None
      BY <1>4, <2>12
    <3>2. Undecided(openRows[c]) /\ openRows[c] \notin RowsAsked
      BY <3>1 DEF Once
    <3>3. openRows[c] # row
      BY <1>6, <1>8, <3>1, OwnRow
    <3> QED
      BY <1>8, <2>10, <3>2, <3>3 DEF Undecided
  <2>13. \A r \in RowsAsked' : Undecided(r)'
    BY <2>5, <2>10, <2>11 DEF Once
  <2>14. /\ (QueuedRows \cap RowInHand = {})' /\ (QueuedRows \cap AnsweredRows = {})'
         /\ (RowInHand \cap AnsweredRows = {})'
    BY <2>5, <2>9, <2>10 DEF Once, RowsAsked
  <2> QED
    BY <1>3, <2>8, <2>12, <2>13, <2>14 DEF Once
<1> QED
  BY <1>5, <1>6, <1>7, <1>8 DEF Analyse

LEMMA OnceAnalyses == LoopInv /\ EventsInv /\ Once /\ (AnalyseDue \/ AnalyseLast) => Once'
<1> SUFFICES ASSUME LoopInv, EventsInv, Once, AnalyseDue \/ AnalyseLast PROVE Once'
  OBVIOUS
<1>1. /\ UNCHANGED <<openRows, visits, results, worker>> /\ line \in Lines
      /\ line.due \subseteq Channels /\ line.e \subseteq Channels
  BY DEF AnalyseDue, AnalyseLast, FrameUnchanged, EventsInv, EventTypes, Lines
<1>2. CASE AnalyseDue
  <2>1. PICK ch \in line.due : /\ Analyse(ch, Analyze)
                               /\ line' = Settled([line EXCEPT !.due = line.due \ {ch}])
    BY <1>2 DEF AnalyseDue
  <2>2. line'.due \subseteq line.due \ {ch}
    BY <1>1, <2>1 DEF Settled, NoLine, Lines
  <2>3. pending[ch] # None
    BY DEF Once
  <2> QED
    BY <1>1, <2>1, <2>2, <2>3, OnceAnalysed
<1>3. CASE AnalyseLast
  <2>1. PICK ch : ch = Ending
    OBVIOUS
  <2>2. ch \in Channels
    BY <1>1, <1>3, <2>1, LeastOf DEF AnalyseLast, Ending
  <2>3. Analyse(ch, Available) /\ pending[ch] # None /\ line.due = {} /\ line' = line
    BY <1>3, <2>1 DEF AnalyseLast
  <2> QED
    BY <1>1, <2>2, <2>3, OnceAnalysed
<1> QED
  BY <1>2, <1>3

(* The analysis thread: the row that is taken is no longer queued, and the *)
(* row that is answered is no longer in hand.                              *)
LEMMA OnceMoves ==
  ASSUME EventsInv, Once, UNCHANGED <<events, openRows, pending, line>>,
         \A i, k \in DOMAIN jobs' : jobs'[i].row = jobs'[k].row => i = k,
         RowsAsked' \subseteq RowsAsked,
         (QueuedRows \cap RowInHand = {})', (QueuedRows \cap AnsweredRows = {})',
         (RowInHand \cap AnsweredRows = {})'
  PROVE  Once'
<1>1. \A r : Undecided(r)' <=> Undecided(r)
  BY DEF Undecided
<1>2. \A r \in RowsAsked' : Undecided(r)'
  BY <1>1 DEF Once
<1>3. \A c \in Channels : openRows'[c] # None /\ pending'[c] # None =>
                            (Undecided(openRows[c]) /\ openRows[c] \notin RowsAsked)'
  BY DEF Once, Undecided
<1> QED
  BY <1>2, <1>3 DEF Once

LEMMA OnceTakes == EventsInv /\ Once /\ TakeJob => Once'
<1> SUFFICES ASSUME EventsInv, Once, TakeJob PROVE Once'
  OBVIOUS
<1>1. /\ UNCHANGED <<events, openRows, pending, line, results>> /\ jobs' = Tail(jobs) /\ jobs # <<>>
      /\ worker.state = "idle" /\ jobs \in Seq(JobRows \cup {NoJob}) /\ worker.job = NoJob
  BY DEF TakeJob, WorkerUnchanged, loopVars, dbVars, EventsInv, QueueTypes
<1>2. PICK j : j = jobs[1]
  OBVIOUS
<1>3. /\ Len(jobs) \in Nat /\ Len(jobs) # 0 /\ DOMAIN jobs = 1 .. Len(jobs)
      /\ DOMAIN jobs' = 1 .. Len(jobs) - 1
      /\ \A i \in DOMAIN jobs' : jobs'[i] = jobs[i + 1]
  BY <1>1
<1>4. 1 \in DOMAIN jobs /\ \A i \in DOMAIN jobs' : i + 1 \in DOMAIN jobs /\ i + 1 # 1
  BY <1>3
<1>5. \A i \in DOMAIN jobs' : jobs'[i].row # j.row
  BY <1>2, <1>3, <1>4 DEF Once
<1>6. ASSUME NEW i \in DOMAIN jobs', NEW k \in DOMAIN jobs', jobs'[i].row = jobs'[k].row
      PROVE  i = k
  <2>1. i + 1 = k + 1
    BY <1>3, <1>4, <1>6 DEF Once
  <2> QED
    BY <1>3, <2>1
<1>7. QueuedRows' \subseteq QueuedRows /\ j.row \notin QueuedRows'
  BY <1>3, <1>4, <1>5 DEF QueuedRows
<1>8. RowInHand = {} /\ RowInHand' = {j.row} \ {None}
  <2>1. Head(jobs) = j
    BY <1>1, <1>2
  <2>2. worker' = IF j = NoJob THEN [state |-> "exited", job |-> NoJob]
                  ELSE [state |-> "busy", job |-> j]
    BY <2>1 DEF TakeJob
  <2>3. worker'.job = j
    BY <2>2
  <2> QED
    BY <1>1, <2>3 DEF RowInHand, NoJob
<1>9. RowInHand' \subseteq QueuedRows
  BY <1>2, <1>4, <1>8 DEF QueuedRows
<1>10. AnsweredRows' = AnsweredRows
  BY <1>1 DEF AnsweredRows
<1>11. RowsAsked' \subseteq RowsAsked
  BY <1>7, <1>9, <1>10 DEF RowsAsked
<1>12. /\ (QueuedRows \cap RowInHand = {})' /\ (QueuedRows \cap AnsweredRows = {})'
       /\ (RowInHand \cap AnsweredRows = {})'
  BY <1>7, <1>8, <1>9, <1>10 DEF Once
<1> QED
  BY <1>1, <1>6, <1>11, <1>12, OnceMoves

LEMMA OnceFinishes == EventsInv /\ Once /\ FinishJob => Once'
<1> SUFFICES ASSUME EventsInv, Once, FinishJob PROVE Once'
  OBVIOUS
<1>1. /\ UNCHANGED <<events, openRows, pending, line, jobs>> /\ worker'.job = NoJob
      /\ worker.job \in JobRows
  BY DEF FinishJob, WorkerUnchanged, loopVars, dbVars, EventsInv, QueueTypes
<1>2. PICK a : results' = Append(results, a) /\ a.row = worker.job.row
  BY DEF FinishJob
<1>3. worker.job.row # None
  BY <1>1 DEF JobRows, None
<1>4. PICK m : m = Len(results) + 1
  OBVIOUS
<1>5. /\ DOMAIN results = 1 .. Len(results) /\ Len(results) \in Nat
      /\ DOMAIN results' = 1 .. m /\ results'[m] = a
      /\ \A i \in DOMAIN results : results'[i] = results[i]
  BY <1>2, <1>4 DEF EventsInv, QueueTypes
<1>6. DOMAIN results' = DOMAIN results \cup {m}
  BY <1>4, <1>5
<1>7. AnsweredRows' = AnsweredRows \cup RowInHand
  BY <1>2, <1>3, <1>5, <1>6 DEF AnsweredRows, RowInHand
<1>8. QueuedRows' = QueuedRows /\ RowInHand' = {}
  BY <1>1 DEF QueuedRows, RowInHand, NoJob
<1>9. RowsAsked' \subseteq RowsAsked
  BY <1>7, <1>8 DEF RowsAsked
<1>10. /\ (QueuedRows \cap RowInHand = {})' /\ (QueuedRows \cap AnsweredRows = {})'
       /\ (RowInHand \cap AnsweredRows = {})'
  BY <1>7, <1>8 DEF Once
<1>11. \A i, k \in DOMAIN jobs' : jobs'[i].row = jobs'[k].row => i = k
  BY <1>1 DEF Once
<1> QED
  BY <1>1, <1>9, <1>10, <1>11, OnceMoves

(* The job that ends the thread is asked for once, and of no row. *)
LEMMA OncePutNone == EventsInv /\ Once /\ PutNone => Once'
<1> SUFFICES ASSUME EventsInv, Once, PutNone PROVE Once'
  OBVIOUS
<1>1. /\ UNCHANGED <<events, openRows, pending, line, results, worker>> /\ pc = "stop"
      /\ jobs' = Append(jobs, NoJob) /\ jobs \in Seq(JobRows \cup {NoJob})
  BY DEF PutNone, dbVars, EventsInv, QueueTypes
<1>2. \A i \in DOMAIN jobs : jobs[i] \in JobRows
  BY <1>1 DEF EventsInv, QueueTypes, Ended, AtEnd
<1>3. \A i \in DOMAIN jobs : jobs[i].row # NoJob.row
  BY <1>2 DEF JobRows, NoJob, None
<1>4. PICK m : m = Len(jobs) + 1
  OBVIOUS
<1>5. PICK j : j = NoJob
  OBVIOUS
<1>6. /\ DOMAIN jobs = 1 .. Len(jobs) /\ Len(jobs) \in Nat
      /\ DOMAIN jobs' = 1 .. m /\ jobs'[m] = j
      /\ \A i \in DOMAIN jobs : jobs'[i] = jobs[i]
  BY <1>1, <1>4, <1>5
<1>7. DOMAIN jobs' = DOMAIN jobs \cup {m}
  BY <1>4, <1>6
<1>8. \A i, k \in DOMAIN jobs' : jobs'[i].row = jobs'[k].row => i = k
  BY <1>3, <1>5, <1>6, <1>7 DEF Once
<1>9. j.row = None
  BY <1>5 DEF NoJob
<1>10. QueuedRows' = QueuedRows
  BY <1>6, <1>7, <1>9 DEF QueuedRows
<1>11. RowInHand' = RowInHand /\ AnsweredRows' = AnsweredRows /\ RowsAsked' = RowsAsked
  BY <1>1, <1>10 DEF RowInHand, AnsweredRows, RowsAsked
<1>12. /\ (QueuedRows \cap RowInHand = {})' /\ (QueuedRows \cap AnsweredRows = {})'
       /\ (RowInHand \cap AnsweredRows = {})'
  BY <1>10, <1>11 DEF Once
<1> QED
  BY <1>1, <1>8, <1>11, <1>12, OnceMoves

(* Answers are applied: a row that was not answered is as it was. *)
LEMMA OnlyAnswered ==
  ASSUME EventsInv, NEW k \in 0 .. Len(results), events' = Applied(SubSeq(results, 1, k))
  PROVE  /\ DOMAIN events' = DOMAIN events
         /\ \A r \in DOMAIN events :
              /\ events'[r].ch = events[r].ch /\ events'[r].window = events[r].window
              /\ events'[r].closed = events[r].closed /\ events'[r].parent = events[r].parent
              /\ events'[r].result # events[r].result =>
                   r \in AnsweredRows /\ events'[r].result # None
<1>1. PICK rs : rs = SubSeq(results, 1, k)
  OBVIOUS
<1>2. rs \in Seq(Answers)
  BY <1>1, SomeAnswers
<1>3. \A i \in DOMAIN rs : i \in DOMAIN results /\ rs[i] = results[i] /\ rs[i].gen # None
  <2>1. results \in Seq(Answers) /\ Len(results) \in Nat /\ DOMAIN results = 1 .. Len(results)
    BY DEF EventsInv, QueueTypes
  <2>2. DOMAIN rs = 1 .. k /\ \A i \in 1 .. k : rs[i] = results[i] /\ i \in DOMAIN results
    BY <1>1, <2>1
  <2>3. \A i \in 1 .. k : results[i] \in Answers
    BY <2>1, <2>2
  <2>4. \A a \in Answers : a.gen # None
    BY DEF Answers, None
  <2> QED
    BY <2>2, <2>3, <2>4
<1>4. EventTypes
  BY DEF EventsInv
<1>5. /\ DOMAIN events' = DOMAIN events /\ SameHistory(events, events')
      /\ \A r \in DOMAIN events :
              /\ events'[r].closed = events[r].closed
              /\ events'[r].parent = events[r].parent
              /\ events'[r].window = events[r].window
              /\ \/ events'[r] = events[r]
                 \/ \E i \in DOMAIN rs : /\ rs[i].row = r /\ rs[i].ok
                                         /\ events'[r].result = rs[i].gen
  BY <1>1, <1>2, <1>4, AppliedIs
<1> QED
  BY <1>3, <1>5 DEF SameHistory, AnsweredRows

LEMMA AllOnlyAnswered ==
  ASSUME EventsInv
  PROVE  Applied(results) = Applied(SubSeq(results, 1, Len(results)))
         /\ Len(results) \in 0 .. Len(results)
<1>1. results \in Seq(Answers) /\ Len(results) \in Nat
  BY DEF EventsInv, QueueTypes
<1>2. results = SubSeq(results, 1, Len(results))
  BY <1>1, SubSeqFull
<1>3. Len(results) \in 0 .. Len(results)
  BY <1>1
<1> QED
  BY <1>2, <1>3, Zenon

LEMMA OnceCollects == EventsInv /\ Once /\ (Frame \/ Collect) => Once'
<1> SUFFICES ASSUME EventsInv, Once, Frame \/ Collect PROVE Once'
  OBVIOUS
<1>1. /\ events' = Applied(results) /\ results' = <<>>
      /\ UNCHANGED <<jobs, worker, openRows>>
  BY DEF Frame, Collect
<1>2. PICK k \in 0 .. Len(results) : events' = Applied(SubSeq(results, 1, k))
  BY <1>1, AllOnlyAnswered
<1>3. \A r \in DOMAIN events :
        /\ events'[r].parent = events[r].parent
        /\ r \notin AnsweredRows => events'[r].result = events[r].result
  BY <1>2, OnlyAnswered
<1>4. CASE Collect
  <2>1. UNCHANGED <<pending, line>>
    BY <1>4 DEF Collect
  <2>2. \A c \in line'.due : pending'[c] # None
    BY <2>1 DEF Once
  <2> QED
    BY <1>1, <1>3, <2>1, <2>2, OnceKept
<1>5. CASE Frame
  <2>1. PICK s \in SUBSET (Channels \ InProgress) :
          \E e : LET from == Sat(written - (MinFrames - 1))
                     begun == [c \in Channels |-> IF c \in s THEN Sat(from - Pretrigger)
                                                  ELSE pending[c]]
                 IN /\ pending' = begun
                    /\ line' = Settled([s |-> s, e |-> e, from |-> from,
                              te |-> Sat(written - (HangFrames - 1)),
                              due |-> {c \in Channels : begun[c] # None
                                                        /\ written' >= begun[c] + Analyze}])
    BY <1>5 DEF Frame
  <2>2. \A c \in Channels : c \notin s => pending'[c] = pending[c]
    BY <2>1
  <2>3. \A c \in line'.due : pending'[c] # None
    BY <2>1 DEF Settled, NoLine
  <2>4. \A c \in Channels : openRows'[c] # None /\ pending'[c] # None =>
                              openRows'[c] = openRows[c] /\ pending[c] # None
    <3>1. \A c \in Channels : openRows[c] # None => c \notin s
      BY DEF InProgress
    <3> QED
      BY <1>1, <2>2, <3>1
  <2> QED
    BY <1>1, <1>3, <2>3, <2>4, OnceKept
<1> QED
  BY <1>4, <1>5

LEMMA OnceEnds == LoopInv /\ EventsInv /\ Once /\ End => Once'
<1> SUFFICES ASSUME LoopInv, EventsInv, Once, End PROVE Once'
  OBVIOUS
<1>1. PICK ch : ch = Ending
  OBVIOUS
<1>2. /\ events' = IF openRows[ch] = None THEN events
                   ELSE [events EXCEPT ![openRows[ch]].closed = visits]
      /\ openRows' = [openRows EXCEPT ![ch] = None]
      /\ line' = Settled([line EXCEPT !.e = line.e \ {ch}])
      /\ line.due = {} /\ line \in Lines
      /\ UNCHANGED <<pending, jobs, results, worker>>
  BY <1>1 DEF End, FrameUnchanged, EventsInv, EventTypes
<1>3. \A c \in line'.due : pending'[c] # None
  <2>1. line'.due = {}
    BY <1>2 DEF Settled, NoLine, Lines
  <2> QED
    BY <2>1
<1>4. \A c \in Channels : openRows'[c] # None => openRows'[c] = openRows[c]
  BY <1>2 DEF EventsInv, EventTypes
<1>5. \A r \in DOMAIN events :
        events'[r].parent = events[r].parent /\ events'[r].result = events[r].result
  BY <1>2
<1> QED
  BY <1>2, <1>3, <1>4, <1>5, OnceKept

LEMMA OnceRowsClosed ==
  ASSUME LoopInv, EventsInv, NEW done \in SUBSET InProgress, events' = RowsClosed(done)
  PROVE  /\ DOMAIN events' = DOMAIN events
         /\ \A r \in DOMAIN events :
              /\ events'[r].ch = events[r].ch /\ events'[r].window = events[r].window
              /\ events'[r].parent = events[r].parent /\ events'[r].result = events[r].result
<1>1. done \in SUBSET Channels /\ EventTypes /\ visits \in Nat
  BY DEF InProgress, EventsInv, LoopInv, Types
<1> QED
  BY <1>1, RowsClosedIs DEF SameHistory

LEMMA OnceCloses == LoopInv /\ EventsInv /\ Once /\ (CloseWindow \/ CloseLast) => Once'
<1> SUFFICES ASSUME LoopInv, EventsInv, Once, CloseWindow \/ CloseLast PROVE Once'
  OBVIOUS
<1>1. /\ events' = RowsClosed(InProgress) /\ openRows' = NoRows
      /\ UNCHANGED <<pending, jobs, results, worker, line>>
  BY DEF CloseWindow, CloseLast, Close, workVars
<1>2. \A c \in Channels : openRows'[c] = None
  BY <1>1 DEF NoRows
<1>3. \A r \in DOMAIN events :
        events'[r].parent = events[r].parent /\ events'[r].result = events[r].result
  BY <1>1, OnceRowsClosed
<1>4. \A c \in line'.due : pending'[c] # None
  BY <1>1 DEF Once
<1> QED
  BY <1>1, <1>2, <1>3, <1>4, OnceKept

(* What raises writes rows of the table only as far as it got. *)
LEMMA RaisedRows ==
  ASSUME LoopInv, EventsInv, Raised
  PROVE  \/ UNCHANGED events
         \/ \E k \in 0 .. Len(results) : events' = Applied(SubSeq(results, 1, k)) /\ results' = <<>>
         \/ \E done \in SUBSET InProgress : events' = RowsClosed(done) /\ results' = results
<1>1. Len(results) \in Nat /\ DOMAIN results = 1 .. Len(results)
  BY DEF EventsInv, QueueTypes
<1>2. CASE RadioRaises
  BY <1>2 DEF RadioRaises
<1>3. CASE DiskRaises
  <2>1. PICK k \in DOMAIN results : events' = Applied(SubSeq(results, 1, k))
    BY <1>3 DEF DiskRaises
  <2>2. k \in 0 .. Len(results) /\ results' = <<>>
    BY <1>1, <1>3, <2>1 DEF DiskRaises
  <2> QED
    BY <2>1, <2>2
<1>4. CASE DbRaises
  BY <1>4 DEF DbRaises
<1> QED
  BY <1>2, <1>3, <1>4 DEF Raised

LEMMA RaisedOpenRows ==
  ASSUME EventsInv, Raised
  PROVE  \A c \in Channels : openRows'[c] \in {None, openRows[c]}
<1>1. openRows \in [Channels -> {None} \cup Nat]
  BY DEF EventsInv, EventTypes
<1> QED
  BY <1>1 DEF Raised, RadioRaises, DbRaises, DiskRaises

LEMMA OnceRaises == LoopInv /\ EventsInv /\ Once /\ Raised => Once'
<1> SUFFICES ASSUME LoopInv, EventsInv, Once, Raised PROVE Once'
  OBVIOUS
<1>1. UNCHANGED <<pending, jobs, worker>> /\ line' = NoLine
  BY DEF Raised, RadioRaises, DbRaises, DiskRaises, Raises
<1>2. \A c \in line'.due : pending'[c] # None
  BY <1>1 DEF NoLine
<1>3. \A c \in Channels : openRows'[c] # None => openRows'[c] = openRows[c]
  BY RaisedOpenRows
<1>4. CASE UNCHANGED events
  <2>1. results' = results \/ results' = <<>>
    BY DEF Raised, RadioRaises, DbRaises, DiskRaises
  <2> QED
    BY <1>1, <1>2, <1>3, <1>4, <2>1, OnceKept
<1>5. CASE \E k \in 0 .. Len(results) : events' = Applied(SubSeq(results, 1, k)) /\ results' = <<>>
  <2>1. \A r \in DOMAIN events :
        /\ events'[r].parent = events[r].parent
        /\ r \notin AnsweredRows => events'[r].result = events[r].result
    BY <1>5, OnlyAnswered
  <2> QED
    BY <1>1, <1>2, <1>3, <1>5, <2>1, OnceKept
<1>6. CASE \E done \in SUBSET InProgress : events' = RowsClosed(done) /\ results' = results
  <2>1. \A r \in DOMAIN events :
          events'[r].parent = events[r].parent /\ events'[r].result = events[r].result
    BY <1>6, OnceRowsClosed
  <2> QED
    BY <1>1, <1>2, <1>3, <1>6, <2>1, OnceKept
<1> QED
  BY <1>4, <1>5, <1>6, RaisedRows

LEMMA OnceSame ==
  ASSUME EventsInv, Once, UNCHANGED <<events, openRows, pending, line, jobs, results, worker>>
  PROVE  Once'
BY DEF Once, RowsAsked, QueuedRows, RowInHand, AnsweredRows, Undecided

LEMMA OnceNext == LoopInv /\ EventsInv /\ Once /\ [Next]_vars => Once'
<1> SUFFICES ASSUME LoopInv, EventsInv, Once, [Next]_vars PROVE Once'
  OBVIOUS
<1>1. CASE OpenWindow
  <2>1. /\ UNCHANGED <<events, openRows, line, jobs, results, worker>> /\ pending' = NoRows
        /\ line = NoLine
    BY <1>1 DEF OpenWindow, workVars, EventsInv, Booked
  <2>2. \A c \in Channels : pending'[c] = None
    BY <2>1 DEF NoRows
  <2>3. \A c \in line'.due : pending'[c] # None
    BY <2>1 DEF NoLine
  <2> QED
    BY <2>1, <2>2, <2>3, OnceKept
<1>2. CASE Frame \/ Collect
  BY <1>2, OnceCollects
<1>3. CASE Start
  BY <1>3, OnceStart
<1>4. CASE AnalyseDue \/ AnalyseLast
  BY <1>4, OnceAnalyses
<1>5. CASE End
  BY <1>5, OnceEnds
<1>6. CASE CloseWindow \/ CloseLast
  BY <1>6, OnceCloses
<1>7. CASE PutNone
  BY <1>7, OncePutNone
<1>8. CASE Worker
  BY <1>8, OnceTakes, OnceFinishes DEF Worker
<1>9. CASE Raised
  BY <1>9, OnceRaises
<1>10. CASE StartUp \/ CheckLinearity \/ LeaveWindow \/ ReadOverflow \/ ReadNothing \/ FrameShort
  <2>1. UNCHANGED <<events, openRows, pending, line, jobs, results, worker>>
    BY <1>10 DEF StartUp, Configure, StartRun, RegisterReceiver, StartStream, StartsUp,
       CheckLinearity, Unchecked, ProbeGain, ProbeHearsNothing, SkipSweep, EndSweep,
       ProbeUnchanged, LeaveWindow, ReadOverflow, ReadNothing, FrameShort, LiveRead, Goes,
       workVars, dbVars
  <2> QED
    BY <2>1, OnceSame
<1>11. CASE StopSeen \/ Join \/ StopTimesOut \/ EndRun
  <2>1. UNCHANGED <<events, openRows, pending, line, jobs, results, worker>>
    BY <1>11 DEF StopSeen, Join, StopTimesOut, EndRun, Goes, workVars, dbVars
  <2> QED
    BY <2>1, OnceSame
<1>12. CASE Sigint \/ Interrupt \/ RadioDies \/ UNCHANGED vars
  <2>1. UNCHANGED <<events, openRows, pending, line, jobs, results, worker>>
    BY <1>12 DEF Sigint, Interrupt, RadioDies, vars, loopVars, workVars, dbVars
  <2> QED
    BY <2>1, OnceSame
<1> QED
  BY <1>1, <1>2, <1>3, <1>4, <1>5, <1>6, <1>7, <1>8, <1>9, <1>10, <1>11, <1>12 DEF Next, Main, Done

-----------------------------------------------------------------------------
(* The table of events as SurveyLog has it. *)

LEMMA FunctionIsSeq ==
  ASSUME NEW S, NEW n \in Nat, NEW f \in [1 .. n -> S]
  PROVE  f \in Seq(S) /\ Len(f) = n /\ DOMAIN f = 1 .. n
<1>1. f \in Seq(S)
  BY SeqDef
<1> QED
  BY <1>1, LenProperties

LogRows == [ch : Channels, window : {None} \cup Nat, closed : BOOLEAN, parent : {None} \cup Nat,
            analysed : BOOLEAN]

LogOf(ev) == [r \in DOMAIN ev |-> LogRow(ev[r])]

LEMMA LogRowFields ==
  ASSUME NEW e \in EventRows
  PROVE  /\ LogRow(e) \in LogRows
         /\ LogRow(e).ch = e.ch /\ LogRow(e).window = e.window /\ LogRow(e).parent = e.parent
         /\ LogRow(e).closed <=> e.closed # None
         /\ LogRow(e).analysed <=> e.result # None
<1>1. LogRow(e) \in LogRows
  BY DEF LogRow, LogRows, EventRows
<1>2. LogRow(e).closed <=> e.closed # None
  BY Zenon DEF LogRow
<1>3. LogRow(e).analysed <=> e.result # None
  BY Zenon DEF LogRow
<1>4. LogRow(e).ch = e.ch /\ LogRow(e).window = e.window /\ LogRow(e).parent = e.parent
  BY DEF LogRow
<1> QED
  BY <1>1, <1>2, <1>3, <1>4

LEMMA LogOfIs ==
  ASSUME NEW ev \in Seq(EventRows)
  PROVE  /\ LogOf(ev) \in Seq(LogRows) /\ Len(LogOf(ev)) = Len(ev) /\ Len(ev) \in Nat
         /\ DOMAIN LogOf(ev) = DOMAIN ev /\ DOMAIN ev = 1 .. Len(ev)
         /\ \A r \in DOMAIN ev :
              /\ LogOf(ev)[r] = LogRow(ev[r]) /\ LogOf(ev)[r] \in LogRows /\ ev[r] \in EventRows
              /\ LogOf(ev)[r].ch = ev[r].ch /\ LogOf(ev)[r].window = ev[r].window
              /\ LogOf(ev)[r].parent = ev[r].parent
              /\ LogOf(ev)[r].closed <=> ev[r].closed # None
              /\ LogOf(ev)[r].analysed <=> ev[r].result # None
<1>1. DOMAIN ev = 1 .. Len(ev) /\ Len(ev) \in Nat /\ \A r \in DOMAIN ev : ev[r] \in EventRows
  BY ElementOfSeq, LenProperties
<1>2. LogOf(ev) \in [1 .. Len(ev) -> LogRows]
  BY <1>1, LogRowFields DEF LogOf
<1>3. \A r \in DOMAIN ev : LogOf(ev)[r] = LogRow(ev[r])
  BY DEF LogOf
<1>4. LogOf(ev) \in Seq(LogRows) /\ Len(LogOf(ev)) = Len(ev) /\ DOMAIN LogOf(ev) = DOMAIN ev
  BY <1>1, <1>2, FunctionIsSeq
<1>5. ASSUME NEW r \in DOMAIN ev
      PROVE  /\ LogOf(ev)[r] = LogRow(ev[r]) /\ LogOf(ev)[r] \in LogRows /\ ev[r] \in EventRows
             /\ LogOf(ev)[r].ch = ev[r].ch /\ LogOf(ev)[r].window = ev[r].window
             /\ LogOf(ev)[r].parent = ev[r].parent
             /\ LogOf(ev)[r].closed <=> ev[r].closed # None
             /\ LogOf(ev)[r].analysed <=> ev[r].result # None
  <2>1. PICK e, x : e = ev[r] /\ x = LogOf(ev)[r]
    OBVIOUS
  <2>2. e \in EventRows /\ x = LogRow(e)
    BY <1>1, <1>3, <2>1
  <2>3. /\ x \in LogRows /\ x.ch = e.ch /\ x.window = e.window /\ x.parent = e.parent
        /\ x.closed <=> e.closed # None
        /\ x.analysed <=> e.result # None
    BY <2>2, LogRowFields
  <2> QED
    BY <2>1, <2>2, <2>3
<1> QED
  BY <1>1, <1>4, <1>5

(* Two rows with the same fields are the same. *)
LEMMA LogRowsEqual ==
  ASSUME NEW x \in LogRows, NEW y \in LogRows, x.ch = y.ch, x.window = y.window,
         x.closed <=> y.closed, x.parent = y.parent, x.analysed <=> y.analysed
  PROVE  x = y
<1>1. x.closed = y.closed /\ x.analysed = y.analysed
  BY DEF LogRows
<1> QED
  BY <1>1 DEF LogRows

LEMMA LogAppended ==
  ASSUME NEW ev \in Seq(EventRows), NEW e \in EventRows
  PROVE  LogOf(Append(ev, e)) = Append(LogOf(ev), LogRow(e))
<1>1. PICK ev1 : ev1 = Append(ev, e)
  OBVIOUS
<1>2. PICK l, l1 : l = LogOf(ev) /\ l1 = LogOf(ev1)
  OBVIOUS
<1>3. PICK x : x = LogRow(e)
  OBVIOUS
<1>4. /\ ev1 \in Seq(EventRows) /\ Len(ev1) = Len(ev) + 1 /\ ev1[Len(ev) + 1] = e
      /\ \A i \in 1 .. Len(ev) : ev1[i] = ev[i]
  BY <1>1, AppendProperties
<1>5. /\ l1 \in Seq(LogRows) /\ Len(l1) = Len(ev) + 1
      /\ \A i \in 1 .. Len(ev) + 1 : l1[i] = LogRow(ev1[i])
  BY <1>2, <1>4, LogOfIs
<1>6. /\ l \in Seq(LogRows) /\ Len(l) = Len(ev) /\ Len(ev) \in Nat
      /\ \A i \in 1 .. Len(ev) : l[i] = LogRow(ev[i])
  BY <1>2, LogOfIs
<1>7. x \in LogRows
  BY <1>3, LogRowFields
<1>8. PICK l2 : l2 = Append(l, x)
  OBVIOUS
<1>9. /\ l2 \in Seq(LogRows) /\ Len(l2) = Len(l) + 1 /\ l2[Len(l) + 1] = x
      /\ \A i \in 1 .. Len(l) : l2[i] = l[i]
  BY <1>6, <1>7, <1>8, AppendProperties
<1>10. ASSUME NEW i \in 1 .. Len(ev) + 1 PROVE l1[i] = l2[i]
  <2>1. CASE i = Len(ev) + 1
    BY <1>3, <1>4, <1>5, <1>6, <1>9, <2>1
  <2>2. CASE i # Len(ev) + 1
    <3>1. i \in 1 .. Len(ev) /\ i \in 1 .. Len(l)
      BY <1>6, <2>2
    <3> QED
      BY <1>4, <1>5, <1>6, <1>9, <3>1
  <2> QED
    BY <2>1, <2>2
<1>11. l1 = l2
  BY <1>5, <1>6, <1>9, <1>10, SeqEqual
<1> QED
  BY <1>1, <1>2, <1>3, <1>8, <1>11

OnlyClosed(ev, ev1, S) ==
  /\ DOMAIN ev1 = DOMAIN ev
  /\ \A r \in DOMAIN ev :
       /\ ev1[r].ch = ev[r].ch /\ ev1[r].window = ev[r].window
       /\ ev1[r].parent = ev[r].parent /\ ev1[r].result = ev[r].result
       /\ r \in S => ev1[r].closed # None
       /\ r \notin S => ev1[r].closed = ev[r].closed

LEMMA LogClosed ==
  ASSUME NEW ev \in Seq(EventRows), NEW ev1 \in Seq(EventRows), NEW S, OnlyClosed(ev, ev1, S)
  PROVE  /\ LogOf(ev1) = [r \in 1 .. Len(LogOf(ev)) |-> LogOf(ev1)[r]]
         /\ \A r \in 1 .. Len(LogOf(ev)) :
              LogOf(ev1)[r] = IF r \in S THEN [LogOf(ev)[r] EXCEPT !.closed = TRUE] ELSE LogOf(ev)[r]
<1> USE DEF OnlyClosed
<1>1. PICK l, l1 : l = LogOf(ev) /\ l1 = LogOf(ev1)
  OBVIOUS
<1>2. /\ l \in Seq(LogRows) /\ DOMAIN l = DOMAIN ev /\ DOMAIN ev = 1 .. Len(l)
      /\ \A r \in DOMAIN ev : /\ l[r] \in LogRows
                              /\ l[r].ch = ev[r].ch /\ l[r].window = ev[r].window
                              /\ l[r].parent = ev[r].parent
                              /\ l[r].closed <=> ev[r].closed # None
                              /\ l[r].analysed <=> ev[r].result # None
  BY <1>1, LogOfIs
<1>3. /\ l1 \in Seq(LogRows) /\ DOMAIN l1 = DOMAIN ev
      /\ \A r \in DOMAIN ev : /\ l1[r] \in LogRows
                              /\ l1[r].ch = ev1[r].ch /\ l1[r].window = ev1[r].window
                              /\ l1[r].parent = ev1[r].parent
                              /\ l1[r].closed <=> ev1[r].closed # None
                              /\ l1[r].analysed <=> ev1[r].result # None
  BY <1>1, LogOfIs
<1>4. ASSUME NEW r \in DOMAIN ev
      PROVE  l1[r] = IF r \in S THEN [l[r] EXCEPT !.closed = TRUE] ELSE l[r]
  <2>1. PICK x, y : x = l1[r] /\ y = l[r]
    OBVIOUS
  <2>2. /\ x \in LogRows /\ y \in LogRows /\ x.ch = y.ch /\ x.window = y.window
        /\ x.parent = y.parent
    BY <1>2, <1>3, <2>1
  <2>3. x.analysed <=> y.analysed
    BY <1>2, <1>3, <2>1
  <2>4. CASE r \in S
    <3>1. x.closed
      BY <1>3, <2>1, <2>4
    <3>2. PICK z : z = [y EXCEPT !.closed = TRUE]
      OBVIOUS
    <3>3. /\ z \in LogRows /\ z.ch = y.ch /\ z.window = y.window /\ z.parent = y.parent
          /\ z.analysed = y.analysed /\ z.closed
      BY <2>2, <3>2 DEF LogRows
    <3>4. (x.closed <=> z.closed) /\ (x.analysed <=> z.analysed)
      BY <2>3, <3>1, <3>3
    <3>5. x = z
      BY <2>2, <3>3, <3>4, LogRowsEqual
    <3> QED
      BY <2>1, <2>4, <3>2, <3>5
  <2>5. CASE r \notin S
    <3>1. x.closed <=> y.closed
      BY <1>2, <1>3, <2>1, <2>5
    <3>2. x = y
      BY <2>2, <2>3, <3>1, LogRowsEqual
    <3> QED
      BY <2>1, <2>5, <3>2
  <2> QED
    BY <2>4, <2>5
<1>5. l1 = [r \in 1 .. Len(l) |-> l1[r]]
  BY <1>2, <1>3
<1> QED
  BY <1>1, <1>2, <1>4, <1>5

OnlyAnalysed(ev, ev1, S) ==
  /\ DOMAIN ev1 = DOMAIN ev
  /\ \A r \in DOMAIN ev :
       /\ ev1[r].ch = ev[r].ch /\ ev1[r].window = ev[r].window
       /\ ev1[r].parent = ev[r].parent /\ ev1[r].closed = ev[r].closed
       /\ r \in S => ev1[r].result # None
       /\ r \notin S => ev1[r].result = ev[r].result

LEMMA LogAnalysed ==
  ASSUME NEW ev \in Seq(EventRows), NEW ev1 \in Seq(EventRows), NEW S, OnlyAnalysed(ev, ev1, S)
  PROVE  /\ LogOf(ev1) = [r \in 1 .. Len(LogOf(ev)) |-> LogOf(ev1)[r]]
         /\ \A r \in 1 .. Len(LogOf(ev)) :
              LogOf(ev1)[r] = IF r \in S THEN [LogOf(ev)[r] EXCEPT !.analysed = TRUE] ELSE LogOf(ev)[r]
<1> USE DEF OnlyAnalysed
<1>1. PICK l, l1 : l = LogOf(ev) /\ l1 = LogOf(ev1)
  OBVIOUS
<1>2. /\ l \in Seq(LogRows) /\ DOMAIN l = DOMAIN ev /\ DOMAIN ev = 1 .. Len(l)
      /\ \A r \in DOMAIN ev : /\ l[r] \in LogRows
                              /\ l[r].ch = ev[r].ch /\ l[r].window = ev[r].window
                              /\ l[r].parent = ev[r].parent
                              /\ l[r].closed <=> ev[r].closed # None
                              /\ l[r].analysed <=> ev[r].result # None
  BY <1>1, LogOfIs
<1>3. /\ l1 \in Seq(LogRows) /\ DOMAIN l1 = DOMAIN ev
      /\ \A r \in DOMAIN ev : /\ l1[r] \in LogRows
                              /\ l1[r].ch = ev1[r].ch /\ l1[r].window = ev1[r].window
                              /\ l1[r].parent = ev1[r].parent
                              /\ l1[r].closed <=> ev1[r].closed # None
                              /\ l1[r].analysed <=> ev1[r].result # None
  BY <1>1, LogOfIs
<1>4. ASSUME NEW r \in DOMAIN ev
      PROVE  l1[r] = IF r \in S THEN [l[r] EXCEPT !.analysed = TRUE] ELSE l[r]
  <2>1. PICK x, y : x = l1[r] /\ y = l[r]
    OBVIOUS
  <2>2. /\ x \in LogRows /\ y \in LogRows /\ x.ch = y.ch /\ x.window = y.window
        /\ x.parent = y.parent
    BY <1>2, <1>3, <2>1
  <2>3. x.closed <=> y.closed
    BY <1>2, <1>3, <2>1
  <2>4. CASE r \in S
    <3>1. x.analysed
      BY <1>3, <2>1, <2>4
    <3>2. PICK z : z = [y EXCEPT !.analysed = TRUE]
      OBVIOUS
    <3>3. /\ z \in LogRows /\ z.ch = y.ch /\ z.window = y.window /\ z.parent = y.parent
          /\ z.closed = y.closed /\ z.analysed
      BY <2>2, <3>2 DEF LogRows
    <3>4. (x.closed <=> z.closed) /\ (x.analysed <=> z.analysed)
      BY <2>3, <3>1, <3>3
    <3>5. x = z
      BY <2>2, <3>3, <3>4, LogRowsEqual
    <3> QED
      BY <2>1, <2>4, <3>2, <3>5
  <2>5. CASE r \notin S
    <3>1. x.analysed <=> y.analysed
      BY <1>2, <1>3, <2>1, <2>5
    <3>2. x = y
      BY <2>2, <2>3, <3>1, LogRowsEqual
    <3> QED
      BY <2>1, <2>5, <3>2
  <2> QED
    BY <2>4, <2>5
<1>5. l1 = [r \in 1 .. Len(l) |-> l1[r]]
  BY <1>2, <1>3
<1> QED
  BY <1>1, <1>2, <1>4, <1>5

(* The table of windows as SurveyLog has it. *)

LogWindowRows == [center : Nat, closed : BOOLEAN, linear : {None} \cup Nat]

LEMMA LogWindowFields ==
  ASSUME NEW w \in WindowRows
  PROVE  /\ LogWindow(w) \in LogWindowRows
         /\ LogWindow(w).center = w.center /\ LogWindow(w).closed = w.closed
         /\ LogWindow(w).linear = IF w.linear = "unset" THEN None ELSE w.center
<1>1. Range(Windows) \subseteq Nat
  <2>1. Windows \in Seq(Nat)
    BY CaptureConstants
  <2> QED
    BY <2>1 DEF Range
<1>2. w.center \in Nat /\ w.closed \in BOOLEAN
  BY <1>1 DEF WindowRows
<1> QED
  BY <1>2 DEF LogWindow, LogWindowRows

LogWindowsOf(ws) == [w \in DOMAIN ws |-> LogWindow(ws[w])]

LEMMA LogWindowsIs ==
  ASSUME NEW ws \in Seq(WindowRows)
  PROVE  /\ LogWindowsOf(ws) \in Seq(LogWindowRows) /\ Len(LogWindowsOf(ws)) = Len(ws)
         /\ Len(ws) \in Nat /\ DOMAIN LogWindowsOf(ws) = DOMAIN ws /\ DOMAIN ws = 1 .. Len(ws)
         /\ \A w \in DOMAIN ws :
              /\ LogWindowsOf(ws)[w] = LogWindow(ws[w]) /\ LogWindowsOf(ws)[w] \in LogWindowRows
              /\ LogWindowsOf(ws)[w].center = ws[w].center
              /\ LogWindowsOf(ws)[w].closed = ws[w].closed
<1>1. DOMAIN ws = 1 .. Len(ws) /\ Len(ws) \in Nat /\ \A w \in DOMAIN ws : ws[w] \in WindowRows
  BY ElementOfSeq, LenProperties
<1>2. LogWindowsOf(ws) \in [1 .. Len(ws) -> LogWindowRows]
  BY <1>1, LogWindowFields DEF LogWindowsOf
<1>3. \A w \in DOMAIN ws : LogWindowsOf(ws)[w] = LogWindow(ws[w])
  BY DEF LogWindowsOf
<1>4. LogWindowsOf(ws) \in Seq(LogWindowRows) /\ Len(LogWindowsOf(ws)) = Len(ws)
      /\ DOMAIN LogWindowsOf(ws) = DOMAIN ws
  BY <1>1, <1>2, FunctionIsSeq
<1>5. ASSUME NEW w \in DOMAIN ws
      PROVE  /\ LogWindowsOf(ws)[w] \in LogWindowRows
             /\ LogWindowsOf(ws)[w].center = ws[w].center
             /\ LogWindowsOf(ws)[w].closed = ws[w].closed
  BY <1>1, <1>3, LogWindowFields
<1> QED
  BY <1>1, <1>3, <1>4, <1>5

LEMMA LogWindowAdded ==
  ASSUME NEW ws \in Seq(WindowRows), NEW w \in WindowRows
  PROVE  LogWindowsOf(Append(ws, w)) = Append(LogWindowsOf(ws), LogWindow(w))
<1>1. PICK ws1 : ws1 = Append(ws, w)
  OBVIOUS
<1>2. PICK l, l1 : l = LogWindowsOf(ws) /\ l1 = LogWindowsOf(ws1)
  OBVIOUS
<1>3. PICK x : x = LogWindow(w)
  OBVIOUS
<1>4. /\ ws1 \in Seq(WindowRows) /\ Len(ws1) = Len(ws) + 1 /\ ws1[Len(ws) + 1] = w
      /\ \A i \in 1 .. Len(ws) : ws1[i] = ws[i]
  BY <1>1, AppendProperties
<1>5. /\ l1 \in Seq(LogWindowRows) /\ Len(l1) = Len(ws) + 1
      /\ \A i \in 1 .. Len(ws) + 1 : l1[i] = LogWindow(ws1[i])
  BY <1>2, <1>4, LogWindowsIs
<1>6. /\ l \in Seq(LogWindowRows) /\ Len(l) = Len(ws) /\ Len(ws) \in Nat
      /\ \A i \in 1 .. Len(ws) : l[i] = LogWindow(ws[i])
  BY <1>2, LogWindowsIs
<1>7. x \in LogWindowRows
  BY <1>3, LogWindowFields
<1>8. PICK l2 : l2 = Append(l, x)
  OBVIOUS
<1>9. /\ l2 \in Seq(LogWindowRows) /\ Len(l2) = Len(l) + 1 /\ l2[Len(l) + 1] = x
      /\ \A i \in 1 .. Len(l) : l2[i] = l[i]
  BY <1>6, <1>7, <1>8, AppendProperties
<1>10. ASSUME NEW i \in 1 .. Len(ws) + 1 PROVE l1[i] = l2[i]
  <2>1. CASE i = Len(ws) + 1
    BY <1>3, <1>4, <1>5, <1>6, <1>9, <2>1
  <2>2. CASE i # Len(ws) + 1
    <3>1. i \in 1 .. Len(ws) /\ i \in 1 .. Len(l)
      BY <1>6, <2>2
    <3> QED
      BY <1>4, <1>5, <1>6, <1>9, <3>1
  <2> QED
    BY <2>1, <2>2
<1>11. l1 = l2
  BY <1>5, <1>6, <1>9, <1>10, SeqEqual
<1> QED
  BY <1>1, <1>2, <1>3, <1>8, <1>11

(* One window's row is written to. *)
Put(f, n, x)    == [f EXCEPT ![n] = x]
ClosedAt(f, n)  == [f EXCEPT ![n].closed = TRUE]
Verdict(f, n, v) == [f EXCEPT ![n].linear = v]

LEMMA LogWindowWritten ==
  ASSUME NEW ws \in Seq(WindowRows), NEW n \in DOMAIN ws, NEW w \in WindowRows
  PROVE  LogWindowsOf(Put(ws, n, w)) = Put(LogWindowsOf(ws), n, LogWindow(w))
<1>1. PICK to, l, l1, x : /\ to = Put(ws, n, w) /\ l1 = LogWindowsOf(to)
                          /\ l = LogWindowsOf(ws) /\ x = LogWindow(w)
  OBVIOUS
<1>2. DOMAIN to = DOMAIN ws /\ \A i \in DOMAIN ws : to[i] = IF i = n THEN w ELSE ws[i]
  BY <1>1 DEF Put
<1>3. l1 = [i \in DOMAIN ws |-> LogWindow(to[i])] /\ l = [i \in DOMAIN ws |-> LogWindow(ws[i])]
  BY <1>1, <1>2 DEF LogWindowsOf
<1>4. \A i \in DOMAIN ws : l1[i] = IF i = n THEN x ELSE l[i]
  BY <1>1, <1>2, <1>3
<1>5. Put(l, n, x) = [i \in DOMAIN ws |-> IF i = n THEN x ELSE l[i]]
  BY <1>3 DEF Put
<1>6. l1 = [i \in DOMAIN ws |-> l1[i]]
  BY <1>3
<1>7. l1 = Put(l, n, x)
  BY <1>4, <1>5, <1>6
<1> QED
  BY <1>1, <1>7

LEMMA LogWindowClosed ==
  ASSUME NEW ws \in Seq(WindowRows), NEW n \in DOMAIN ws
  PROVE  LogWindowsOf(ClosedAt(ws, n)) = ClosedAt(LogWindowsOf(ws), n)
<1>1. PICK w, l : w = [ws[n] EXCEPT !.closed = TRUE] /\ l = LogWindowsOf(ws)
  OBVIOUS
<1>2. ws[n] \in WindowRows
  BY LogWindowsIs, ElementOfSeq
<1>3. w \in WindowRows /\ w.center = ws[n].center /\ w.linear = ws[n].linear /\ w.closed = TRUE
  BY <1>1, <1>2 DEF WindowRows
<1>4. ClosedAt(ws, n) = Put(ws, n, w)
  BY <1>1 DEF ClosedAt, Put
<1>5. PICK x, y, z : x = l[n] /\ y = LogWindow(w) /\ z = [x EXCEPT !.closed = TRUE]
  OBVIOUS
<1>6. x = LogWindow(ws[n]) /\ n \in DOMAIN l
  BY <1>1, <1>5, LogWindowsIs
<1>7. /\ x \in LogWindowRows /\ y \in LogWindowRows /\ y.center = x.center
      /\ y.linear = x.linear /\ y.closed = TRUE
  BY <1>2, <1>3, <1>5, <1>6, LogWindowFields
<1>8. z \in LogWindowRows /\ z.center = x.center /\ z.linear = x.linear /\ z.closed = TRUE
  BY <1>5, <1>7 DEF LogWindowRows
<1>9. y = z
  BY <1>7, <1>8 DEF LogWindowRows
<1>10. ClosedAt(l, n) = Put(l, n, y)
  BY <1>5, <1>9 DEF ClosedAt, Put
<1>11. LogWindowsOf(Put(ws, n, w)) = Put(l, n, y)
  BY <1>1, <1>3, <1>5, LogWindowWritten
<1> QED
  BY <1>1, <1>4, <1>10, <1>11

LEMMA LogWindowJudged ==
  ASSUME NEW ws \in Seq(WindowRows), NEW n \in DOMAIN ws, NEW v \in Verdicts, v # "unset"
  PROVE  LogWindowsOf(Verdict(ws, n, v)) = Verdict(LogWindowsOf(ws), n, LogWindowsOf(ws)[n].center)
<1>1. PICK w, l : w = [ws[n] EXCEPT !.linear = v] /\ l = LogWindowsOf(ws)
  OBVIOUS
<1>2. ws[n] \in WindowRows
  BY LogWindowsIs, ElementOfSeq
<1>3. w \in WindowRows /\ w.center = ws[n].center /\ w.linear = v /\ w.closed = ws[n].closed
  BY <1>1, <1>2 DEF WindowRows
<1>4. Verdict(ws, n, v) = Put(ws, n, w)
  BY <1>1 DEF Verdict, Put
<1>5. PICK x, y, z : x = l[n] /\ y = LogWindow(w) /\ z = [x EXCEPT !.linear = x.center]
  OBVIOUS
<1>6. x = LogWindow(ws[n]) /\ n \in DOMAIN l
  BY <1>1, <1>5, LogWindowsIs
<1>7. /\ x \in LogWindowRows /\ y \in LogWindowRows /\ y.center = x.center
      /\ y.linear = x.center /\ y.closed = x.closed
  BY <1>2, <1>3, <1>5, <1>6, LogWindowFields
<1>8. z \in LogWindowRows /\ z.center = x.center /\ z.linear = x.center /\ z.closed = x.closed
  BY <1>5, <1>7 DEF LogWindowRows
<1>9. y = z
  BY <1>7, <1>8 DEF LogWindowRows
<1>10. Verdict(l, n, l[n].center) = Put(l, n, y)
  BY <1>5, <1>9 DEF Verdict, Put
<1>11. LogWindowsOf(Put(ws, n, w)) = Put(l, n, y)
  BY <1>1, <1>3, <1>5, LogWindowWritten
<1> QED
  BY <1>1, <1>4, <1>10, <1>11

(* The steps of the abstract specification, told of the tables. *)

LEMMA LogIs ==
  /\ LogWindows = LogWindowsOf(windows) /\ LogWindows' = LogWindowsOf(windows')
  /\ LogEvents = LogOf(events) /\ LogEvents' = LogOf(events')
  /\ LogEnded <=> run = "ended"
  /\ UNCHANGED run => UNCHANGED LogEnded
  /\ run' = "ended" => LogEnded' = TRUE
<1>1. LogEnded <=> run = "ended"
  BY Zenon DEF LogEnded
<1>2. UNCHANGED run => UNCHANGED LogEnded
  BY DEF LogEnded
<1>3. run' = "ended" => LogEnded' = TRUE
  BY DEF LogEnded
<1> QED
  BY <1>1, <1>2, <1>3 DEF LogWindows, LogWindowsOf, LogEvents, LogOf

Typed == events \in Seq(EventRows) /\ windows \in Seq(WindowRows)

(* Where the last window is that a step may be about. *)
LEMMA LogListening ==
  ASSUME Typed, NEW n, n = Len(windows)
  PROVE  /\ Log!Last = n
         /\ Log!Listening <=> windows # <<>> /\ ~windows[n].closed
         /\ windows # <<>> => n \in DOMAIN windows /\ n # None
<1>1. PICK l : l = LogWindowsOf(windows)
  OBVIOUS
<1>2. /\ l \in Seq(LogWindowRows) /\ Len(l) = n /\ n \in Nat /\ DOMAIN l = 1 .. n
      /\ DOMAIN windows = 1 .. n
      /\ \A w \in DOMAIN windows : l[w].closed = windows[w].closed
  BY <1>1, LogWindowsIs DEF Typed
<1>3. Log!Last = n
  BY <1>1, <1>2, LogIs DEF Log!Last
<1>4. windows # <<>> => n \in DOMAIN windows /\ n # None
  BY <1>2, EmptySeq DEF Typed, None
<1>5. windows = <<>> <=> n = 0
  BY <1>2, EmptySeq DEF Typed
<1>6. l = <<>> <=> n = 0
  BY <1>2, EmptySeq
<1>7. Log!Listening <=> windows # <<>> /\ ~windows[n].closed
  <2>1. Log!Listening <=> l # <<>> /\ ~l[n].closed
    BY <1>1, <1>3, LogIs DEF Log!Listening
  <2> QED
    BY <1>2, <1>4, <1>5, <1>6, <2>1
<1> QED
  BY <1>3, <1>4, <1>7

LEMMA LogOpensWindow ==
  ASSUME Typed, UNCHANGED <<events, run>>, NEW c \in Centres,
         windows # <<>> => windows[Len(windows)].closed,
         \A r \in DOMAIN events : events[r].closed # None,
         windows' = Append(windows, [center |-> c, closed |-> FALSE, linear |-> "unset"])
  PROVE  Log!OpenWindow(c)
<1>1. ~Log!Listening
  <2>1. PICK n : n = Len(windows)
    OBVIOUS
  <2>2. Log!Listening <=> windows # <<>> /\ ~windows[n].closed
    BY <2>1, LogListening
  <2> QED
    BY <2>1, <2>2
<1>2. PICK le : le = LogOf(events)
  OBVIOUS
<1>3. \A r \in 1 .. Len(le) : le[r].closed
  BY <1>2, LogOfIs DEF Typed
<1>4. Log!OpenRows = {}
  BY <1>2, <1>3, LogIs DEF Log!OpenRows
<1>5. PICK w : w = [center |-> c, closed |-> FALSE, linear |-> "unset"]
  OBVIOUS
<1>6. w \in WindowRows
  BY <1>5 DEF WindowRows, Verdicts, Centres, Range
<1>7. LogWindow(w) = [center |-> c, closed |-> FALSE, linear |-> None]
  BY <1>5 DEF LogWindow
<1>8. LogWindows' = Append(LogWindows, LogWindow(w))
  BY <1>5, <1>6, LogIs, LogWindowAdded DEF Typed
<1>9. UNCHANGED <<LogEvents, LogEnded>>
  BY LogIs
<1> QED
  BY <1>1, <1>4, <1>7, <1>8, <1>9 DEF Log!OpenWindow, Log!None, None

LEMMA LogVerdict ==
  ASSUME Typed, UNCHANGED <<events, run>>, windows # <<>>, ~windows[Len(windows)].closed,
         NEW v \in Verdicts, v # "unset", windows' = [windows EXCEPT ![Len(windows)].linear = v]
  PROVE  Log!Verdict
<1>1. PICK n : n = Len(windows)
  OBVIOUS
<1>2. Log!Listening /\ Log!Last = n /\ n \in DOMAIN windows
  BY <1>1, LogListening
<1>3. windows' = Verdict(windows, n, v) /\ windows \in Seq(WindowRows)
  BY <1>1 DEF Verdict, Typed
<1>4. PICK ws : ws = windows
  OBVIOUS
<1>5. LogWindowsOf(Verdict(ws, n, v)) = Verdict(LogWindowsOf(ws), n, LogWindowsOf(ws)[n].center)
  BY <1>2, <1>3, <1>4, LogWindowJudged
<1>6. LogWindows' = [LogWindows EXCEPT ![n].linear = LogWindows[n].center]
  BY <1>3, <1>4, <1>5, LogIs DEF Verdict
<1>7. UNCHANGED <<LogEvents, LogEnded>>
  BY LogIs
<1> QED
  BY <1>2, <1>6, <1>7 DEF Log!Verdict

LEMMA LogHears ==
  ASSUME Typed, UNCHANGED <<windows, run>>, windows # <<>>, ~windows[Len(windows)].closed,
         NEW ch \in Channels, NEW e \in EventRows, events' = Append(events, e),
         e.ch = ch, e.window = Len(windows), e.closed = None, e.parent = None, e.result = None,
         \A r \in DOMAIN events : events[r].closed = None => events[r].ch # ch
  PROVE  Log!Hear(ch)
<1>1. PICK n : n = Len(windows)
  OBVIOUS
<1>2. Log!Listening /\ Log!Last = n
  BY <1>1, LogListening
<1>3. PICK le : le = LogOf(events)
  OBVIOUS
<1>4. \A r \in 1 .. Len(le) : ~le[r].closed => le[r].ch # ch
  BY <1>3, LogOfIs DEF Typed
<1>5. \A r \in Log!OpenRows : LogEvents[r].ch # ch
  BY <1>3, <1>4, LogIs DEF Log!OpenRows
<1>6. LogRow(e) = [ch |-> ch, window |-> n, closed |-> FALSE, parent |-> None, analysed |-> FALSE]
  BY <1>1 DEF LogRow
<1>7. LogEvents' = Append(LogEvents, LogRow(e))
  BY LogIs, LogAppended DEF Typed
<1>8. UNCHANGED <<LogWindows, LogEnded>>
  BY LogIs
<1> QED
  BY <1>2, <1>5, <1>6, <1>7, <1>8 DEF Log!Hear, Log!Row, Log!None, None

LEMMA LogStutters ==
  ASSUME UNCHANGED <<windows, events>>, run' = "ended" <=> run = "ended"
  PROVE  UNCHANGED Log!logVars
<1>1. UNCHANGED LogEnded
  BY Zenon DEF LogEnded
<1> QED
  BY <1>1 DEF Log!logVars, LogWindows, LogEvents

MarkedAt(ev, r, p) == [ev EXCEPT ![r].parent = p]

LEMMA LogMarked ==
  ASSUME NEW ev \in Seq(EventRows), NEW r \in DOMAIN ev, NEW p \in DOMAIN ev
  PROVE  LogOf(MarkedAt(ev, r, p)) = MarkedAt(LogOf(ev), r, p)
<1>1. PICK row : row = [ev[r] EXCEPT !.parent = p]
  OBVIOUS
<1>2. ev[r] \in EventRows /\ r \in 1 .. Len(ev) /\ p \in Nat /\ DOMAIN ev = 1 .. Len(ev)
      /\ Len(ev) \in Nat
  BY LogOfIs
<1>3. /\ row \in EventRows /\ row.ch = ev[r].ch /\ row.window = ev[r].window
      /\ row.closed = ev[r].closed /\ row.result = ev[r].result /\ row.parent = p
  BY <1>1, <1>2 DEF EventRows
<1>4. PICK ev1 : ev1 = MarkedAt(ev, r, p)
  OBVIOUS
<1>5. DOMAIN ev1 = DOMAIN ev /\ \A i \in DOMAIN ev : ev1[i] = IF i = r THEN row ELSE ev[i]
  BY <1>1, <1>4 DEF MarkedAt
<1>6. PICK l, l1, l2 : l = LogOf(ev) /\ l1 = LogOf(ev1) /\ l2 = MarkedAt(l, r, p)
  OBVIOUS
<1>7. DOMAIN l = DOMAIN ev /\ \A i \in DOMAIN ev : l[i] = LogRow(ev[i]) /\ l[i] \in LogRows
  BY <1>6, LogOfIs
<1>8. l1 = [i \in DOMAIN ev |-> LogRow(ev1[i])]
  BY <1>5, <1>6 DEF LogOf
<1>9. PICK x, y, z : x = l[r] /\ y = LogRow(row) /\ z = [x EXCEPT !.parent = p]
  OBVIOUS
<1>10. x = LogRow(ev[r]) /\ x \in LogRows
  BY <1>7, <1>9
<1>11. /\ x.ch = ev[r].ch /\ x.window = ev[r].window /\ x.parent = ev[r].parent
       /\ x.closed <=> ev[r].closed # None
       /\ x.analysed <=> ev[r].result # None
  BY <1>2, <1>10, LogRowFields
<1>12. /\ y \in LogRows /\ y.ch = row.ch /\ y.window = row.window /\ y.parent = row.parent
       /\ y.closed <=> row.closed # None
       /\ y.analysed <=> row.result # None
  BY <1>3, <1>9, LogRowFields
<1>13. /\ z \in LogRows /\ z.ch = x.ch /\ z.window = x.window /\ z.parent = p
       /\ z.closed = x.closed /\ z.analysed = x.analysed
  BY <1>2, <1>9, <1>10 DEF LogRows
<1>14. y.closed <=> z.closed
  BY <1>3, <1>11, <1>12, <1>13
<1>15. y.analysed <=> z.analysed
  BY <1>3, <1>11, <1>12, <1>13
<1>16. y = z
  BY <1>3, <1>11, <1>12, <1>13, <1>14, <1>15, LogRowsEqual
<1>17. l2 = [i \in DOMAIN ev |-> IF i = r THEN z ELSE l[i]]
  BY <1>6, <1>7, <1>9 DEF MarkedAt
<1>18. \A i \in DOMAIN ev : l1[i] = IF i = r THEN z ELSE l[i]
  BY <1>5, <1>7, <1>8, <1>9, <1>16
<1>19. l1 = [i \in DOMAIN ev |-> l1[i]]
  BY <1>8
<1>20. l1 = l2
  BY <1>17, <1>18, <1>19
<1> QED
  BY <1>4, <1>6, <1>20

LEMMA LogMarks ==
  ASSUME Typed, UNCHANGED <<windows, run>>,
         NEW r \in DOMAIN events, NEW p \in DOMAIN events, r # p,
         events[r].closed = None, events[p].closed = None,
         events[r].parent = None, events[r].result = None,
         events' = [events EXCEPT ![r].parent = p]
  PROVE  r \in Log!OpenRows /\ p \in Log!OpenRows /\ Log!Harmonic(r, p)
<1>1. PICK ev, le, le1 : ev = events /\ le = LogOf(events) /\ le1 = LogOf(events')
  OBVIOUS
<1>2. ev \in Seq(EventRows) /\ events' = MarkedAt(ev, r, p) /\ r \in DOMAIN ev /\ p \in DOMAIN ev
  BY <1>1 DEF MarkedAt, Typed
<1>3. r \in 1 .. Len(le) /\ p \in 1 .. Len(le) /\ ~le[r].closed /\ ~le[p].closed
      /\ ~le[r].analysed /\ le[r].parent = None
  BY <1>1, <1>2, LogOfIs
<1>4. le1 = [le EXCEPT ![r].parent = p]
  <2>1. LogOf(MarkedAt(ev, r, p)) = MarkedAt(LogOf(ev), r, p)
    BY <1>2, LogMarked
  <2> QED
    BY <1>1, <1>2, <2>1 DEF MarkedAt
<1>5. UNCHANGED <<LogWindows, LogEnded>> /\ LogEvents = le /\ LogEvents' = le1
  BY <1>1, LogIs
<1> QED
  BY <1>3, <1>4, <1>5 DEF Log!Harmonic, Log!OpenRows, Log!None, None

(* Answers are applied to rows that have neither. *)
LEMMA LogAnalyses ==
  ASSUME Typed, Typed', UNCHANGED <<windows, run>>,
         NEW S \in SUBSET DOMAIN events, OnlyAnalysed(events, events', S),
         \A r \in S : events[r].parent = None /\ events[r].result = None
  PROVE  \E R \in SUBSET (1 .. Len(LogEvents)) : Log!Analyse(R)
<1>1. PICK ev, ev1, le, le1 : /\ ev = events /\ ev1 = events'
                              /\ le = LogOf(events) /\ le1 = LogOf(events')
  OBVIOUS
<1>2. ev \in Seq(EventRows) /\ ev1 \in Seq(EventRows) /\ OnlyAnalysed(ev, ev1, S)
      /\ S \subseteq DOMAIN ev
  BY <1>1 DEF Typed
<1>3. S \in SUBSET (1 .. Len(le)) /\ \A r \in S : le[r].parent = None /\ ~le[r].analysed
  <2>1. /\ DOMAIN ev = 1 .. Len(le)
        /\ \A r \in DOMAIN ev : /\ le[r].parent = ev[r].parent
                                /\ le[r].analysed <=> ev[r].result # None
    BY <1>1, <1>2, LogOfIs
  <2> QED
    BY <1>1, <2>1
<1>4. /\ le1 = [r \in 1 .. Len(le) |-> le1[r]]
      /\ \A r \in 1 .. Len(le) :
           le1[r] = IF r \in S THEN [le[r] EXCEPT !.analysed = TRUE] ELSE le[r]
  <2>1. /\ LogOf(ev1) = [r \in 1 .. Len(LogOf(ev)) |-> LogOf(ev1)[r]]
        /\ \A r \in 1 .. Len(LogOf(ev)) :
             LogOf(ev1)[r] = IF r \in S THEN [LogOf(ev)[r] EXCEPT !.analysed = TRUE] ELSE LogOf(ev)[r]
    BY <1>2, LogAnalysed
  <2> QED
    BY <1>1, <2>1
<1>5. UNCHANGED <<LogWindows, LogEnded>> /\ LogEvents = le /\ LogEvents' = le1
  BY <1>1, LogIs
<1>6. Log!Analyse(S)
  BY <1>3, <1>4, <1>5 DEF Log!Analyse, Log!None, None
<1> QED
  BY <1>3, <1>5, <1>6

(* Rows that are open are given an end. *)
LEMMA LogCloses ==
  ASSUME Typed, Typed', UNCHANGED run, NEW S \in SUBSET DOMAIN events,
         OnlyClosed(events, events', S), \A r \in S : events[r].closed = None
  PROVE  /\ S \in SUBSET Log!OpenRows
         /\ UNCHANGED windows => Log!Close(S)
         /\ windows # <<>> /\ ~windows[Len(windows)].closed
            /\ windows' = [windows EXCEPT ![Len(windows)].closed = TRUE] => Log!CloseWindow
<1>1. PICK ev, ev1, le, le1 : /\ ev = events /\ ev1 = events'
                              /\ le = LogOf(events) /\ le1 = LogOf(events')
  OBVIOUS
<1>2. ev \in Seq(EventRows) /\ ev1 \in Seq(EventRows) /\ OnlyClosed(ev, ev1, S)
      /\ S \subseteq DOMAIN ev
  BY <1>1 DEF Typed
<1>3. S \in SUBSET (1 .. Len(le)) /\ \A r \in S : ~le[r].closed
  <2>1. /\ DOMAIN ev = 1 .. Len(le)
        /\ \A r \in DOMAIN ev : le[r].closed <=> ev[r].closed # None
    BY <1>1, <1>2, LogOfIs
  <2> QED
    BY <1>1, <2>1
<1>4. /\ le1 = [r \in 1 .. Len(le) |-> le1[r]]
      /\ \A r \in 1 .. Len(le) :
           le1[r] = IF r \in S THEN [le[r] EXCEPT !.closed = TRUE] ELSE le[r]
  <2>1. /\ LogOf(ev1) = [r \in 1 .. Len(LogOf(ev)) |-> LogOf(ev1)[r]]
        /\ \A r \in 1 .. Len(LogOf(ev)) :
             LogOf(ev1)[r] = IF r \in S THEN [LogOf(ev)[r] EXCEPT !.closed = TRUE] ELSE LogOf(ev)[r]
    BY <1>2, LogClosed
  <2> QED
    BY <1>1, <2>1
<1>5. UNCHANGED LogEnded /\ LogEvents = le /\ LogEvents' = le1
  BY <1>1, LogIs
<1>6. LogEvents' = Log!Closed(S)
  BY <1>4, <1>5 DEF Log!Closed
<1>7. S \in SUBSET Log!OpenRows
  BY <1>3, <1>5 DEF Log!OpenRows
<1>8. UNCHANGED windows => Log!Close(S)
  BY <1>5, <1>6, LogIs DEF Log!Close
<1>9. ASSUME windows # <<>>, ~windows[Len(windows)].closed,
             windows' = [windows EXCEPT ![Len(windows)].closed = TRUE]
      PROVE  Log!CloseWindow
  <2>1. PICK n, ws : n = Len(windows) /\ ws = windows
    OBVIOUS
  <2>2. Log!Listening /\ Log!Last = n /\ n \in DOMAIN ws /\ ws \in Seq(WindowRows)
    BY <1>9, <2>1, LogListening DEF Typed
  <2>3. windows' = ClosedAt(ws, n)
    BY <1>9, <2>1 DEF ClosedAt
  <2>4. LogWindowsOf(ClosedAt(ws, n)) = ClosedAt(LogWindowsOf(ws), n)
    BY <2>2, LogWindowClosed
  <2>5. LogWindows' = [LogWindows EXCEPT ![n].closed = TRUE]
    BY <2>1, <2>3, <2>4, LogIs DEF ClosedAt
  <2> QED
    BY <1>5, <1>6, <1>7, <2>2, <2>5 DEF Log!CloseWindow
<1> QED
  BY <1>7, <1>8, <1>9

LEMMA LogEndsRun ==
  ASSUME Typed, UNCHANGED <<windows, events>>, run' = "ended",
         windows # <<>> => windows[Len(windows)].closed
  PROVE  Log!EndRun
<1>1. PICK n : n = Len(windows)
  OBVIOUS
<1>2. ~Log!Listening
  BY <1>1, LogListening
<1> QED
  BY <1>2, LogIs DEF Log!EndRun

LogStep == Log!Next \/ UNCHANGED Log!logVars

LEMMA LogTakes ==
  ASSUME run # "ended"
  PROVE  /\ (\E c \in Centres : Log!OpenWindow(c)) => LogStep
         /\ Log!Verdict => LogStep
         /\ (\E ch \in Channels : Log!Hear(ch)) => LogStep
         /\ (\E r, p \in Log!OpenRows : Log!Harmonic(r, p)) => LogStep
         /\ (\E R \in SUBSET (1 .. Len(LogEvents)) : Log!Analyse(R)) => LogStep
         /\ (\E R \in SUBSET Log!OpenRows : Log!Close(R)) => LogStep
         /\ Log!CloseWindow => LogStep
         /\ Log!EndRun => LogStep
<1>1. ~LogEnded
  BY LogIs
<1> QED
  BY <1>1 DEF LogStep, Log!Next

-----------------------------------------------------------------------------
(* Each step of the loop is a step of SurveyLog, or writes nothing. *)

LEMMA TablesTyped == LoopInv /\ EventsInv => Typed
BY DEF LoopInv, Types, EventsInv, EventTypes, Typed

(* Until something raises, every open event is a channel's. *)
LEMMA OpenIsHeard ==
  ASSUME EventsInv, LostInv, failures = 0, NEW r \in DOMAIN events, events[r].closed = None
  PROVE  \E c \in Channels : openRows[c] = r
<1>1. Cardinality(Lost) \in Nat
  BY FS_CardinalityType DEF LostInv
<1>2. Cardinality(Lost) = 0
  BY <1>1 DEF LostInv
<1>3. Lost = {}
  BY <1>2, FS_EmptySet DEF LostInv
<1> QED
  BY <1>3 DEF Lost, OpenEvents

(* Where there is a window. *)
LEMMA InWindow ==
  ASSUME LoopInv, EventsInv, windowId # None
  PROVE  windows # <<>> /\ windowId = Len(windows) /\ ~windows[Len(windows)].closed
<1>1. windowId = Len(windows) /\ windowId \in DOMAIN windows /\ windows \in Seq(WindowRows)
  BY DEF LoopInv, Types, EventsInv, Booked
<1>2. windows # <<>>
  BY <1>1
<1>3. windows[windowId].closed = (windowId # windowId)
  BY <1>1 DEF EventsInv, Booked
<1> QED
  BY <1>1, <1>2, <1>3

LEMMA BetweenWindows ==
  ASSUME LoopInv, EventsInv, windowId = None, windows # <<>>
  PROVE  windows[Len(windows)].closed
<1>1. windows \in Seq(WindowRows) /\ Len(windows) \in Nat /\ Len(windows) \in DOMAIN windows
  BY EmptySeq DEF LoopInv, Types
<1>2. windows[Len(windows)].closed = (Len(windows) # windowId)
  BY <1>1 DEF EventsInv, Booked
<1>3. Len(windows) # windowId
  BY <1>1 DEF None
<1> QED
  BY <1>2, <1>3

LEMMA OpenWindowStep == LoopInv /\ EventsInv /\ LostInv /\ OpenWindow => LogStep
<1> SUFFICES ASSUME LoopInv, EventsInv, LostInv, OpenWindow PROVE LogStep
  OBVIOUS
<1>1. /\ pc = "open" /\ UNCHANGED <<events, run>>
      /\ windows' = Append(windows, [center |-> Windows[(visits % Len(Windows)) + 1],
                                     closed |-> FALSE, linear |-> "unset"])
  BY DEF OpenWindow
<1>2. openRows = NoRows /\ windowId = None /\ failures = 0 /\ run # "ended"
  BY <1>1 DEF EventsInv, Booked, Finishing
<1>3. (visits % Len(Windows)) + 1 \in DOMAIN Windows
  <2>1. visits \in Nat /\ Windows \in Seq(Nat) /\ Len(Windows) \in Nat /\ Len(Windows) # 0
    BY CaptureConstants, EmptySeq DEF LoopInv, Types
  <2>2. visits % Len(Windows) \in 0 .. Len(Windows) - 1
    BY <2>1
  <2> QED
    BY <2>1, <2>2
<1>4. PICK c : c = Windows[(visits % Len(Windows)) + 1]
  OBVIOUS
<1>5. c \in Centres
  BY <1>3, <1>4 DEF Centres
<1>6. ASSUME NEW r \in DOMAIN events PROVE events[r].closed # None
  <2>1. r # None
    BY EventField DEF EventsInv, None
  <2>2. \A d \in Channels : openRows[d] # r
    BY <1>2, <2>1 DEF NoRows
  <2> QED
    BY <1>2, <2>2, OpenIsHeard
<1>7. windows # <<>> => windows[Len(windows)].closed
  BY <1>2, BetweenWindows
<1>8. Log!OpenWindow(c)
  BY <1>1, <1>4, <1>5, <1>6, <1>7, TablesTyped, LogOpensWindow
<1> QED
  BY <1>2, <1>5, <1>8, LogTakes

LEMMA LinearityStep == LoopInv /\ EventsInv /\ CheckLinearity => LogStep
<1> SUFFICES ASSUME LoopInv, EventsInv, CheckLinearity PROVE LogStep
  OBVIOUS
<1>1. pc = "probe" /\ UNCHANGED <<events, run>>
  BY DEF CheckLinearity, Unchecked, ProbeGain, ProbeHearsNothing, SkipSweep, EndSweep, Probing,
         ProbeUnchanged
<1>2. run # "ended" /\ windowId = Len(windows) /\ windowId # None
  BY <1>1 DEF EventsInv, Booked, LoopInv, Types, None
<1>3. CASE UNCHANGED windows
  BY <1>1, <1>3, LogStutters DEF LogStep
<1>4. CASE \E v \in Verdicts : v # "unset" /\ SetWindowLinearity(v)
  <2>1. PICK v \in Verdicts : v # "unset" /\ SetWindowLinearity(v)
    BY <1>4
  <2>2. windows' = [windows EXCEPT ![Len(windows)].linear = v]
    BY <1>2, <2>1 DEF SetWindowLinearity
  <2>3. Log!Verdict
    BY <1>1, <1>2, <2>1, <2>2, InWindow, TablesTyped, LogVerdict
  <2> QED
    BY <1>2, <2>3, LogTakes
<1>5. UNCHANGED windows \/ \E v \in Verdicts : v # "unset" /\ SetWindowLinearity(v)
  <2>1. CompressionVerdict(probe.floors) \in Verdicts \ {"unset"}
    BY DEF CompressionVerdict, Verdicts
  <2>2. "unchecked" \in Verdicts \ {"unset"} /\ "inconclusive" \in Verdicts \ {"unset"}
    BY DEF Verdicts
  <2>3. ASSUME NEW v \in Verdicts \ {"unset"}, SweepSays(v)
        PROVE  UNCHANGED windows \/ \E u \in Verdicts : u # "unset" /\ SetWindowLinearity(u)
    BY <2>3 DEF SweepSays
  <2>4. CASE Unchecked
    BY <2>2, <2>4 DEF Unchecked
  <2>5. CASE ProbeGain
    BY <2>5 DEF ProbeGain
  <2>6. CASE ProbeHearsNothing \/ SkipSweep
    BY <2>2, <2>3, <2>6 DEF ProbeHearsNothing, SkipSweep
  <2>7. CASE EndSweep
    BY <2>1, <2>3, <2>7 DEF EndSweep
  <2> QED
    BY <2>4, <2>5, <2>6, <2>7 DEF CheckLinearity
<1> QED
  BY <1>3, <1>4, <1>5

(* While there is something to do of a frame. *)
LEMMA InFrame ==
  ASSUME LoopInv, EventsInv, line # NoLine
  PROVE  /\ pc = "read" /\ run # "ended" /\ failures = 0 /\ windowId # None
         /\ logWindow = Len(windows)
BY DEF EventsInv, Booked, LoopInv, Types, None, Finishing

LEMMA StartStep == LoopInv /\ EventsInv /\ LostInv /\ Start => LogStep
<1> SUFFICES ASSUME LoopInv, EventsInv, LostInv, Start PROVE LogStep
  OBVIOUS
<1>1. PICK ch : ch = MinOf(line.s)
  OBVIOUS
<1>2. PICK e : e = [ch |-> ch, window |-> logWindow, heard |-> visits, from |-> line.from,
                    closed |-> None, parent |-> None, result |-> None]
  OBVIOUS
<1>3. line.s # {} /\ events' = Append(events, e) /\ UNCHANGED <<windows, run>>
  BY <1>1, <1>2 DEF Start, FrameUnchanged
<1>4. line # NoLine
  BY <1>3 DEF NoLine
<1>5. /\ run # "ended" /\ failures = 0 /\ windowId # None /\ logWindow = Len(windows)
  BY <1>4, InFrame
<1>6. line.s \subseteq Channels /\ line.from \in {None} \cup Nat
  BY DEF EventsInv, EventTypes, Lines
<1>7. ch \in line.s /\ ch \in Channels
  BY <1>1, <1>3, <1>6, LeastOf
<1>8. openRows[ch] = None /\ line.from \in Nat
  BY <1>3, <1>6, <1>7 DEF EventsInv, LineInv
<1>9. e \in EventRows
  BY <1>2, <1>7, <1>8 DEF EventRows, EventsInv, EventTypes, LoopInv, Types
<1>10. e.ch = ch /\ e.window = Len(windows) /\ e.closed = None /\ e.parent = None /\ e.result = None
  BY <1>2, <1>5
<1>11. ASSUME NEW r \in DOMAIN events, events[r].closed = None PROVE events[r].ch # ch
  <2>1. PICK c \in Channels : openRows[c] = r
    BY <1>5, <1>11, OpenIsHeard
  <2>2. r # None
    BY EventField DEF EventsInv, None
  <2>3. events[r].ch = c /\ c # ch
    BY <1>8, <2>1, <2>2 DEF EventsInv, RowsOpen
  <2> QED
    BY <2>3
<1>12. windows # <<>> /\ ~windows[Len(windows)].closed
  BY <1>5, InWindow
<1>13. Log!Hear(ch)
  BY <1>3, <1>7, <1>9, <1>10, <1>11, <1>12, TablesTyped, LogHears
<1> QED
  BY <1>5, <1>7, <1>13, LogTakes

LEMMA AnalyseStep == LoopInv /\ EventsInv /\ Once /\ (AnalyseDue \/ AnalyseLast) => LogStep
<1> SUFFICES ASSUME LoopInv, EventsInv, Once, AnalyseDue \/ AnalyseLast PROVE LogStep
  OBVIOUS
<1>1. /\ UNCHANGED <<windows, run>> /\ line # NoLine
      /\ line.due \subseteq Channels /\ line.e \subseteq Channels
  BY DEF AnalyseDue, AnalyseLast, FrameUnchanged, NoLine, EventsInv, EventTypes, Lines
<1>2. run # "ended"
  BY <1>1, InFrame
<1>3. PICK ch \in Channels : \E n : Analyse(ch, n) /\ pending[ch] # None
  <2>1. CASE AnalyseDue
    BY <1>1, <2>1 DEF AnalyseDue, Once
  <2>2. CASE AnalyseLast
    <3>1. Ending \in Channels
      BY <1>1, <2>2, LeastOf DEF AnalyseLast, Ending
    <3> QED
      BY <2>2, <3>1 DEF AnalyseLast
  <2> QED
    BY <2>1, <2>2
<1>4. PICK n : Analyse(ch, n) /\ pending[ch] # None
  BY <1>3
<1>5. CASE UNCHANGED events
  BY <1>1, <1>5, LogStutters DEF LogStep
<1>6. CASE \E p \in InProgress \ {ch} :
             openRows[ch] # None /\ events' = [events EXCEPT ![openRows[ch]].parent = openRows[p]]
  <2>1. PICK p \in InProgress \ {ch} :
             openRows[ch] # None /\ events' = [events EXCEPT ![openRows[ch]].parent = openRows[p]]
    BY <1>6
  <2>2. PICK r, q : r = openRows[ch] /\ q = openRows[p]
    OBVIOUS
  <2>3. p \in Channels /\ p # ch /\ q # None /\ r # None
    BY <2>1, <2>2 DEF InProgress
  <2>4. /\ r \in DOMAIN events /\ q \in DOMAIN events
        /\ events[r].closed = None /\ events[q].closed = None
    BY <2>2, <2>3 DEF EventsInv, RowsOpen
  <2>5. r # q
    BY <2>2, <2>3, OwnRow
  <2>6. events[r].parent = None /\ events[r].result = None
    BY <1>4, <2>2, <2>3 DEF Once, Undecided
  <2>7. r \in Log!OpenRows /\ q \in Log!OpenRows /\ Log!Harmonic(r, q)
    BY <1>1, <2>1, <2>2, <2>4, <2>5, <2>6, TablesTyped, LogMarks
  <2> QED
    BY <1>2, <2>7, LogTakes
<1> QED
  BY <1>4, <1>5, <1>6 DEF Analyse

LEMMA AnswersStep ==
  ASSUME LoopInv, EventsInv, EventsInv', Once, UNCHANGED <<windows, run>>, run # "ended",
         NEW k \in 0 .. Len(results), events' = Applied(SubSeq(results, 1, k))
  PROVE  LogStep
<1>1. PICK S : S = {r \in DOMAIN events : events'[r].result # events[r].result}
  OBVIOUS
<1>2. /\ DOMAIN events' = DOMAIN events
      /\ \A r \in DOMAIN events :
              /\ events'[r].ch = events[r].ch /\ events'[r].window = events[r].window
              /\ events'[r].closed = events[r].closed /\ events'[r].parent = events[r].parent
              /\ events'[r].result # events[r].result =>
                   r \in AnsweredRows /\ events'[r].result # None
  BY OnlyAnswered
<1>3. S \in SUBSET DOMAIN events /\ OnlyAnalysed(events, events', S)
  BY <1>1, <1>2 DEF OnlyAnalysed
<1>4. \A r \in S : events[r].parent = None /\ events[r].result = None
  BY <1>1, <1>2 DEF Once, RowsAsked, Undecided
<1>5. Typed /\ Typed'
  BY TablesTyped DEF EventsInv, EventTypes, Typed
<1>6. \E R \in SUBSET (1 .. Len(LogEvents)) : Log!Analyse(R)
  BY <1>3, <1>4, <1>5, LogAnalyses
<1> QED
  BY <1>6, LogTakes

LEMMA EndStep == LoopInv /\ EventsInv /\ EventsInv' /\ End => LogStep
<1> SUFFICES ASSUME LoopInv, EventsInv, EventsInv', End PROVE LogStep
  OBVIOUS
<1>1. PICK r : r = openRows[Ending]
  OBVIOUS
<1>2. /\ UNCHANGED <<windows, run>> /\ line # NoLine /\ line.e # {}
      /\ events' = IF r = None THEN events ELSE [events EXCEPT ![r].closed = visits]
  BY <1>1 DEF End, FrameUnchanged, NoLine
<1>3. run # "ended"
  BY <1>2, InFrame
<1>4. CASE r = None
  BY <1>2, <1>4, LogStutters DEF LogStep
<1>5. CASE r # None
  <2>1. Ending \in Channels
    BY <1>2, LeastOf DEF Ending, EventsInv, EventTypes, Lines
  <2>2. r \in DOMAIN events /\ events[r].closed = None
    BY <1>1, <1>5, <2>1 DEF EventsInv, RowsOpen
  <2>3. /\ DOMAIN events' = DOMAIN events
        /\ \A q \in DOMAIN events : q # r => events'[q] = events[q]
    BY <1>2, <1>5, <2>2
  <2>4. /\ events'[r].ch = events[r].ch /\ events'[r].window = events[r].window
        /\ events'[r].parent = events[r].parent /\ events'[r].result = events[r].result
        /\ events'[r].closed # None
    <3>1. events[r] \in EventRows /\ visits # None
      BY <2>2, EventField DEF EventsInv, LoopInv, Types, None
    <3>2. events'[r] = [events[r] EXCEPT !.closed = visits]
      BY <1>2, <1>5, <2>2
    <3> QED
      BY <3>1, <3>2 DEF EventRows
  <2>5. OnlyClosed(events, events', {r})
    BY <2>3, <2>4 DEF OnlyClosed
  <2>6. Typed /\ Typed'
    BY <1>2, TablesTyped DEF EventsInv, EventTypes, Typed
  <2>7. {r} \in SUBSET Log!OpenRows /\ Log!Close({r})
    BY <1>2, <2>2, <2>5, <2>6, LogCloses
  <2> QED
    BY <1>3, <2>7, LogTakes
<1> QED
  BY <1>4, <1>5

LEMMA RowsClosedStep ==
  ASSUME LoopInv, EventsInv, EventsInv', UNCHANGED run, run # "ended",
         NEW done \in SUBSET InProgress, events' = RowsClosed(done),
         windows' \in Seq(WindowRows), windows' = windows \/ windows' = WindowClosed
  PROVE  LogStep
<1>1. PICK S : S = {r \in DOMAIN events : \E c \in done : openRows[c] = r}
  OBVIOUS
<1>2. done \in SUBSET Channels /\ EventTypes /\ visits \in Nat /\ visits # None
  BY DEF InProgress, EventsInv, LoopInv, Types, None
<1>3. /\ DOMAIN events' = DOMAIN events
      /\ \A r \in DOMAIN events :
              /\ events'[r].ch = events[r].ch /\ events'[r].window = events[r].window
              /\ events'[r].parent = events[r].parent /\ events'[r].result = events[r].result
  BY OnceRowsClosed
<1>4. \A r \in DOMAIN events :
        events'[r].closed = IF \E c \in done : openRows[c] = r THEN visits ELSE events[r].closed
  BY SomeRowsClosed
<1>5. S \in SUBSET DOMAIN events /\ OnlyClosed(events, events', S)
  BY <1>1, <1>2, <1>3, <1>4 DEF OnlyClosed
<1>6. \A r \in S : events[r].closed = None
  <2> TAKE r \in S
  <2>1. PICK c \in done : openRows[c] = r
    BY <1>1
  <2>2. c \in Channels /\ openRows[c] # None
    BY <2>1 DEF InProgress
  <2> QED
    BY <2>1, <2>2 DEF EventsInv, RowsOpen
<1>7. Typed /\ Typed'
  BY TablesTyped DEF EventsInv, EventTypes, Typed
<1>8. /\ S \in SUBSET Log!OpenRows
      /\ UNCHANGED windows => Log!Close(S)
      /\ windows # <<>> /\ ~windows[Len(windows)].closed
         /\ windows' = [windows EXCEPT ![Len(windows)].closed = TRUE] => Log!CloseWindow
  BY <1>5, <1>6, <1>7, LogCloses
<1>9. CASE UNCHANGED windows
  BY <1>8, <1>9, LogTakes
<1>10. CASE windows' = WindowClosed /\ windowId # None
  <2>1. windows # <<>> /\ windowId = Len(windows) /\ ~windows[Len(windows)].closed
    BY <1>10, InWindow
  <2>2. windows' = [windows EXCEPT ![Len(windows)].closed = TRUE]
    BY <1>10, <2>1 DEF WindowClosed
  <2> QED
    BY <1>8, <2>1, <2>2, LogTakes
<1> QED
  BY <1>9, <1>10 DEF WindowClosed

LEMMA CloseOfLog ==
  ASSUME LoopInv, EventsInv, LoopInv', EventsInv', CloseWindow \/ CloseLast
  PROVE  LogStep
<1>1. /\ UNCHANGED run /\ events' = RowsClosed(InProgress) /\ windows' = WindowClosed
      /\ pc \in {"close", "last"}
  BY DEF CloseWindow, CloseLast, Close
<1>2. run # "ended" /\ windows' \in Seq(WindowRows)
  BY <1>1 DEF EventsInv, Booked, LoopInv, Types
<1> QED
  BY <1>1, <1>2, RowsClosedStep

LEMMA RaisedStep == LoopInv /\ EventsInv /\ EventsInv' /\ Once /\ Raised => LogStep
<1> SUFFICES ASSUME LoopInv, EventsInv, EventsInv', Once, Raised PROVE LogStep
  OBVIOUS
<1>1. UNCHANGED <<windows, run>> /\ windows' \in Seq(WindowRows)
  BY DEF Raised, RadioRaises, DbRaises, DiskRaises, Raises, LoopInv, Types
<1>2. run # "ended"
  <2>1. pc # "done"
    BY DEF Raised, RadioRaises, DbRaises, DiskRaises, Probing
  <2> QED
    BY <2>1 DEF EventsInv, Booked
<1>3. CASE UNCHANGED events
  BY <1>1, <1>3, LogStutters DEF LogStep
<1>4. CASE \E k \in 0 .. Len(results) : events' = Applied(SubSeq(results, 1, k)) /\ results' = <<>>
  BY <1>1, <1>2, <1>4, AnswersStep
<1>5. CASE \E done \in SUBSET InProgress : events' = RowsClosed(done) /\ results' = results
  BY <1>1, <1>2, <1>5, RowsClosedStep
<1> QED
  BY <1>3, <1>4, <1>5, RaisedRows

LEMMA StepOfLog ==
  ASSUME LoopInv, EventsInv, LostInv, Once, LoopInv', EventsInv', [Next]_vars
  PROVE  LogStep
<1>1. CASE UNCHANGED <<windows, events>> /\ (run' = "ended" <=> run = "ended")
  BY <1>1, LogStutters DEF LogStep
<1>2. CASE OpenWindow
  BY <1>2, OpenWindowStep
<1>3. CASE CheckLinearity
  BY <1>3, LinearityStep
<1>4. CASE Frame \/ Collect
  <2>1. events' = Applied(results) /\ UNCHANGED <<windows, run>> /\ pc \in {"read", "collect"}
    BY <1>4 DEF Frame, Collect, LiveRead
  <2>2. run # "ended"
    BY <2>1 DEF EventsInv, Booked
  <2>3. PICK k \in 0 .. Len(results) : events' = Applied(SubSeq(results, 1, k))
    BY <2>1, AllOnlyAnswered
  <2> QED
    BY <2>1, <2>2, <2>3, AnswersStep
<1>5. CASE Start
  BY <1>5, StartStep
<1>6. CASE AnalyseDue \/ AnalyseLast
  BY <1>6, AnalyseStep
<1>7. CASE End
  BY <1>7, EndStep
<1>8. CASE CloseWindow \/ CloseLast
  BY <1>8, CloseOfLog
<1>9. CASE Raised
  BY <1>9, RaisedStep
<1>10. CASE EndRun
  <2>1. pc = "end" /\ UNCHANGED <<windows, events>> /\ run' = "ended"
    BY <1>10 DEF EndRun
  <2>2. windowId = None /\ run # "ended"
    BY <2>1 DEF EventsInv, Booked
  <2>3. Log!EndRun
    BY <2>1, <2>2, BetweenWindows, TablesTyped, LogEndsRun
  <2> QED
    BY <2>2, <2>3, LogTakes
<1>11. CASE StartUp
  <2>1. \/ UNCHANGED <<windows, events>> /\ Starting /\ run' # "ended"
        \/ UNCHANGED <<windows, events, run>>
    BY <1>11 DEF StartUp, Configure, StartRun, RegisterReceiver, StartStream, StartsUp, Starting
  <2>2. Starting => run # "ended"
    BY DEF Starting, EventsInv, Booked
  <2> QED
    BY <1>1, <2>1, <2>2
<1>12. CASE LeaveWindow \/ ReadOverflow \/ ReadNothing \/ FrameShort \/ StopSeen \/ PutNone \/ Join
            \/ StopTimesOut
  <2>1. UNCHANGED <<windows, events, run>>
    BY <1>12 DEF LeaveWindow, ReadOverflow, ReadNothing, FrameShort, LiveRead, StopSeen, PutNone, Join,
       StopTimesOut, Goes, dbVars
  <2> QED
    BY <1>1, <2>1
<1>13. CASE Worker \/ Sigint \/ Interrupt \/ RadioDies \/ UNCHANGED vars
  <2>1. UNCHANGED <<windows, events, run>>
    BY <1>13 DEF Worker, TakeJob, FinishJob, WorkerUnchanged, Sigint, Interrupt, RadioDies, vars, dbVars
  <2> QED
    BY <1>1, <2>1
<1> QED
  BY <1>2, <1>3, <1>4, <1>5, <1>6, <1>7, <1>8, <1>9, <1>10, <1>11, <1>12, <1>13 DEF Next, Main, Done

LEMMA InitOfLog == Init => Log!Init
<1> SUFFICES ASSUME Init PROVE Log!Init
  OBVIOUS
<1>1. windows = <<>> /\ events = <<>> /\ run = "none"
  BY DEF Init
<1>2. LogWindows = <<>> /\ LogEvents = <<>>
  BY <1>1 DEF LogWindows, LogEvents
<1>3. LogEnded = FALSE
  BY <1>1 DEF LogEnded
<1> QED
  BY <1>2, <1>3 DEF Log!Init

(* The Python loop implements SurveyLog, whatever fails: every step that   *)
(* writes to the database, one cut short by an exception included, is one  *)
(* that SurveyLog allows.                                                  *)
THEOREM LoopImplementsLog == Spec => ImplementsSurveyLog
<1>1. Init => LoopInv /\ EventsInv /\ LostInv /\ Once
  BY InvInit, EventsInit, LostInit, OnceInit
<1>2. LoopInv /\ EventsInv /\ LostInv /\ Once /\ [Next]_vars => (LoopInv /\ EventsInv /\ LostInv /\ Once)'
  BY InvStep, EventsNext, LostNext, OnceNext
<1>3. LoopInv /\ EventsInv /\ LostInv /\ Once /\ [Next]_vars => [Log!Next]_(Log!logVars)
  BY <1>2, StepOfLog DEF LogStep
<1> QED
  BY <1>1, <1>2, <1>3, InitOfLog, PTL DEF Spec, ImplementsSurveyLog, Log!Spec

-----------------------------------------------------------------------------
(* What is kept.  The results are stored one by one, by a fold; that it is  *)
(* defined, and what it comes to, follows from there being no least         *)
(* sequence of results for which it is not so.                              *)

LEMMA LeastNatural ==
  ASSUME NEW S \in SUBSET Nat, S # {}
  PROVE  \E x \in S : \A y \in S : x <= y
<1>1. PICK x \in S : \A y \in S : ~ (<<y, x>> \in OpToRel(<, Nat))
  BY NatLessThanWellFounded, WFMin, Zenon
<1>2. \A y \in S : ~ (y < x)
  BY <1>1, Zenon DEF OpToRel
<1>3. \A y \in S : x <= y
  BY <1>2
<1> QED
  BY <1>3

LEMMA MaxUpTo ==
  ASSUME NEW k \in Nat, NEW S \in SUBSET (1 .. k), S # {}
  PROVE  Max(S) \in S /\ \A y \in S : y <= Max(S)
<1> DEFINE T == {k - y : y \in S}
<1>1. T \in SUBSET Nat /\ T # {}
  <2>1. PICK y \in S : TRUE
    OBVIOUS
  <2>2. k - y \in T
    BY <2>1
  <2>3. T \in SUBSET Nat
    OBVIOUS
  <2> HIDE DEF T
  <2> QED
    BY <2>2, <2>3
<1>2. PICK t \in T : \A u \in T : t <= u
  <2> HIDE DEF T
  <2> QED
    BY <1>1, LeastNatural
<1>3. PICK x \in S : t = k - x
  BY <1>2
<1>4. \A y \in S : x >= y
  <2> SUFFICES ASSUME NEW y \in S PROVE x >= y
    OBVIOUS
  <2>1. k - y \in T
    OBVIOUS
  <2>2. k - x <= k - y
    BY <1>2, <1>3, <2>1
  <2>3. x \in Nat /\ y \in Nat
    OBVIOUS
  <2> HIDE DEF T
  <2> QED
    BY <2>2, <2>3
<1> HIDE DEF T
<1>5. Max(S) \in S /\ \A y \in S : Max(S) >= y
  BY <1>4 DEF Max
<1> QED
  BY <1>5

(* What is stored of the results at the places in s *)
StoredOf(rs, f, s) == IF s = {} THEN store ELSE Stored(f[s \ {Max(s)}], rs[Max(s)])

StoresUpTo(rs, n, f) == f = [s \in SUBSET (1 .. n) |-> StoredOf(rs, f, s)]

LEMMA StoresAtAll ==
  ASSUME NEW rs, NEW n \in Nat
  PROVE  \E f : StoresUpTo(rs, n, f)
<1> DEFINE bad == {k \in Nat : ~\E f : StoresUpTo(rs, k, f)}
<1>1. \E f : StoresUpTo(rs, 0, f)
  <2> DEFINE f == [s \in SUBSET (1 .. 0) |-> store]
  <2>1. SUBSET (1 .. 0) = {{}}
    OBVIOUS
  <2>2. \A s \in SUBSET (1 .. 0) : StoredOf(rs, f, s) = store
    BY <2>1 DEF StoredOf
  <2>3. StoresUpTo(rs, 0, f)
    BY <2>2 DEF StoresUpTo
  <2> QED
    BY <2>3
<1>2. ASSUME NEW k \in Nat, NEW f, StoresUpTo(rs, k, f)
      PROVE  \E g : StoresUpTo(rs, k + 1, g)
  <2> DEFINE g == [s \in SUBSET (1 .. k + 1) |-> StoredOf(rs, f, s)]
  <2>1. \A s \in SUBSET (1 .. k) : f[s] = StoredOf(rs, f, s)
    BY <1>2 DEF StoresUpTo
  <2>2. \A s \in SUBSET (1 .. k) : s \in SUBSET (1 .. k + 1) /\ g[s] = StoredOf(rs, f, s)
    <3>1. 1 .. k \subseteq 1 .. k + 1
      OBVIOUS
    <3> QED
      BY <3>1
  <2>3. ASSUME NEW s \in SUBSET (1 .. k + 1), s # {}
        PROVE  s \ {Max(s)} \in SUBSET (1 .. k)
    <3>1. k + 1 \in Nat
      OBVIOUS
    <3>2. Max(s) \in s /\ \A y \in s : y <= Max(s)
      BY <2>3, <3>1, MaxUpTo
    <3>3. ASSUME NEW y \in s, y # Max(s) PROVE y \in 1 .. k
      <4>1. y \in 1 .. k + 1 /\ Max(s) \in 1 .. k + 1
        BY <3>2
      <4>2. y <= Max(s) /\ y # Max(s)
        BY <3>2, <3>3
      <4> QED
        BY <4>1, <4>2
    <3> QED
      BY <3>3
  <2>4. ASSUME NEW s \in SUBSET (1 .. k + 1)
        PROVE  StoredOf(rs, f, s) = StoredOf(rs, g, s)
    <3>1. CASE s = {}
      BY <3>1 DEF StoredOf
    <3>2. CASE s # {}
      <4>1. s \ {Max(s)} \in SUBSET (1 .. k)
        BY <2>3, <3>2
      <4>2. f[s \ {Max(s)}] = g[s \ {Max(s)}]
        BY <2>1, <2>2, <4>1, Zenon
      <4> HIDE DEF g
      <4> QED
        BY <3>2, <4>2 DEF StoredOf
    <3> QED
      BY <3>1, <3>2
  <2>5. g = [s \in SUBSET (1 .. k + 1) |-> StoredOf(rs, g, s)]
    BY <2>4, Zenon
  <2> HIDE DEF g
  <2>6. StoresUpTo(rs, k + 1, g)
    BY <2>5 DEF StoresUpTo
  <2> QED
    BY <2>6
<1>3. ASSUME bad # {} PROVE FALSE
  <2>1. PICK k \in bad : \A j \in bad : k <= j
    <3>1. bad \in SUBSET Nat
      OBVIOUS
    <3> HIDE DEF bad
    <3> QED
      BY <1>3, <3>1, LeastNatural
  <2>2. k \in Nat /\ k # 0 /\ k - 1 \in Nat
    BY <1>1
  <2>3. \E f : StoresUpTo(rs, k - 1, f)
    BY <2>1, <2>2
  <2>4. k = (k - 1) + 1
    BY <2>2
  <2>5. \E f : StoresUpTo(rs, k, f)
    BY <1>2, <2>2, <2>3, <2>4
  <2> QED
    BY <2>5
<1> QED
  BY <1>3

(* A store within its budget, that has rows of R alone *)
Within(s, R) == s \in [written : 0 .. Budget + Overhead, stopped : BOOLEAN, rows : SUBSET R]

LEMMA BudgetType == Budget \in Nat /\ Overhead \in Nat
BY CaptureConstants

LEMMA StoredWithin ==
  ASSUME NEW R, NEW s, Within(s, R), NEW r \in Answers, r.ok => r.row \in R
  PROVE  Within(Stored(s, r), R)
<1>1. r.n \in Nat
  BY DEF Answers
<1>2. CASE ~r.ok \/ ~Keeps
  BY <1>2 DEF Stored
<1>3. CASE r.ok /\ Keeps /\ RoomFor(s, r.n)
  <2> DEFINE z == [s EXCEPT !.written = s.written + r.n + Overhead]
  <2>1. s.written \in 0 .. Budget + Overhead /\ s.written + r.n <= Budget
    BY <1>3 DEF RoomFor, Within
  <2>2. s.written + r.n + Overhead \in 0 .. Budget + Overhead
    BY <1>1, <2>1, BudgetType
  <2>3. Within(z, R) /\ z.rows = s.rows
    BY <2>2, Zenon DEF Within
  <2>4. Stored(s, r) = [z EXCEPT !.rows = z.rows \cup {r.row}]
    <3>1. Stored(s, r) = [s EXCEPT !.written = s.written + r.n + Overhead, !.rows = s.rows \cup {r.row}]
      BY <1>3 DEF Stored
    <3> QED
      BY <2>3, <3>1
  <2> HIDE DEF z
  <2>5. z.rows \cup {r.row} \in SUBSET R
    BY <1>3, <2>3 DEF Within
  <2> QED
    BY <2>3, <2>4, <2>5, Zenon DEF Within
<1>4. CASE r.ok /\ Keeps /\ ~RoomFor(s, r.n)
  <2>1. Stored(s, r) = [s EXCEPT !.stopped = TRUE]
    BY <1>4 DEF Stored
  <2> QED
    BY <2>1, Zenon DEF Within
<1> QED
  BY <1>2, <1>3, <1>4

LEMMA StoredAllWithin ==
  ASSUME NEW R, Within(store, R), NEW rs \in Seq(Answers),
         \A i \in DOMAIN rs : rs[i].ok => rs[i].row \in R
  PROVE  Within(StoredAll(rs), R)
<1> DEFINE n == Len(rs)
           f == CHOOSE g : StoresUpTo(rs, n, g)
<1>1. n \in Nat /\ DOMAIN rs = 1 .. n
  OBVIOUS
<1>2. StoredAll(rs) = f[1 .. n]
  <2>1. StoredAll(rs) = (CHOOSE g : g = [s \in SUBSET DOMAIN rs |->
                           IF s = {} THEN store ELSE Stored(g[s \ {Max(s)}], rs[Max(s)])])[DOMAIN rs]
    BY DEF StoredAll, FoldLeft, MapThenFoldSet
  <2> QED
    BY <1>1, <2>1 DEF StoresUpTo, StoredOf
<1>3. StoresUpTo(rs, n, f)
  <2> HIDE DEF n
  <2> QED
    BY <1>1, StoresAtAll
<1> HIDE DEF f, n
<1>4. \A s \in SUBSET (1 .. n) : f[s] = StoredOf(rs, f, s)
  BY <1>3 DEF StoresUpTo
<1>5. Within(f[1 .. 0], R)
  <2>1. 1 .. 0 = {} /\ 1 .. 0 \in SUBSET (1 .. n)
    OBVIOUS
  <2>2. f[1 .. 0] = store
    BY <1>4, <2>1 DEF StoredOf
  <2> QED
    BY <2>2
<1>6. ASSUME NEW k \in Nat, k + 1 <= n, Within(f[1 .. k], R)
      PROVE  Within(f[1 .. k + 1], R)
  <2> DEFINE S == 1 .. k + 1
  <2>1. S \in SUBSET (1 .. n) /\ S # {} /\ k + 1 \in S /\ k + 1 \in DOMAIN rs
    BY <1>1, <1>6
  <2>2. Max(S) = k + 1
    <3>1. Max(S) \in S /\ \A y \in S : y <= Max(S)
      <4>1. k + 1 \in Nat /\ S \in SUBSET (1 .. k + 1)
        OBVIOUS
      <4> HIDE DEF S
      <4> QED
        BY <2>1, <4>1, MaxUpTo
    <3>2. k + 1 <= Max(S) /\ Max(S) \in 1 .. k + 1
      BY <2>1, <3>1
    <3> QED
      BY <3>2
  <2>3. S \ {k + 1} = 1 .. k
    OBVIOUS
  <2>4. f[S] = Stored(f[1 .. k], rs[k + 1])
    <3> HIDE DEF S
    <3> QED
      BY <1>4, <2>1, <2>2, <2>3 DEF StoredOf
  <2>5. rs[k + 1] \in Answers /\ (rs[k + 1].ok => rs[k + 1].row \in R)
    BY <2>1
  <2> QED
    BY <1>6, <2>4, <2>5, StoredWithin
<1> DEFINE bad == {k \in 0 .. n : ~Within(f[1 .. k], R)}
<1>7. ASSUME bad # {} PROVE FALSE
  <2>1. PICK k \in bad : \A j \in bad : k <= j
    <3>1. bad \in SUBSET Nat
      BY <1>1
    <3> HIDE DEF bad
    <3> QED
      BY <1>7, <3>1, LeastNatural
  <2>2. k \in Nat /\ k <= n /\ k # 0 /\ k - 1 \in Nat /\ k - 1 \in 0 .. n
    BY <1>1, <1>5, <2>1
  <2>3. Within(f[1 .. k - 1], R)
    BY <2>1, <2>2
  <2>4. k = (k - 1) + 1
    BY <2>2
  <2>5. Within(f[1 .. k], R)
    <3>1. PICK j \in Nat : j = k - 1
      BY <2>2
    <3>2. k = j + 1
      BY <2>2, <3>1
    <3> QED
      BY <1>6, <2>2, <2>3, <3>1, <3>2
  <2> QED
    BY <2>1, <2>5
<1>8. Within(f[1 .. n], R)
  BY <1>1, <1>7
<1> QED
  BY <1>2, <1>8

-----------------------------------------------------------------------------
(* What is kept, and that it is of rows with a result, in every state. *)

RowsWithResult(ev) == {r \in DOMAIN ev : ev[r].result # None}

StoreInv == Within(store, RowsWithResult(events))

LEMMA StillWithin ==
  ASSUME NEW s, NEW R, NEW R1, R \subseteq R1, Within(s, R)
  PROVE  Within(s, R1)
<1>1. SUBSET R \subseteq SUBSET R1
  OBVIOUS
<1>2. [written : 0 .. Budget + Overhead, stopped : BOOLEAN, rows : SUBSET R]
        \subseteq [written : 0 .. Budget + Overhead, stopped : BOOLEAN, rows : SUBSET R1]
  BY <1>1, Zenon
<1> QED
  BY <1>2 DEF Within

(* No result is taken back, and nothing is stored. *)
LEMMA StoreKept ==
  ASSUME StoreInv, UNCHANGED store, DOMAIN events \subseteq DOMAIN events',
         \A r \in DOMAIN events : events'[r].result = events[r].result \/ events'[r].result # None
  PROVE  StoreInv'
<1>1. RowsWithResult(events) \subseteq RowsWithResult(events)'
  BY DEF RowsWithResult
<1>2. Within(store', RowsWithResult(events'))
  BY <1>1, StillWithin DEF StoreInv, RowsWithResult
<1> QED
  BY <1>2 DEF StoreInv, Within

(* A row has a result once an answer to it has been applied. *)
LEMMA AnsweredHaveResult ==
  ASSUME EventsInv, NEW k \in 0 .. Len(results), NEW i \in 1 .. k, results[i].ok
  PROVE  results[i].row \in RowsWithResult(Applied(SubSeq(results, 1, k)))
<1>1. PICK rs : rs = SubSeq(results, 1, k)
  OBVIOUS
<1>2. PICK r : r = results[i].row
  OBVIOUS
<1>3. rs \in Seq(Answers) /\ \A j \in DOMAIN rs : AnswerRight(rs[j], events)
  BY <1>1, SomeAnswers
<1>4. i \in DOMAIN rs /\ rs[i] = results[i]
  BY <1>1 DEF EventsInv, QueueTypes
<1>5. r \in DOMAIN events
  BY <1>2, <1>3, <1>4 DEF AnswerRight
<1> DEFINE of == {j \in DOMAIN rs : rs[j].row = r /\ rs[j].ok}
<1>6. Applied(rs)[r] = IF of = {} THEN events[r]
                       ELSE [events[r] EXCEPT !.result = rs[CHOOSE j \in of : TRUE].gen]
  BY <1>5 DEF Applied
<1>7. i \in of
  BY <1>2, <1>4
<1>8. PICK j \in of : j = (CHOOSE h \in of : TRUE)
  BY <1>7
<1>9. rs[j].gen \in Nat
  <2>1. rs[j] \in Answers
    BY <1>3
  <2> QED
    BY <2>1 DEF Answers
<1> HIDE DEF of
<1>10. Applied(rs)[r] = [events[r] EXCEPT !.result = rs[j].gen] /\ events[r] \in EventRows
  BY <1>5, <1>6, <1>7, <1>8, EventField DEF EventsInv
<1>11. Applied(rs)[r].result = rs[j].gen
  BY <1>10 DEF EventRows
<1>12. r \in RowsWithResult(Applied(rs))
  <2>1. DOMAIN Applied(rs) = DOMAIN events
    BY DEF Applied
  <2> QED
    BY <1>5, <1>9, <1>11, <2>1 DEF RowsWithResult, None
<1> QED
  BY <1>1, <1>2, <1>12, Zenon

(* What is stored is of answers that have been applied. *)
LEMMA StoreAnswers ==
  ASSUME EventsInv, StoreInv, NEW k \in 0 .. Len(results), NEW j \in 0 .. k,
         store' = StoredAll(SubSeq(results, 1, j)), events' = Applied(SubSeq(results, 1, k))
  PROVE  StoreInv'
<1>1. PICK R : R = RowsWithResult(events')
  OBVIOUS
<1>2. PICK rs : rs = SubSeq(results, 1, j)
  OBVIOUS
<1>3. RowsWithResult(events) \subseteq R
  BY <1>1, OnlyAnswered DEF RowsWithResult
<1>4. Within(store, R)
  BY <1>3, StillWithin DEF StoreInv
<1>5. j \in 0 .. Len(results) /\ j \in Nat /\ k \in Nat /\ results \in Seq(Answers)
  BY DEF EventsInv, QueueTypes
<1>6. rs \in Seq(Answers)
  BY <1>2, <1>5, SomeAnswers
<1>7. ASSUME NEW i \in DOMAIN rs, rs[i].ok
      PROVE  rs[i].row \in R
  <2>1. i \in 1 .. k /\ rs[i] = results[i]
    BY <1>2, <1>5
  <2>2. results[i].row \in RowsWithResult(Applied(SubSeq(results, 1, k)))
    BY <1>7, <2>1, AnsweredHaveResult
  <2>3. results[i].row \in RowsWithResult(events')
    BY <2>2, Zenon
  <2> QED
    BY <1>1, <2>1, <2>3
<1>8. Within(StoredAll(rs), R)
  BY <1>4, <1>6, <1>7, StoredAllWithin
<1>9. Within(store', RowsWithResult(events'))
  BY <1>1, <1>2, <1>8
<1> QED
  BY <1>9 DEF StoreInv, Within, RowsWithResult

LEMMA StoreInit == Init => StoreInv
<1> SUFFICES ASSUME Init PROVE StoreInv
  OBVIOUS
<1>1. store = [written |-> 0, stopped |-> FALSE, rows |-> {}]
  BY DEF Init
<1>2. 0 \in 0 .. Budget + Overhead
  BY BudgetType
<1> QED
  BY <1>1, <1>2, Zenon DEF StoreInv, Within

LEMMA StoreRaised == LoopInv /\ EventsInv /\ StoreInv /\ Raised => StoreInv'
<1> SUFFICES ASSUME LoopInv, EventsInv, StoreInv, Raised PROVE StoreInv'
  OBVIOUS
<1>1. CASE DiskRaises
  <2>1. PICK k \in DOMAIN results : /\ store' = StoredAll(SubSeq(results, 1, k - 1))
                                    /\ events' = Applied(SubSeq(results, 1, k))
    BY <1>1 DEF DiskRaises
  <2>2. k \in 0 .. Len(results) /\ k - 1 \in 0 .. k
    BY DEF EventsInv, QueueTypes
  <2> QED
    BY <2>1, <2>2, StoreAnswers
<1>2. CASE DbRaises /\ store' # store
  <2>1. PICK k \in 0 .. Len(results) : /\ store' = StoredAll(SubSeq(results, 1, k))
                                       /\ events' = Applied(SubSeq(results, 1, k))
    BY <1>2 DEF DbRaises
  <2>2. k \in 0 .. k
    OBVIOUS
  <2> QED
    BY <2>1, <2>2, StoreAnswers
<1>3. CASE RadioRaises \/ (DbRaises /\ store' = store)
  <2>1. UNCHANGED store
    BY <1>3 DEF RadioRaises
  <2>2. CASE UNCHANGED events
    BY <2>1, <2>2, StoreKept
  <2>3. CASE \E k \in 0 .. Len(results) : events' = Applied(SubSeq(results, 1, k))
    <3>1. PICK k \in 0 .. Len(results) : events' = Applied(SubSeq(results, 1, k))
      BY <2>3
    <3>2. DOMAIN events' = DOMAIN events
      BY <3>1, OnlyAnswered
    <3>3. \A r \in DOMAIN events : events'[r].result = events[r].result \/ events'[r].result # None
      BY <3>1, OnlyAnswered
    <3> QED
      BY <2>1, <3>2, <3>3, StoreKept
  <2>4. CASE \E done \in SUBSET InProgress : events' = RowsClosed(done)
    BY <2>1, <2>4, OnceRowsClosed, StoreKept
  <2> QED
    BY <2>2, <2>3, <2>4, RaisedRows
<1> QED
  BY <1>1, <1>2, <1>3 DEF Raised

LEMMA StoreNext == LoopInv /\ EventsInv /\ StoreInv /\ [Next]_vars => StoreInv'
<1> SUFFICES ASSUME LoopInv, EventsInv, StoreInv, [Next]_vars PROVE StoreInv'
  OBVIOUS
<1>1. CASE Frame \/ Collect
  <2>1. events' = Applied(results) /\ store' = StoredAll(results)
    BY <1>1 DEF Frame, Collect
  <2>2. PICK k : k = Len(results)
    OBVIOUS
  <2>3. results = SubSeq(results, 1, k) /\ k \in 0 .. Len(results) /\ k \in 0 .. k
    BY <2>2, SubSeqFull DEF EventsInv, QueueTypes
  <2>4. store' = StoredAll(SubSeq(results, 1, k)) /\ events' = Applied(SubSeq(results, 1, k))
    BY <2>1, <2>3, Zenon
  <2> QED
    BY <2>3, <2>4, StoreAnswers
<1>2. CASE Start
  <2>1. PICK row : events' = Append(events, row)
    BY <1>2 DEF Start
  <2>2. UNCHANGED store /\ DOMAIN events \subseteq DOMAIN events'
        /\ \A r \in DOMAIN events : events'[r] = events[r]
    BY <1>2, <2>1 DEF Start, FrameUnchanged, EventsInv, EventTypes
  <2> QED
    BY <2>2, StoreKept
<1>3. CASE AnalyseDue \/ AnalyseLast
  <2>1. UNCHANGED store
    BY <1>3 DEF AnalyseDue, AnalyseLast, FrameUnchanged
  <2>2. PICK ch, n : Analyse(ch, n)
    BY <1>3 DEF AnalyseDue, AnalyseLast
  <2>3. \/ UNCHANGED events
        \/ \E r, p : events' = [events EXCEPT ![r].parent = p]
    BY <2>2 DEF Analyse
  <2>4. DOMAIN events' = DOMAIN events
        /\ \A q \in DOMAIN events : events'[q].result = events[q].result
    <3>1. CASE \E r, p : events' = [events EXCEPT ![r].parent = p]
      <4>1. PICK r, p : events' = [events EXCEPT ![r].parent = p]
        BY <3>1
      <4>2. ASSUME NEW q \in DOMAIN events PROVE events'[q].result = events[q].result
        <5>1. events[q] \in EventRows
          BY EventField DEF EventsInv
        <5>2. [events[q] EXCEPT !.parent = p].result = events[q].result
          BY <5>1 DEF EventRows
        <5>3. events'[q] \in {events[q], [events[q] EXCEPT !.parent = p]}
          BY <4>1
        <5> QED
          BY <5>2, <5>3, Zenon
      <4> QED
        BY <4>1, <4>2
    <3> QED
      BY <2>3, <3>1
  <2> QED
    BY <2>1, <2>4, StoreKept
<1>4. CASE End
  <2>1. UNCHANGED store /\ DOMAIN events' = DOMAIN events
        /\ \A r \in DOMAIN events : events'[r].result = events[r].result
    BY <1>4 DEF End, FrameUnchanged
  <2> QED
    BY <2>1, StoreKept
<1>5. CASE CloseWindow \/ CloseLast
  <2>1. UNCHANGED store /\ events' = RowsClosed(InProgress)
    BY <1>5 DEF CloseWindow, CloseLast, Close
  <2>2. DOMAIN events' = DOMAIN events
        /\ \A r \in DOMAIN events : events'[r].result = events[r].result
    BY <2>1, OnceRowsClosed
  <2> QED
    BY <2>1, <2>2, StoreKept
<1>6. CASE Raised
  BY <1>6, StoreRaised
<1>7. CASE UNCHANGED <<events, store>>
  BY <1>7, StoreKept
<1>8. CASE StartUp \/ OpenWindow \/ CheckLinearity \/ LeaveWindow \/ ReadOverflow \/ ReadNothing
           \/ FrameShort
  <2>1. UNCHANGED <<events, store>>
    BY <1>8 DEF StartUp, Configure, StartRun, RegisterReceiver, StartStream, StartsUp, OpenWindow,
       CheckLinearity, Unchecked, ProbeGain, ProbeHearsNothing, SkipSweep, EndSweep,
       ProbeUnchanged, LeaveWindow, ReadOverflow, ReadNothing, FrameShort, LiveRead, Goes, dbVars
  <2> QED
    BY <1>7, <2>1
<1>9. CASE StopSeen \/ PutNone \/ Join \/ StopTimesOut \/ EndRun \/ Worker
  <2>1. UNCHANGED <<events, store>>
    BY <1>9 DEF StopSeen, PutNone, Join, StopTimesOut, EndRun, Worker, TakeJob, FinishJob,
       WorkerUnchanged, Goes, dbVars
  <2> QED
    BY <1>7, <2>1
<1>10. CASE Sigint \/ Interrupt \/ RadioDies \/ UNCHANGED vars
  <2>1. UNCHANGED <<events, store>>
    BY <1>10 DEF Sigint, Interrupt, RadioDies, vars, dbVars
  <2> QED
    BY <1>7, <2>1
<1> QED
  BY <1>1, <1>2, <1>3, <1>4, <1>5, <1>6, <1>8, <1>9, <1>10 DEF Next, Main, Done

(* What is kept on disk never takes more than the budget and the overhead  *)
(* of one file, however many results arrive at once, whichever of them     *)
(* cannot be written and whatever else fails; and every file is of an      *)
(* event that has its result.                                              *)
THEOREM KeptIsWithinBudget == Spec => []KeptWithinBudget
<1>1. Init => StoreInv
  BY StoreInit
<1>2. LoopInv /\ EventsInv /\ StoreInv /\ [Next]_vars => StoreInv'
  BY StoreNext
<1>3. StoreInv => KeptWithinBudget
  <2> SUFFICES ASSUME StoreInv PROVE KeptWithinBudget
    OBVIOUS
  <2>1. store.written \in 0 .. Budget + Overhead /\ store.rows \subseteq RowsWithResult(events)
    BY DEF StoreInv, Within
  <2>2. store.written <= Budget + Overhead
    BY <2>1, BudgetType
  <2>3. \A r \in store.rows : events[r].result # None
    BY <2>1 DEF RowsWithResult
  <2> QED
    BY <2>2, <2>3 DEF KeptWithinBudget
<1> QED
  BY <1>1, <1>2, <1>3, EventsInvariant, PTL DEF Spec
====
