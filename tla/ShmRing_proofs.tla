--------------------------- MODULE ShmRing_proofs ---------------------------
(***************************************************************************)
(* Proofs about ShmRing, for a ring and frames of any size and any number  *)
(* of samples and retunes.                                                 *)
(***************************************************************************)
EXTENDS ShmRing, TLAPS

-----------------------------------------------------------------------------
(* Arithmetic of the slots: within one lap of the ring no two indices have *)
(* the same slot.                                                          *)

LEMMA DivMod ==
  ASSUME NEW a \in Int, NEW b \in Nat \ {0}
  PROVE  a = b * (a \div b) + (a % b) /\ a % b \in 0 .. b - 1 /\ a \div b \in Int
OBVIOUS

LEMMA SmallMultiple ==
  ASSUME NEW c \in Int, NEW b \in Nat \ {0}, 0 <= b * c, b * c < b
  PROVE  c = 0
<1>1. c < 1
  <2>1. ASSUME c >= 1 PROVE b * c >= b * 1
    BY <2>1
  <2> QED
    BY <2>1
<1>2. c > -1
  <2>1. ASSUME c <= -1 PROVE b * c <= b * (-1)
    BY <2>1
  <2> QED
    BY <2>1
<1> QED
  BY <1>1, <1>2

LEMMA OneLap ==
  ASSUME NEW x \in Nat, NEW y \in Nat, x <= y, y < x + Capacity, Slot(x) = Slot(y)
  PROVE  x = y
<1> DEFINE c == (y \div Capacity) - (x \div Capacity)
<1>1. x = Capacity * (x \div Capacity) + (x % Capacity) /\ x \div Capacity \in Int
  BY DivMod, RingConstants
<1>2. y = Capacity * (y \div Capacity) + (y % Capacity) /\ y \div Capacity \in Int
  BY DivMod, RingConstants
<1>3. x % Capacity \in Int /\ x % Capacity = y % Capacity
  BY DivMod, RingConstants DEF Slot
<1>4. y - x = Capacity * c /\ c \in Int
  BY <1>1, <1>2, <1>3, RingConstants
<1>5. c = 0
  BY <1>4, SmallMultiple, RingConstants
<1> QED
  BY <1>4, <1>5, RingConstants

LEMMA SlotType == ASSUME NEW x \in Nat PROVE Slot(x) \in 0 .. Capacity - 1
BY DivMod, RingConstants DEF Slot

-----------------------------------------------------------------------------
(* The invariant.  What the reader ends up with depends on what was in     *)
(* memory while it copied, so the two properties are not inductive: the    *)
(* invariant says which samples are in memory (MemoryInv), what a job of   *)
(* the current generation would find there (JobInv), and what the reader   *)
(* has of it (OutInv).  Between the samples asked for and those of the     *)
(* frame being pushed there may be whole laps: Lap.                        *)

Lap(s, g, i, bound) ==
  s.gen = g /\ s.idx >= i /\ s.idx < bound /\ Slot(s.idx) = Slot(i)

Newest == IF writer.step = "push" THEN writer.to ELSE written

MemoryInv ==
  /\ writer.step # "push" => writer.left = {}
  /\ writer.step = "push" =>
       /\ written <= writer.to /\ writer.to <= written + MaxPush
       /\ \A i \in writer.left :
            written <= i /\ writer.to - Capacity <= i /\ i < writer.to
  /\ writer.step # "reset" =>
       \A x \in Nat :
         Newest - Capacity <= x /\ x < Newest /\ x \notin writer.left =>
           slot[Slot(x)] = Sample(generation, x)

JobInv ==
  /\ job.gen <= generation
  /\ job.gen = generation =>
       /\ writer.step # "reset"
       /\ job.start + job.n <= written
       /\ \A k \in 0 .. job.n - 1 :
            Lap(slot[Slot(job.start + k)], generation, job.start + k, written + MaxPush)

OutInv ==
  /\ reader.step \in {"asked", "check"} => DOMAIN out = {}
  /\ reader.step \in {"recheck", "returned"} => DOMAIN out = 0 .. job.n - 1
  /\ reader.step = "copy" /\ job.gen = generation =>
       \A k \in DOMAIN out : Lap(out[k], job.gen, job.start + k, written + MaxPush)
  /\ reader.step = "recheck" /\ job.gen = generation =>
       \A k \in DOMAIN out : Lap(out[k], job.gen, job.start + k, reader.count + MaxPush)
  /\ reader.step = "returned" =>
       \A k \in DOMAIN out : Lap(out[k], job.gen, job.start + k, reader.count + MaxPush)

RingInv == TypeOK /\ MemoryInv /\ JobInv /\ OutInv

-----------------------------------------------------------------------------
LEMMA SampleType == ASSUME NEW g \in Nat, NEW i \in Nat PROVE Sample(g, i) \in Samples
BY DEF Sample, Samples

LEMMA JobSlotType ==
  ASSUME TypeOK, NEW k \in 0 .. job.n - 1
  PROVE  job.start + k \in Nat /\ slot[Slot(job.start + k)] \in Samples
<1>1. job.start \in Nat /\ job.n \in Nat
  BY DEF TypeOK
<1>2. job.start + k \in Nat
  BY <1>1
<1> QED
  BY <1>2, SlotType DEF TypeOK

LEMMA RingInit == Init => RingInv
<1> SUFFICES ASSUME Init PROVE RingInv
  OBVIOUS
<1>1. NoSample \in Samples
  BY DEF NoSample, Sample, Samples
<1>2. TypeOK
  BY <1>1 DEF Init, TypeOK, Idle
<1>3. MemoryInv
  BY RingConstants DEF Init, MemoryInv, Idle, Newest
<1>4. JobInv
  BY DEF Init, JobInv, Idle
<1>5. OutInv
  BY DEF Init, OutInv
<1> QED
  BY <1>2, <1>3, <1>4, <1>5 DEF RingInv

LEMMA TypeNext == RingInv /\ [Next]_vars => TypeOK'
<1> SUFFICES ASSUME RingInv, [Next]_vars PROVE TypeOK'
  OBVIOUS
<1> USE DEF RingInv, TypeOK
<1>1. CASE BeginPush
  <2>1. PICK n \in 1 .. MaxPush :
          writer' = [step |-> "push", to |-> written + n,
                     left |-> (IF n >= Capacity THEN written + n - Capacity ELSE written)
                                .. written + n - 1]
    BY <1>1 DEF BeginPush
  <2>2. n \in Nat /\ written + n - Capacity \in Int /\ written + n \in Nat
    BY RingConstants
  <2>3. (IF n >= Capacity THEN written + n - Capacity ELSE written) \in Nat
    BY <2>2, RingConstants
  <2>4. writer' \in [step : {"idle", "push", "reset"}, left : SUBSET Nat, to : Nat]
    BY <2>1, <2>2, <2>3
  <2> QED
    BY <1>1, <2>4 DEF BeginPush
<1>2. CASE CopyIn
  <2>1. PICK i \in writer.left :
          /\ slot' = [slot EXCEPT ![Slot(i)] = Sample(generation, i)]
          /\ writer' = [writer EXCEPT !.left = @ \ {i}]
    BY <1>2 DEF CopyIn
  <2>2. i \in Nat /\ Sample(generation, i) \in Samples
    BY SampleType
  <2>3. slot' \in [0 .. Capacity - 1 -> Samples]
    BY <2>1, <2>2, SlotType
  <2> QED
    BY <1>2, <2>1, <2>3 DEF CopyIn
<1>3. CASE EndPush
  BY <1>3 DEF EndPush, Idle
<1>4. CASE Reset
  BY <1>4 DEF Reset
<1>5. CASE ResetCount
  BY <1>5 DEF ResetCount, Idle
<1>6. CASE NewJob
  BY <1>6, RingConstants DEF NewJob
<1>7. CASE Asked
  BY <1>7 DEF Asked, ReadCount
<1>8. CASE Check
  BY <1>8 DEF Check, ReadGeneration
<1>9. CASE CopyOut
  <2>1. PICK k \in 0 .. job.n - 1 :
          out' = [j \in DOMAIN out \cup {k} |->
                    IF j = k THEN slot[Slot(job.start + k)] ELSE out[j]]
    BY <1>9 DEF CopyOut
  <2>2. slot[Slot(job.start + k)] \in Samples
    BY JobSlotType
  <2> QED
    BY <1>9, <2>1, <2>2 DEF CopyOut
<1>10. CASE Copied
  BY <1>10 DEF Copied, ReadCount
<1>11. CASE Recheck
  BY <1>11 DEF Recheck, ReadGeneration
<1>12. CASE Analysed
  BY <1>12 DEF Analysed
<1>13. CASE UNCHANGED vars
  BY <1>13 DEF vars
<1> QED
  BY <1>1, <1>2, <1>3, <1>4, <1>5, <1>6, <1>7, <1>8, <1>9, <1>10, <1>11, <1>12, <1>13
     DEF Next, Writer, Reader

-----------------------------------------------------------------------------
(* Writer. *)

LEMMA BeginPushStep == RingInv /\ BeginPush => MemoryInv' /\ JobInv' /\ OutInv'
<1> SUFFICES ASSUME RingInv, BeginPush PROVE MemoryInv' /\ JobInv' /\ OutInv'
  OBVIOUS
<1> USE DEF RingInv, TypeOK
<1>1. PICK n \in 1 .. MaxPush :
        writer' = [step |-> "push", to |-> written + n,
                   left |-> (IF n >= Capacity THEN written + n - Capacity ELSE written)
                              .. written + n - 1]
  BY DEF BeginPush
<1>2. writer.step = "idle" /\ UNCHANGED <<slot, written, generation, job, reader, out>>
  BY DEF BeginPush
<1>3. /\ writer'.step = "push" /\ writer'.to = written + n
      /\ \A i \in Nat : i \in writer'.left <=>
           written <= i /\ written + n - Capacity <= i /\ i < written + n
  BY <1>1, RingConstants
<1>4. writer'.left \subseteq Nat
  BY <1>1, RingConstants
<1>5. MemoryInv'
  <2>1. ASSUME NEW x \in Nat, written + n - Capacity <= x, x < written + n,
               x \notin writer'.left
        PROVE  slot[Slot(x)] = Sample(generation, x)
    <3>1. x < written /\ written - Capacity <= x
      BY <1>3, <2>1, RingConstants
    <3> QED
      BY <1>2, <3>1 DEF MemoryInv, Newest
  <2>2. written <= written + n /\ written + n <= written + MaxPush
    BY RingConstants
  <2>3. Newest' = written + n
    BY <1>3 DEF Newest
  <2> QED
    <3>1. ASSUME NEW x \in Nat, Newest' - Capacity <= x, x < Newest', x \notin writer'.left
          PROVE  slot'[Slot(x)] = Sample(generation', x)
      <4>1. slot' = slot /\ generation' = generation
        BY <1>2
      <4>2. written + n - Capacity <= x /\ x < written + n
        BY <2>3, <3>1, RingConstants
      <4> QED
        BY <2>1, <3>1, <4>1, <4>2
    <3>2. writer'.step = "push" /\ writer'.to = written + n /\ written' = written
      BY <1>2, <1>3
    <3>3. ASSUME NEW i \in writer'.left
          PROVE  written' <= i /\ writer'.to - Capacity <= i /\ i < writer'.to
      <4>1. i \in Nat
        BY <1>4
      <4>2. written <= i /\ written + n - Capacity <= i /\ i < written + n
        BY <1>3, <4>1
      <4> QED
        BY <3>2, <4>2, RingConstants, <4>1
    <3>4. written' <= writer'.to /\ writer'.to <= written' + MaxPush
      BY <2>2, <3>2
    <3> HIDE DEF RingInv, TypeOK
    <3> QED
      BY <3>1, <3>2, <3>3, <3>4 DEF MemoryInv
<1>6. JobInv' /\ OutInv'
  BY <1>2, <1>3 DEF JobInv, OutInv
<1> QED
  BY <1>5, <1>6

LEMMA CopyInStep == RingInv /\ CopyIn => MemoryInv' /\ JobInv' /\ OutInv'
<1> SUFFICES ASSUME RingInv, CopyIn PROVE MemoryInv' /\ JobInv' /\ OutInv'
  OBVIOUS
<1> USE DEF RingInv, TypeOK
<1>1. PICK i \in writer.left :
        /\ slot' = [slot EXCEPT ![Slot(i)] = Sample(generation, i)]
        /\ writer' = [writer EXCEPT !.left = @ \ {i}]
  BY DEF CopyIn
<1>2. writer.step = "push" /\ UNCHANGED <<written, generation, job, reader, out>>
  BY DEF CopyIn
<1>3. i \in Nat /\ written <= i /\ writer.to - Capacity <= i /\ i < writer.to
      /\ writer.to <= written + MaxPush
  BY <1>2 DEF MemoryInv
<1>4. slot'[Slot(i)] = Sample(generation, i) /\ Slot(i) \in 0 .. Capacity - 1
  BY <1>1, <1>3, SlotType
<1>5. \A x \in Nat : Slot(x) # Slot(i) => slot'[Slot(x)] = slot[Slot(x)]
  BY <1>1, <1>3, SlotType
<1>6. MemoryInv'
  <2>1. ASSUME NEW x \in Nat, writer.to - Capacity <= x, x < writer.to,
               x \notin writer.left \ {i}
        PROVE  slot'[Slot(x)] = Sample(generation, x)
    <3>1. CASE x = i
      BY <1>4, <3>1
    <3>2. CASE x # i
      <4>1. Slot(x) # Slot(i)
        BY <1>3, <2>1, <3>2, OneLap, RingConstants
      <4>2. slot[Slot(x)] = Sample(generation, x)
        BY <1>2, <2>1, <3>2 DEF MemoryInv, Newest
      <4> QED
        BY <1>5, <4>1, <4>2
    <3> QED
      BY <3>1, <3>2
  <2> QED
    BY <1>1, <1>2, <2>1 DEF MemoryInv, Newest
<1>7. JobInv'
  <2>1. ASSUME job.gen = generation, NEW k \in 0 .. job.n - 1
        PROVE  Lap(slot'[Slot(job.start + k)], generation, job.start + k, written + MaxPush)
    <3>1. job.start + job.n <= written /\ job.start + k \in Nat
      BY <2>1 DEF JobInv
    <3>2. CASE Slot(job.start + k) = Slot(i)
      BY <1>3, <1>4, <2>1, <3>1, <3>2, RingConstants DEF Lap, Sample
    <3>3. CASE Slot(job.start + k) # Slot(i)
      BY <1>5, <2>1, <3>1, <3>3 DEF JobInv
    <3> QED
      BY <3>2, <3>3
  <2> QED
    BY <1>1, <1>2, <2>1 DEF JobInv
<1>8. OutInv'
  BY <1>2 DEF OutInv
<1> QED
  BY <1>6, <1>7, <1>8

(* Moving the count only widens what JobInv and OutInv allow. *)
LEMMA LapWiden ==
  ASSUME NEW s \in Samples, NEW g, NEW i, NEW b \in Int, NEW c \in Int, b <= c, Lap(s, g, i, b)
  PROVE  Lap(s, g, i, c)
BY DEF Lap, Samples

LEMMA EndPushStep == RingInv /\ EndPush => MemoryInv' /\ JobInv' /\ OutInv'
<1> SUFFICES ASSUME RingInv, EndPush PROVE MemoryInv' /\ JobInv' /\ OutInv'
  OBVIOUS
<1> USE DEF RingInv, TypeOK
<1>1. /\ writer.step = "push" /\ writer.left = {} /\ written' = writer.to
      /\ writer'.step = "idle" /\ writer'.left = {}
      /\ UNCHANGED <<slot, generation, job, reader, out>>
  BY DEF EndPush, Idle
<1>2. written <= written' /\ written \in Nat /\ written' \in Nat
  BY <1>1 DEF MemoryInv
<1>3. MemoryInv'
  BY <1>1 DEF MemoryInv, Newest
<1>4. JobInv'
  <2>1. ASSUME job.gen = generation, NEW k \in 0 .. job.n - 1
        PROVE  Lap(slot[Slot(job.start + k)], generation, job.start + k, written' + MaxPush)
    <3>1. slot[Slot(job.start + k)] \in Samples
      BY JobSlotType
    <3> QED
      BY <1>2, <2>1, <3>1, LapWiden, RingConstants DEF JobInv
  <2> QED
    BY <1>1, <1>2, <2>1 DEF JobInv
<1>5. OutInv'
  <2>1. ASSUME reader.step = "copy", job.gen = generation, NEW k \in DOMAIN out
        PROVE  Lap(out[k], job.gen, job.start + k, written' + MaxPush)
    BY <1>2, <2>1, LapWiden, RingConstants DEF OutInv
  <2> QED
    BY <1>1, <2>1 DEF OutInv
<1> QED
  BY <1>3, <1>4, <1>5

LEMMA ResetStep == RingInv /\ (Reset \/ ResetCount) => MemoryInv' /\ JobInv' /\ OutInv'
<1> SUFFICES ASSUME RingInv, Reset \/ ResetCount PROVE MemoryInv' /\ JobInv' /\ OutInv'
  OBVIOUS
<1> USE DEF RingInv, TypeOK
<1>1. CASE Reset
  <2>1. /\ writer'.step = "reset" /\ writer'.left = {} /\ generation' = generation + 1
        /\ UNCHANGED <<slot, written, job, reader, out>>
    BY <1>1 DEF Reset, MemoryInv
  <2>2. job.gen < generation'
    BY <2>1 DEF JobInv
  <2> QED
    BY <2>1, <2>2 DEF MemoryInv, JobInv, OutInv
<1>2. CASE ResetCount
  <2>1. /\ writer.step = "reset" /\ writer'.step = "idle" /\ writer'.left = {} /\ written' = 0
        /\ UNCHANGED <<slot, generation, job, reader, out>>
    BY <1>2 DEF ResetCount, Idle
  <2>2. job.gen < generation
    BY <2>1 DEF JobInv
  <2> QED
    BY <2>1, <2>2 DEF MemoryInv, JobInv, OutInv, Newest
<1> QED
  BY <1>1, <1>2

-----------------------------------------------------------------------------
(* A new job, and the reader. *)

LEMMA NewJobStep == RingInv /\ NewJob => MemoryInv' /\ JobInv' /\ OutInv'
<1> SUFFICES ASSUME RingInv, NewJob PROVE MemoryInv' /\ JobInv' /\ OutInv'
  OBVIOUS
<1> USE DEF RingInv, TypeOK
<1>1. PICK start \in 0 .. MaxWritten, n \in 0 .. MaxWritten :
        /\ Holds(start, n, written)
        /\ job' = [gen |-> generation, start |-> start, n |-> n]
  BY DEF NewJob
<1>2. /\ writer.step = "idle" /\ UNCHANGED <<slot, written, generation, writer>>
      /\ reader'.step = "asked" /\ DOMAIN out' = {}
  BY DEF NewJob
<1>3. MemoryInv'
  BY <1>2 DEF MemoryInv, Newest
<1>4. ASSUME NEW k \in 0 .. n - 1
      PROVE  Lap(slot[Slot(start + k)], generation, start + k, written + MaxPush)
  <2>1. start + k \in Nat /\ written - Capacity <= start + k /\ start + k < written
    BY <1>1, RingConstants DEF Holds
  <2>2. slot[Slot(start + k)] = Sample(generation, start + k)
    BY <1>2, <2>1 DEF MemoryInv, Newest
  <2> QED
    BY <2>1, <2>2, RingConstants DEF Lap, Sample
<1>5. JobInv'
  BY <1>1, <1>2, <1>4 DEF JobInv, Holds
<1>6. OutInv'
  BY <1>2 DEF OutInv
<1> QED
  BY <1>3, <1>5, <1>6

LEMMA CopyOutStep == RingInv /\ CopyOut => OutInv'
<1> SUFFICES ASSUME RingInv, CopyOut PROVE OutInv'
  OBVIOUS
<1> USE DEF RingInv, TypeOK
<1>1. PICK k \in 0 .. job.n - 1 :
        out' = [j \in DOMAIN out \cup {k} |->
                  IF j = k THEN slot[Slot(job.start + k)] ELSE out[j]]
  BY DEF CopyOut
<1>2. reader.step = "copy" /\ UNCHANGED <<slot, written, generation, job, reader>>
  BY DEF CopyOut
<1>3. ASSUME job.gen = generation, NEW j \in DOMAIN out'
      PROVE  Lap(out'[j], job.gen, job.start + j, written + MaxPush)
  <2>1. CASE j = k
    BY <1>1, <1>3, <2>1 DEF JobInv
  <2>2. CASE j # k
    BY <1>1, <1>2, <1>3, <2>2 DEF OutInv
  <2> QED
    BY <2>1, <2>2
<1> QED
  BY <1>2, <1>3 DEF OutInv

LEMMA ReaderStep == RingInv /\ Reader => MemoryInv' /\ JobInv' /\ OutInv'
<1> SUFFICES ASSUME RingInv, Reader PROVE MemoryInv' /\ JobInv' /\ OutInv'
  OBVIOUS
<1> USE DEF RingInv, TypeOK
<1>1. UNCHANGED <<slot, written, generation, writer, job>>
  BY DEF Reader, Asked, Check, CopyOut, Copied, Recheck, Analysed, ReadCount, ReadGeneration
<1>2. MemoryInv' /\ JobInv'
  BY <1>1 DEF MemoryInv, JobInv, Newest
<1>3. CASE Asked
  <2>1. reader.step = "asked" /\ reader'.step = "check" /\ out' = out
    BY <1>3 DEF Asked, ReadCount
  <2> QED
    BY <1>2, <2>1 DEF OutInv
<1>4. CASE Check
  <2>1. reader.step = "check" /\ reader'.step \in {"copy", "idle"} /\ out' = out
    BY <1>4 DEF Check, ReadGeneration
  <2> QED
    BY <1>2, <2>1 DEF OutInv
<1>5. CASE CopyOut
  BY <1>2, <1>5, CopyOutStep
<1>6. CASE Copied
  <2>1. /\ reader.step = "copy" /\ reader'.step = "recheck" /\ reader'.count = written
        /\ DOMAIN out = 0 .. job.n - 1 /\ out' = out
    BY <1>6 DEF Copied, ReadCount
  <2> QED
    BY <1>1, <1>2, <2>1 DEF OutInv
<1>7. CASE Recheck
  <2>1. /\ reader.step = "recheck" /\ reader'.count = reader.count /\ out' = out
        /\ \/ reader'.step = "idle"
           \/ reader'.step = "returned" /\ job.gen = generation
    BY <1>7 DEF Recheck, ReadGeneration, Held
  <2> QED
    BY <1>1, <1>2, <2>1 DEF OutInv
<1>8. CASE Analysed
  <2>1. reader'.step = "idle"
    BY <1>8 DEF Analysed
  <2> QED
    BY <1>2, <2>1 DEF OutInv
<1> QED
  BY <1>2, <1>3, <1>4, <1>5, <1>6, <1>7, <1>8 DEF Reader

-----------------------------------------------------------------------------
LEMMA RingNext == RingInv /\ [Next]_vars => RingInv'
<1> SUFFICES ASSUME RingInv, [Next]_vars PROVE RingInv'
  OBVIOUS
<1>1. TypeOK'
  BY TypeNext
<1>2. CASE UNCHANGED vars
  BY <1>1, <1>2 DEF vars, RingInv, MemoryInv, JobInv, OutInv, Newest
<1>3. CASE Next
  BY <1>1, <1>3, BeginPushStep, CopyInStep, EndPushStep, ResetStep, NewJobStep, ReaderStep
     DEF Next, Writer, RingInv
<1> QED
  BY <1>2, <1>3

LEMMA RingInvariant == Spec => []RingInv
BY RingInit, RingNext, PTL DEF Spec

(* A copy that is returned is all of the band its job was cut in, however  *)
(* the retunes and frames of the engine interleave with the copying.       *)
THEOREM OwnBandHolds == Spec => []OwnBand
<1>1. RingInv => OwnBand
  BY DEF RingInv, OutInv, OwnBand, Lap
<1> QED
  BY <1>1, RingInvariant, PTL

(* With one frame of margin it is exactly the samples asked for. *)
THEOREM CleanWithMarginHolds == Spec => []CleanWithMargin
<1>1. ASSUME RingInv, reader.step = "returned",
             reader.count + MaxPush <= job.start + Capacity, NEW k \in 0 .. job.n - 1
      PROVE  out[k] = Sample(job.gen, job.start + k)
  <2> USE DEF RingInv, TypeOK
  <2>1. Lap(out[k], job.gen, job.start + k, reader.count + MaxPush) /\ out[k] \in Samples
    BY <1>1 DEF OutInv
  <2>2. out[k].idx \in Nat /\ job.start + k \in Nat
    BY <1>1, <2>1 DEF Lap, Samples
  <2>3. out[k].idx < job.start + k + Capacity
    <3>1. out[k].idx < reader.count + MaxPush
      BY <2>1 DEF Lap
    <3>2. job.start \in Nat /\ job.n \in Nat /\ reader.count \in Nat
      BY <1>1
    <3>3. k \in Nat /\ Capacity \in Nat /\ MaxPush \in Nat
      BY <3>2, RingConstants
    <3>4. reader.count + MaxPush <= job.start + Capacity
      BY <1>1
    <3> HIDE DEF RingInv, TypeOK
    <3> QED
      BY <2>2, <3>1, <3>2, <3>3, <3>4
  <2>4. out[k].idx = job.start + k
    BY <2>1, <2>2, <2>3, OneLap, RingConstants DEF Lap
  <2> QED
    BY <2>1, <2>4 DEF Lap, Samples, Sample
<1>2. RingInv => CleanWithMargin
  BY <1>1 DEF CleanWithMargin
<1> QED
  BY <1>2, RingInvariant, PTL

(* Between pushes the ring has every sample holds() promises, pushes of    *)
(* more than it holds included.                                            *)
THEOREM HasWhatItHoldsAlways == Spec => []HasWhatItHolds
<1>1. ASSUME RingInv, writer.step = "idle", NEW i \in 0 .. written - 1,
             i + Capacity >= written
      PROVE  slot[Slot(i)] = Sample(generation, i)
  <2>1. /\ written \in Nat /\ i \in Nat /\ Newest = written /\ writer.left = {}
        /\ written - Capacity <= i /\ i < written
    BY <1>1, RingConstants DEF RingInv, TypeOK, MemoryInv, Newest
  <2> QED
    BY <1>1, <2>1 DEF RingInv, MemoryInv
<1>2. RingInv => HasWhatItHolds
  BY <1>1 DEF HasWhatItHolds
<1> QED
  BY <1>2, RingInvariant, PTL
=============================================================================
