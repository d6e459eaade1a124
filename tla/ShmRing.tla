------------------------------ MODULE ShmRing ------------------------------
(***************************************************************************)
(* The sample ring in shared memory.  The dsp thread of the engine writes, *)
(* without ever waiting; the analysis process of the orchestrator maps the *)
(* same file, copies a slice when it gets to the job, and decides from the *)
(* header, read before and after, whether the copy is good.                *)
(*                                                                         *)
(* A sample is the pair of its generation (retunes so far) and its index   *)
(* in that generation.  Every load and store of the header is one step,    *)
(* every sample is copied in and out in a step of its own and in no        *)
(* particular order.  Steps take effect in program order, which the code   *)
(* leaves to the processor (it uses no atomics).                           *)
(***************************************************************************)
EXTENDS Integers

CONSTANTS
  Capacity,   \* samples the ring holds
  MaxPush,    \* the most samples one push() brings, a frame
  MaxWritten, \* bound: samples of one generation
  MaxGen      \* bound: generations

ASSUME RingConstants ==
  /\ Capacity \in Nat \ {0} /\ MaxPush \in Nat \ {0}
  /\ MaxWritten \in Nat /\ MaxGen \in Nat

VARIABLES
  slot,       \* the samples in memory
  written,    \* header: samples written in this generation
  generation, \* header: bumped on every reset
  writer,     \* what the writer is doing: step, indices left to copy, new count
  job,        \* the slice asked for
  reader,     \* what the reader is doing, and the count it read last
  out         \* the samples copied so far, by offset

vars == <<slot, written, generation, writer, job, reader, out>>

Sample(g, i) == [gen |-> g, idx |-> i]
NoSample     == Sample(0, -1)
Slot(i)      == i % Capacity
Idle         == [step |-> "idle", left |-> {}, to |-> 0]

-----------------------------------------------------------------------------
(* Writer: push() and reset(), on the dsp thread. *)

(* Mutant: what does not fit before the end of the ring is not copied. *)
BeginPushUnwrapped ==
  /\ writer.step = "idle"
  /\ \E n \in 1 .. MaxPush :
       LET from == IF n >= Capacity THEN written + n - Capacity ELSE written
       IN /\ written + n <= MaxWritten
          /\ writer' = [step |-> "push",
                        left |-> {i \in from .. written + n - 1 : Slot(from) <= Slot(i)},
                        to |-> written + n]
  /\ UNCHANGED <<slot, written, generation, job, reader, out>>

(* A push of more than the ring holds skips what it would overwrite. *)
BeginPush ==
  /\ writer.step = "idle"
  /\ \E n \in 1 .. MaxPush :
       LET from == IF n >= Capacity THEN written + n - Capacity ELSE written
       IN /\ written + n <= MaxWritten
          /\ writer' = [step |-> "push", left |-> from .. written + n - 1,
                        to |-> written + n]
  /\ UNCHANGED <<slot, written, generation, job, reader, out>>

CopyIn ==
  /\ writer.step = "push"
  /\ \E i \in writer.left :
       /\ slot' = [slot EXCEPT ![Slot(i)] = Sample(generation, i)]
       /\ writer' = [writer EXCEPT !.left = @ \ {i}]
  /\ UNCHANGED <<written, generation, job, reader, out>>

EndPush ==
  /\ writer.step = "push"
  /\ writer.left = {}
  /\ written' = writer.to
  /\ writer' = Idle
  /\ UNCHANGED <<slot, generation, job, reader, out>>

(* Generation first, then the count. *)
Reset ==
  /\ writer.step = "idle"
  /\ generation < MaxGen
  /\ generation' = generation + 1
  /\ writer' = [writer EXCEPT !.step = "reset"]
  /\ UNCHANGED <<slot, written, job, reader, out>>

ResetCount ==
  /\ writer.step = "reset"
  /\ written' = 0
  /\ writer' = Idle
  /\ UNCHANGED <<slot, generation, job, reader, out>>

Writer == BeginPush \/ CopyIn \/ EndPush \/ Reset \/ ResetCount

-----------------------------------------------------------------------------
(* A job is cut between pushes, from samples the ring holds. *)

Holds(start, n, count) == n > 0 /\ start + n <= count /\ start + Capacity >= count

NewJob ==
  /\ writer.step = "idle"
  /\ reader.step = "idle"
  /\ \E start, n \in 0 .. MaxWritten :
       /\ Holds(start, n, written)
       /\ job' = [gen |-> generation, start |-> start, n |-> n]
  /\ reader' = [step |-> "asked", count |-> 0]
  /\ out' = [k \in {} |-> NoSample]
  /\ UNCHANGED <<slot, written, generation, writer>>

-----------------------------------------------------------------------------
(* Reader: read_ring(), in the analysis process. *)

(* held() reads the count, then the generation. *)
ReadCount(from, to) ==
  /\ reader.step = from
  /\ reader' = [step |-> to, count |-> written]
  /\ UNCHANGED <<slot, written, generation, writer, job, out>>

(* Mutant: a copy is not checked against the generation. *)
HeldAnyGeneration == Holds(job.start, job.n, reader.count)

Held == generation = job.gen /\ Holds(job.start, job.n, reader.count)

ReadGeneration(from, to) ==
  /\ reader.step = from
  /\ reader' = [reader EXCEPT !.step = IF Held THEN to ELSE "idle"]
  /\ UNCHANGED <<slot, written, generation, writer, job, out>>

Asked  == ReadCount("asked", "check")
Check  == ReadGeneration("check", "copy")

CopyOut ==
  /\ reader.step = "copy"
  /\ \E k \in 0 .. job.n - 1 :
       /\ k \notin DOMAIN out
       /\ out' = [j \in DOMAIN out \cup {k} |->
                    IF j = k THEN slot[Slot(job.start + k)] ELSE out[j]]
  /\ UNCHANGED <<slot, written, generation, writer, job, reader>>

(* Mutant: what was copied is not checked again. *)
CopiedUnchecked ==
  /\ DOMAIN out = 0 .. job.n - 1
  /\ reader.step = "copy"
  /\ reader' = [step |-> "returned", count |-> written]
  /\ UNCHANGED <<slot, written, generation, writer, job, out>>

Copied == /\ DOMAIN out = 0 .. job.n - 1
          /\ ReadCount("copy", "recheck")

Recheck == ReadGeneration("recheck", "returned")

(* The analysis is over, and the worker takes its next job. *)
Analysed ==
  /\ reader.step = "returned"
  /\ reader' = [reader EXCEPT !.step = "idle"]
  /\ UNCHANGED <<slot, written, generation, writer, job, out>>

Reader == Asked \/ Check \/ CopyOut \/ Copied \/ Recheck \/ Analysed

-----------------------------------------------------------------------------
Init ==
  /\ slot = [s \in 0 .. Capacity - 1 |-> NoSample]
  /\ written = 0 /\ generation = 0
  /\ writer = Idle
  /\ job = [gen |-> 0, start |-> 0, n |-> 0]
  /\ reader = [step |-> "idle", count |-> 0]
  /\ out = [k \in {} |-> NoSample]

Next == Writer \/ NewJob \/ Reader

Spec == Init /\ [][Next]_vars

-----------------------------------------------------------------------------
(* Properties. *)

Samples == [gen : Nat, idx : Nat \cup {-1}]

TypeOK ==
  /\ slot \in [0 .. Capacity - 1 -> Samples]
  /\ written \in Nat /\ generation \in Nat
  /\ writer \in [step : {"idle", "push", "reset"}, left : SUBSET Nat, to : Nat]
  /\ job \in [gen : Nat, start : Nat, n : Nat]
  /\ reader \in [step : {"idle", "asked", "check", "copy", "recheck", "returned"},
                 count : Nat]
  /\ DOMAIN out \subseteq 0 .. job.n - 1
  /\ \A k \in DOMAIN out : out[k] \in Samples

(* Between pushes the ring has every sample holds() promises: the latest   *)
(* Capacity of this generation, however long the pushes that brought them. *)
HasWhatItHolds ==
  writer.step = "idle" =>
    \A i \in 0 .. written - 1 :
      i + Capacity >= written => slot[Slot(i)] = Sample(generation, i)

(* The samples the reader returns were all received in the window the job  *)
(* was cut in: a retune can make a copy fail, never mix two bands.         *)
OwnBand ==
  reader.step = "returned" =>
    \A k \in 0 .. job.n - 1 : out[k].gen = job.gen

(* They are the samples asked for, if the count read after the copy left   *)
(* room for one more push: held() accepts a slice that begins a whole ring *)
(* behind, whose start a push in progress may already have overwritten.    *)
CleanWithMargin ==
  reader.step = "returned" /\ reader.count + MaxPush <= job.start + Capacity =>
    \A k \in 0 .. job.n - 1 : out[k] = Sample(job.gen, job.start + k)
=============================================================================
