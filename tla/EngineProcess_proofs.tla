------------------------ MODULE EngineProcess_proofs ------------------------
(***************************************************************************)
(* Proof about EngineProcess, for any bounds of the channel and of the     *)
(* pipe and whatever fails: an orderly exit has said everything.           *)
(***************************************************************************)
EXTENDS EngineProcess, SequenceTheorems, TLAPS

-----------------------------------------------------------------------------
(* The invariant.  A line that was said is taken, in the pipe, in the      *)
(* writer's buffer or in its channel, in that order; the writer waits with *)
(* an empty buffer, and is gone only when nobody is left who could say     *)
(* more; what dsp says last is the reason it returns with.                 *)

Line == {"ready", "line", "eof", "stall", "error"}
Told == {"frame", "stop", "eof", "stall"}

Then(s, t) == s \o t

Types ==
  /\ said \in Seq(Line) /\ taken \in Seq(Line) /\ pipe \in Seq(Line)
  /\ buffer \in Seq(Line) /\ lines \in Seq(Line)
  /\ toDsp \in Seq(Told)

Flow == exit.by # "fatal" => Then(taken, Then(pipe, Then(buffer, lines))) = said

Waiting ==
  /\ writer \in {"unborn", "locking", "recv", "gone"} => buffer = <<>>
  /\ writer = "gone" => lines = <<>> /\ main = "dropped"
  /\ main = "dropped" => dsp = "gone"
  /\ main \in {"parse", "spawn", "source"} => dsp = "unborn"
  /\ main \in {"parse", "spawn"} => writer = "unborn"

LastWord == dsp = "gone" => said # <<>> /\ (code = 3 <=> said[Len(said)] = "stall")

Orderly == exit.by = "main" => writer = "gone" /\ exit.code = code

ProcessInv == Types /\ Flow /\ Waiting /\ LastWord /\ Orderly

-----------------------------------------------------------------------------
(* Lines move along, and new ones come in at the end. *)

LEMMA ThenAssociative ==
  /\ \A a, b \in Seq(Line) : Then(a, b) \in Seq(Line)
  /\ \A a, b, c \in Seq(Line) : Then(Then(a, b), c) = Then(a, Then(b, c))
<1>1. ASSUME NEW a \in Seq(Line), NEW b \in Seq(Line) PROVE Then(a, b) \in Seq(Line)
  BY ConcatProperties DEF Then
<1>2. ASSUME NEW a \in Seq(Line), NEW b \in Seq(Line), NEW c \in Seq(Line)
      PROVE  Then(Then(a, b), c) = Then(a, Then(b, c))
  BY ConcatAssociative DEF Then
<1> QED
  BY <1>1, <1>2

(* The first line of t goes to the end of s. *)
LEMMA MoveOn ==
  ASSUME NEW s \in Seq(Line), NEW t \in Seq(Line), t # <<>>
  PROVE  /\ Append(s, Head(t)) \in Seq(Line) /\ Tail(t) \in Seq(Line)
         /\ Then(Append(s, Head(t)), Tail(t)) = Then(s, t)
         /\ \A u \in Seq(Line) :
              Then(Append(s, Head(t)), Then(Tail(t), u)) = Then(s, Then(t, u))
<1>1. Head(t) \in Line /\ Tail(t) \in Seq(Line) /\ <<Head(t)>> \in Seq(Line)
  BY HeadTailProperties
<1>2. Append(s, Head(t)) \in Seq(Line) /\ Append(s, Head(t)) = Then(s, <<Head(t)>>)
  BY <1>1, AppendProperties, AppendIsConcat DEF Then
<1>3. t = Then(<<Head(t)>>, Tail(t))
  <2>1. Len(t) \in Nat /\ Len(t) > 0 /\ t \in [1 .. Len(t) -> Line]
    BY EmptySeq, LenProperties
  <2>2. /\ <<Head(t)>> \o Tail(t) \in Seq(Line)
        /\ Len(<<Head(t)>> \o Tail(t)) = Len(t)
        /\ \A i \in 1 .. Len(t) : (<<Head(t)>> \o Tail(t))[i] = t[i]
    BY <1>1, <2>1, HeadTailProperties, ConcatProperties
  <2> QED
    BY <2>1, <2>2, SeqEqual DEF Then
<1> DEFINE h == <<Head(t)>>
           a == Append(s, Head(t))
           r == Tail(t)
<1>4. /\ s \in Seq(Line) /\ t \in Seq(Line) /\ h \in Seq(Line) /\ r \in Seq(Line)
      /\ a = Then(s, h) /\ t = Then(h, r)
  BY <1>1, <1>2, <1>3
<1> HIDE DEF h, a, r
<1>5. Then(a, r) = Then(s, t)
  BY ONLY <1>4, ThenAssociative
<1>6. ASSUME NEW u \in Seq(Line)
      PROVE  Then(a, Then(r, u)) = Then(s, Then(t, u))
  BY ONLY <1>4, u \in Seq(Line), ThenAssociative
<1> QED
  BY <1>1, <1>2, <1>5, <1>6 DEF a, r

(* Lines said are the last. *)
LEMMA SaidLast ==
  ASSUME NEW s \in Seq(Line), NEW t \in Seq(Line), NEW u \in Seq(Line),
         NEW v \in Seq(Line), NEW w \in Seq(Line)
  PROVE  Then(s, Then(t, Then(u, Then(v, w)))) = Then(Then(s, Then(t, Then(u, v))), w)
BY ThenAssociative

(* The steps of a thread that says one line. *)
LEMMA SayStep ==
  ASSUME ProcessInv, NEW l \in Line, Say(<<l>>), UNCHANGED <<taken, pipe, buffer, exit>>
  PROVE  /\ said' \in Seq(Line) /\ lines' \in Seq(Line) /\ Flow'
         /\ said' # <<>> /\ said'[Len(said')] = l
<1>1. <<l>> \in Seq(Line) /\ Types
  BY DEF ProcessInv
<1>2. /\ said' = said \o <<l>> /\ lines' = lines \o <<l>>
      /\ said' \in Seq(Line) /\ lines' \in Seq(Line)
  BY <1>1, ConcatProperties DEF Say, Types
<1>3. said' # <<>> /\ said'[Len(said')] = l
  BY <1>1, <1>2, AppendIsConcat, AppendProperties DEF Types
<1>4. Flow'
  <2> DEFINE last == <<l>>
  <2>1. /\ said' = Then(said, last) /\ lines' = Then(lines, last) /\ last \in Seq(Line)
        /\ taken' = taken /\ pipe' = pipe /\ buffer' = buffer /\ exit' = exit
    BY <1>1, <1>2 DEF Then
  <2> HIDE DEF last
  <2>2. SUFFICES ASSUME exit.by # "fatal"
                 PROVE  Then(taken, Then(pipe, Then(buffer, Then(lines, last))))
                        = Then(said, last)
    BY <2>1 DEF Flow
  <2>3. /\ taken \in Seq(Line) /\ pipe \in Seq(Line) /\ buffer \in Seq(Line)
        /\ lines \in Seq(Line) /\ last \in Seq(Line)
        /\ Then(taken, Then(pipe, Then(buffer, lines))) = said
    BY <1>1, <2>1, <2>2 DEF ProcessInv, Types, Flow
  <2> QED
    BY ONLY <2>3, SaidLast
<1> QED
  BY <1>2, <1>3, <1>4

-----------------------------------------------------------------------------
(* Each thread keeps the invariant. *)

LEMMA InvInit == Init => ProcessInv
<1> SUFFICES ASSUME Init PROVE ProcessInv
  OBVIOUS
<1>1. Types /\ Waiting /\ LastWord /\ Orderly
  BY DEF Init, Types, Waiting, LastWord, Orderly, No
<1>2. Flow
  BY DEF Init, Flow, Then
<1> QED
  BY <1>1, <1>2 DEF ProcessInv

LEMMA MainStep == ProcessInv /\ (Main \/ MainFails) => ProcessInv'
<1> SUFFICES ASSUME ProcessInv, Main \/ MainFails PROVE ProcessInv'
  OBVIOUS
<1> USE DEF ProcessInv
<1>1. CASE Parse \/ SpawnWriter \/ Drop \/ Exit \/ MainFails
  <2>1. UNCHANGED <<said, taken, pipe, buffer, lines, toDsp, dsp, code>>
    BY <1>1 DEF Parse, SpawnWriter, Drop, Exit, MainFails
  <2>2. Types' /\ LastWord'
    BY <2>1 DEF Types, LastWord
  <2>3. exit' = exit \/ exit'.by = "main"
    BY <1>1 DEF Parse, SpawnWriter, Drop, Exit, MainFails
  <2>4. Flow'
    BY <1>1, <2>1, <2>3 DEF Flow, Exit, Parse, SpawnWriter, Drop, MainFails, Up, No
  <2>5. \/ main = "parse" /\ main' = "spawn" /\ writer' = writer
        \/ main = "spawn" /\ main' = "source" /\ writer' = "locking"
        \/ main \in {"parse", "source"} /\ main' = "fatal" /\ writer' = writer
        \/ main' = "dropped" /\ dsp = "gone" /\ writer' = writer
        \/ main' = main /\ writer' = writer
    BY <1>1 DEF Parse, SpawnWriter, Drop, Exit, MainFails
  <2>6. Waiting'
    <3>1. Waiting /\ buffer' = buffer /\ lines' = lines /\ dsp' = dsp
      BY <2>1
    <3> QED
      BY ONLY <2>5, <3>1 DEF Waiting
  <2>7. Orderly'
    BY <1>1, <2>1 DEF Orderly, Parse, SpawnWriter, Drop, Exit, MainFails, Up, No
  <2> QED
    BY <2>2, <2>4, <2>6, <2>7
<1>2. CASE Ready
  <2>1. /\ Say(<<"ready">>) /\ UNCHANGED <<taken, pipe, buffer, exit, toDsp, writer, code>>
        /\ main = "source" /\ main' = "joining" /\ dsp' = "run"
    BY <1>2 DEF Ready
  <2>2. said' \in Seq(Line) /\ lines' \in Seq(Line) /\ Flow'
    BY <2>1, SayStep DEF Line
  <2>3. Types'
    BY <2>1, <2>2 DEF Types
  <2>4. Waiting' /\ LastWord' /\ Orderly'
    BY <2>1 DEF Waiting, LastWord, Orderly
  <2> QED
    BY <2>2, <2>3, <2>4
<1> QED
  BY <1>1, <1>2 DEF Main

LEMMA WriterStep == ProcessInv /\ Writer => ProcessInv'
<1> SUFFICES ASSUME ProcessInv, Writer PROVE ProcessInv'
  OBVIOUS
<1> USE DEF ProcessInv
<1>1. CASE Lock \/ Drained \/ FlushFails \/ WriterEnds
  <2>1. UNCHANGED <<said, taken, pipe, buffer, lines, toDsp, dsp, code, main>>
    BY <1>1 DEF Lock, Drained, FlushFails, WriterEnds
  <2>2. Types' /\ LastWord'
    BY <2>1 DEF Types, LastWord
  <2>3. Flow'
    BY <1>1, <2>1 DEF Flow, Lock, Drained, FlushFails, WriterEnds, Up, No
  <2>4. Waiting' /\ Orderly'
    BY <1>1, <2>1 DEF Waiting, Orderly, Lock, Drained, FlushFails, WriterEnds, Up, No
  <2> QED
    BY <2>2, <2>3, <2>4
<1>2. CASE TakeLine
  <2>1. /\ lines # <<>> /\ buffer' = Append(buffer, Head(lines)) /\ lines' = Tail(lines)
        /\ writer \in {"recv", "drain"} /\ writer' = "drain" /\ exit = No
        /\ UNCHANGED <<said, taken, pipe, toDsp, dsp, code, main, exit>>
    BY <1>2 DEF TakeLine, Up
  <2>2. /\ buffer' \in Seq(Line) /\ lines' \in Seq(Line)
        /\ Then(buffer', lines') = Then(buffer, lines)
    BY <2>1, MoveOn DEF Types
  <2> QED
    BY <2>1, <2>2 DEF Types, Flow, Waiting, LastWord, Orderly, No
<1>3. CASE Flush
  <2>1. /\ writer = "flush" /\ exit = No
        /\ UNCHANGED <<said, taken, lines, toDsp, dsp, code, main, exit>>
    BY <1>3 DEF Flush, Up
  <2>2. CASE buffer = <<>>
    BY <1>3, <2>1, <2>2 DEF Flush, Types, Flow, Waiting, LastWord, Orderly, No
  <2>3. CASE buffer # <<>>
    <3>1. pipe' = Append(pipe, Head(buffer)) /\ buffer' = Tail(buffer) /\ writer' = writer
      BY <1>3, <2>3 DEF Flush
    <3>2. /\ pipe' \in Seq(Line) /\ buffer' \in Seq(Line)
          /\ Then(pipe', Then(buffer', lines)) = Then(pipe, Then(buffer, lines))
      BY <2>3, <3>1, MoveOn DEF Types
    <3> QED
      BY <2>1, <3>1, <3>2 DEF Types, Flow, Waiting, LastWord, Orderly, No
  <2> QED
    BY <2>2, <2>3
<1> QED
  BY <1>1, <1>2, <1>3 DEF Writer

LEMMA StreamStep == ProcessInv /\ (Reader \/ ReaderFails \/ Dsp) => ProcessInv'
<1> SUFFICES ASSUME ProcessInv, Reader \/ ReaderFails \/ Dsp PROVE ProcessInv'
  OBVIOUS
<1> USE DEF ProcessInv
<1>1. CASE Reader \/ ReaderFails
  <2>1. UNCHANGED <<said, taken, pipe, buffer, lines, dsp, code, main, writer, exit>>
    BY <1>1 DEF Reader, ReadFrame, ReaderEnds, ReaderFails
  <2>2. toDsp' = toDsp \/ \E m \in Told : toDsp' = Append(toDsp, m)
    BY <1>1 DEF Reader, ReadFrame, ReaderEnds, ReaderFails, Told
  <2>3. toDsp' \in Seq(Told)
    <3>1. toDsp \in Seq(Told)
      BY DEF Types
    <3>2. ASSUME NEW m \in Told, toDsp' = Append(toDsp, m) PROVE toDsp' \in Seq(Told)
      BY <3>1, <3>2, AppendProperties
    <3> QED
      BY <2>2, <3>1, <3>2
  <2> QED
    BY <2>1, <2>3 DEF Types, Flow, Waiting, LastWord, Orderly
<1>2. CASE Dsp
  <2>1. /\ dsp = "run" /\ toDsp # <<>> /\ toDsp' = Tail(toDsp) /\ exit = No
        /\ UNCHANGED <<taken, pipe, buffer, main, writer, exit>>
    BY <1>2 DEF Dsp, Up
  <2>2. Head(toDsp) \in Told /\ toDsp' \in Seq(Told)
    BY <2>1, HeadTailProperties DEF Types
  <2>3. PICK l \in Line :
           /\ Say(<<l>>)
           /\ \/ UNCHANGED <<dsp, code>>
              \/ dsp' = "gone" /\ code' = IF l = "stall" THEN 3 ELSE 0
    BY <1>2, <2>2 DEF Dsp, Told, Line
  <2>4. said' \in Seq(Line) /\ lines' \in Seq(Line) /\ Flow'
        /\ said' # <<>> /\ said'[Len(said')] = l
    BY <2>1, <2>3, SayStep
  <2>5. Types'
    BY <2>1, <2>2, <2>4 DEF Types
  <2>6. Waiting' /\ LastWord' /\ Orderly'
    BY <2>1, <2>3, <2>4 DEF Waiting, LastWord, Orderly, No
  <2> QED
    BY <2>4, <2>5, <2>6
<1> QED
  BY <1>1, <1>2

LEMMA OutsideStep ==
  ProcessInv /\ (Fatal \/ Take \/ SayStop \/ Die \/ UNCHANGED vars) => ProcessInv'
<1> SUFFICES ASSUME ProcessInv, Fatal \/ Take \/ SayStop \/ Die \/ UNCHANGED vars
             PROVE  ProcessInv'
  OBVIOUS
<1> USE DEF ProcessInv
<1>1. CASE SayStop \/ Die \/ UNCHANGED vars
  BY <1>1 DEF SayStop, Die, vars, Types, Flow, Waiting, LastWord, Orderly
<1>2. CASE Fatal
  <2>1. /\ pipe' \in {pipe, Append(pipe, "error")} /\ exit'.by = "fatal"
        /\ UNCHANGED <<said, taken, buffer, lines, toDsp, dsp, code, main, writer>>
    BY <1>2 DEF Fatal
  <2>2. pipe' \in Seq(Line)
    BY <2>1, AppendProperties DEF Types, Line
  <2> QED
    BY <2>1, <2>2 DEF Types, Flow, Waiting, LastWord, Orderly
<1>3. CASE Take
  <2>1. /\ pipe # <<>> /\ taken' = Append(taken, Head(pipe)) /\ pipe' = Tail(pipe)
        /\ UNCHANGED <<said, buffer, lines, toDsp, dsp, code, main, writer, exit>>
    BY <1>3 DEF Take
  <2>2. Then(buffer, lines) \in Seq(Line)
    BY ThenAssociative DEF Types
  <2>3. /\ taken' \in Seq(Line) /\ pipe' \in Seq(Line)
        /\ Then(taken', Then(pipe', Then(buffer, lines))) =
              Then(taken, Then(pipe, Then(buffer, lines)))
    BY <2>1, <2>2, MoveOn DEF Types
  <2> QED
    BY <2>1, <2>3 DEF Types, Flow, Waiting, LastWord, Orderly
<1> QED
  BY <1>1, <1>2, <1>3

LEMMA InvStep == ProcessInv /\ [Next]_vars => ProcessInv'
BY MainStep, WriterStep, StreamStep, OutsideStep DEF Next

-----------------------------------------------------------------------------
(* When main() ends the process, every line that was said is in the pipe   *)
(* or taken from it, in order, and the status is of the last.              *)
THEOREM ExitHasSaidAll == Spec => []ExitSaysAll
<1>1. ProcessInv => ExitSaysAll
  <2> SUFFICES ASSUME ProcessInv, exit.by = "main"
               PROVE  /\ taken \o pipe = said
                      /\ exit.code = 3 <=> said[Len(said)] = "stall"
    BY DEF ExitSaysAll
  <2>1. writer = "gone" /\ buffer = <<>> /\ lines = <<>> /\ dsp = "gone" /\ exit.code = code
    BY DEF ProcessInv, Orderly, Waiting
  <2>2. Then(buffer, lines) = <<>> /\ Then(pipe, <<>>) = pipe
    BY <2>1, ConcatEmptySeq DEF ProcessInv, Types, Then
  <2>3. Then(taken, pipe) = said
    BY <2>1, <2>2 DEF ProcessInv, Flow
  <2> QED
    BY <2>1, <2>3 DEF ProcessInv, LastWord, Then
<1> QED
  BY <1>1, InvInit, InvStep, PTL DEF Spec
=============================================================================
