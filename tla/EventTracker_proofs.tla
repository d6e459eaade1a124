------------------------ MODULE EventTracker_proofs ------------------------
(***************************************************************************)
(* Proofs about EventTracker, for any number of channels, thresholds,      *)
(* durations and frame lengths: it implements Squelch, and the events of a *)
(* channel are disjoint and in order.                                      *)
(***************************************************************************)
EXTENDS EventTracker, TLAPS

FrameSet == Definition!FrameSet

-----------------------------------------------------------------------------
(* The invariant.  The counters are the lengths of the current runs of hot *)
(* and of cold frames, recent is the end of the list of frames, and every  *)
(* edge of an event is the start of a frame outside the run that would     *)
(* decide the next edge.                                                   *)

(* k is the number of frames at the end of fs that have the property P[i]. *)
RunOf(k, n, P) ==
  /\ k \in 0 .. n
  /\ \A i \in n - k + 1 .. n : P[i]
  /\ k < n => ~P[n - k]

HotAt(fs, c)  == [i \in 1 .. Len(fs) |-> c \in fs[i].hot]
ColdAt(fs, c) == [i \in 1 .. Len(fs) |-> c \in fs[i].cold]

Counters ==
  \A c \in Channels : /\ RunOf(above[c], Len(frames), HotAt(frames, c))
                      /\ RunOf(below[c], Len(frames), ColdAt(frames, c))

Memory ==
  /\ Len(recent) = IF Len(frames) < RecentMax THEN Len(frames) ELSE RecentMax
  /\ \A i \in 1 .. Len(recent) : recent[i] = frames[Len(frames) - Len(recent) + i].at

Dates ==
  /\ \A i, j \in 1 .. Len(frames) : i < j => frames[i].at < frames[j].at
  /\ \A i \in 1 .. Len(frames) : frames[i].at < written
  /\ \A i \in 1 .. Len(frames) : frames[i].hot \cap frames[i].cold = {}

Edges ==
  \A c \in Channels :
    /\ c \in active =>
         \E i \in 1 .. Len(frames) - below[c] : from[c] = frames[i].at /\ until[c] < from[c]
    /\ c \notin active =>
         \/ from[c] = -1 /\ until[c] = -1
         \/ \E j \in 1 .. Len(frames) - above[c] : until[c] = frames[j].at /\ from[c] < until[c]

TrackerInv ==
  TypeOK /\ frames \in Seq(FrameSet) /\ Counters /\ Memory /\ Dates /\ Edges

-----------------------------------------------------------------------------
(* A run grows by one frame that has the property, or is over. *)
LEMMA RunGrows ==
  ASSUME NEW n \in Nat, NEW k \in Nat, NEW P, NEW Q, RunOf(k, n, P),
         \A i \in 1 .. n : Q[i] = P[i]
  PROVE  RunOf(IF Q[n + 1] THEN k + 1 ELSE 0, n + 1, Q)
<1>1. CASE Q[n + 1]
  <2>1. k + 1 \in 0 .. n + 1
    BY DEF RunOf
  <2>2. ASSUME NEW i \in (n + 1) - (k + 1) + 1 .. n + 1 PROVE Q[i]
    BY <1>1, <2>2 DEF RunOf
  <2>3. k + 1 < n + 1 => ~Q[(n + 1) - (k + 1)]
    BY DEF RunOf
  <2> QED
    BY <1>1, <2>1, <2>2, <2>3 DEF RunOf
<1>2. CASE ~Q[n + 1]
  BY <1>2 DEF RunOf
<1> QED
  BY <1>1, <1>2

(* A run of at least m frames is a suffix of m frames. *)
LEMMA RunReaches ==
  ASSUME NEW n \in Nat, NEW k, NEW P, RunOf(k, n, P), NEW m \in Nat \ {0}
  PROVE  k >= m <=> n >= m /\ \A i \in n - m + 1 .. n : P[i]
<1>1. ASSUME k >= m PROVE n >= m /\ \A i \in n - m + 1 .. n : P[i]
  BY <1>1 DEF RunOf
<1>2. ASSUME n >= m, \A i \in n - m + 1 .. n : P[i], ~(k >= m) PROVE FALSE
  <2>1. k \in Nat /\ k < n /\ n - k \in n - m + 1 .. n
    BY <1>2 DEF RunOf
  <2> QED
    BY <1>2, <2>1 DEF RunOf
<1> QED
  BY <1>1, <1>2

-----------------------------------------------------------------------------
(* One frame. *)

TheFrame(snr) == [at |-> written, hot |-> Hot(snr), cold |-> Cold(snr), top |-> LocalMax(snr)]

LEMMA FrameAppended ==
  ASSUME TrackerInv, NEW snr, NEW n \in FrameLengths, Update(snr, n)
  PROVE  /\ frames' \in Seq(FrameSet)
         /\ Len(frames) \in Nat /\ Len(frames') = Len(frames) + 1
         /\ \A i \in 1 .. Len(frames) : frames'[i] = frames[i]
         /\ frames'[Len(frames) + 1] = TheFrame(snr)
         /\ TheFrame(snr) \in FrameSet
<1>1. TheFrame(snr) \in FrameSet
  BY DEF TheFrame, FrameSet, Definition!FrameSet, TrackerInv, TypeOK, Hot, Cold, LocalMax
<1>2. frames \in Seq(FrameSet) /\ frames' = Append(frames, TheFrame(snr))
  BY DEF TrackerInv, Update, TheFrame
<1> QED
  BY <1>1, <1>2

LEMMA CountersStep ==
  ASSUME TrackerInv, NEW snr, NEW n \in FrameLengths, Update(snr, n), NEW c \in Channels
  PROVE  /\ RunOf(above'[c], Len(frames'), HotAt(frames', c))
         /\ RunOf(below'[c], Len(frames'), ColdAt(frames', c))
         /\ above'[c] = Above(snr, c) /\ below'[c] = Below(snr, c)
<1> DEFINE N == Len(frames)
<1>1. /\ N \in Nat /\ Len(frames') = N + 1
      /\ \A i \in 1 .. N : frames'[i] = frames[i]
      /\ frames'[N + 1] = TheFrame(snr)
  BY FrameAppended
<1>2. above[c] \in Nat /\ below[c] \in Nat
  BY DEF TrackerInv, TypeOK
<1>3. above'[c] = Above(snr, c) /\ below'[c] = Below(snr, c)
  BY DEF Update
<1> HIDE DEF N
<1>4. RunOf(above'[c], N + 1, HotAt(frames', c))
  <2> DEFINE P == HotAt(frames, c)
             Q == HotAt(frames', c)
  <2>1. \A i \in 1 .. N : Q[i] = P[i]
    BY <1>1 DEF HotAt, N
  <2>2. Q[N + 1] = (c \in Hot(snr))
    BY <1>1 DEF HotAt, TheFrame
  <2>3. RunOf(above[c], N, P)
    BY DEF TrackerInv, Counters, N
  <2> HIDE DEF P, Q
  <2>4. RunOf(IF Q[N + 1] THEN above[c] + 1 ELSE 0, N + 1, Q)
    BY <1>1, <1>2, <2>1, <2>2, <2>3, RunGrows
  <2>5. (IF Q[N + 1] THEN above[c] + 1 ELSE 0) = above'[c]
    BY <1>3, <2>2 DEF Above
  <2> QED
    BY <2>4, <2>5 DEF Q
<1>5. RunOf(below'[c], N + 1, ColdAt(frames', c))
  <2> DEFINE P == ColdAt(frames, c)
             Q == ColdAt(frames', c)
  <2>1. \A i \in 1 .. N : Q[i] = P[i]
    BY <1>1 DEF ColdAt, N
  <2>2. Q[N + 1] = (c \in Cold(snr))
    BY <1>1 DEF ColdAt, TheFrame
  <2>3. RunOf(below[c], N, P)
    BY DEF TrackerInv, Counters, N
  <2> HIDE DEF P, Q
  <2>4. RunOf(IF Q[N + 1] THEN below[c] + 1 ELSE 0, N + 1, Q)
    BY <1>1, <1>2, <2>1, <2>2, <2>3, RunGrows
  <2>5. (IF Q[N + 1] THEN below[c] + 1 ELSE 0) = below'[c]
    BY <1>3, <2>2 DEF Below
  <2> QED
    BY <2>4, <2>5 DEF Q
<1> QED
  BY <1>1, <1>3, <1>4, <1>5

(* What the counters say is what Squelch says. *)
LEMMA CountersDecide ==
  ASSUME TrackerInv, NEW snr, NEW n \in FrameLengths, Update(snr, n), NEW c \in Channels
  PROVE  /\ Above(snr, c) >= MinFrames <=> Definition!HotFor(frames', c, MinFrames)
         /\ Below(snr, c) >= HangFrames <=> Definition!ColdFor(frames', c, HangFrames)
<1> DEFINE M == Len(frames')
<1>1. M \in Nat
  BY FrameAppended
<1>2. /\ RunOf(Above(snr, c), M, HotAt(frames', c))
      /\ RunOf(Below(snr, c), M, ColdAt(frames', c))
  BY CountersStep
<1> HIDE DEF M
<1>3. Above(snr, c) >= MinFrames <=>
        M >= MinFrames /\ \A i \in M - MinFrames + 1 .. M : HotAt(frames', c)[i]
  BY <1>1, <1>2, RunReaches, TrackerConstants
<1>4. Below(snr, c) >= HangFrames <=>
        M >= HangFrames /\ \A i \in M - HangFrames + 1 .. M : ColdAt(frames', c)[i]
  BY <1>1, <1>2, RunReaches, TrackerConstants
<1>5. ASSUME M >= MinFrames, NEW i \in M - MinFrames + 1 .. M
      PROVE  HotAt(frames', c)[i] = (c \in frames'[i].hot)
  BY <1>1, <1>5, TrackerConstants DEF HotAt, M
<1>6. ASSUME M >= HangFrames, NEW i \in M - HangFrames + 1 .. M
      PROVE  ColdAt(frames', c)[i] = (c \in frames'[i].cold)
  BY <1>1, <1>6, TrackerConstants DEF ColdAt, M
<1> QED
  BY <1>3, <1>4, <1>5, <1>6 DEF Definition!HotFor, Definition!ColdFor, M

(* The short memory reaches as far back as either edge needs. *)
LEMMA MemoryStep ==
  ASSUME TrackerInv, NEW snr, NEW n \in FrameLengths, Update(snr, n)
  PROVE  /\ Memory' /\ recent' \in Seq(Nat) /\ Len(recent') <= RecentMax
         /\ \A m \in 1 .. RecentMax : m <= Len(frames') =>
              FramesAgo(recent', m - 1) = frames'[Len(frames') - m + 1].at
<1> DEFINE N == Len(frames)
           R == Len(recent)
           t == Append(recent, written)
<1>1. /\ N \in Nat /\ Len(frames') = N + 1
      /\ \A i \in 1 .. N : frames'[i] = frames[i]
      /\ frames'[N + 1].at = written
  <2>1. TheFrame(snr).at = written
    BY DEF TheFrame
  <2> QED
    BY <2>1, FrameAppended
<1>2. /\ recent \in Seq(Nat) /\ R \in Nat /\ written \in Nat
      /\ R = (IF N < RecentMax THEN N ELSE RecentMax)
      /\ \A i \in 1 .. R : recent[i] = frames[N - R + i].at
  BY DEF TrackerInv, TypeOK, Memory
<1>3. RecentMax \in Nat \ {0}
  BY TrackerConstants DEF RecentMax
<1>4. recent' = IF Len(t) > RecentMax THEN Tail(t) ELSE t
  BY DEF Update, Pushed
<1>5. /\ t \in Seq(Nat) /\ Len(t) = R + 1 /\ t[R + 1] = written
      /\ \A i \in 1 .. R : t[i] = recent[i]
  BY <1>2
<1>6. ASSUME NEW i \in 1 .. R + 1
      PROVE  t[i] = frames'[N - R + i].at
  <2>1. CASE i = R + 1
    BY <1>1, <1>2, <1>5, <2>1
  <2>2. CASE i \in 1 .. R
    <3>1. N - R + i \in 1 .. N
      BY <1>1, <1>2, <1>3, <2>2
    <3> QED
      BY <1>1, <1>2, <1>5, <2>2, <3>1
  <2> QED
    BY <1>2, <2>1, <2>2
<1> HIDE DEF N, R, t
<1>9. N \in Int /\ R \in Int
  BY <1>1, <1>2
<1>7. CASE R + 1 > RecentMax
  <2>1. recent' = Tail(t) /\ R = RecentMax
    BY <1>2, <1>3, <1>4, <1>5, <1>7
  <2>2. recent' \in Seq(Nat) /\ Len(recent') = R /\ \A i \in 1 .. R : recent'[i] = t[i + 1]
    BY <1>2, <1>3, <1>5, <2>1
  <2>3. ASSUME NEW i \in 1 .. R PROVE recent'[i] = frames'[(N + 1) - R + i].at
    <3>1. i \in Int /\ i + 1 \in 1 .. R + 1
      BY <1>2, <2>3
    <3>2. N - R + (i + 1) = (N + 1) - R + i
      BY <1>9, <3>1
    <3> QED
      BY <1>6, <2>2, <3>1, <3>2
  <2>4. ASSUME NEW m \in 1 .. RecentMax, m <= N + 1
        PROVE  FramesAgo(recent', m - 1) = frames'[(N + 1) - m + 1].at
    <3>0. m \in Int /\ 1 <= m /\ m <= R
      BY <1>3, <2>1
    <3>1. R - (m - 1) \in 1 .. R /\ ~(m - 1 >= R)
      BY <1>9, <3>0
    <3>3. (N + 1) - R + (R - (m - 1)) = (N + 1) - m + 1
      BY <1>9, <3>0
    <3>2. FramesAgo(recent', m - 1) = recent'[R - (m - 1)]
      BY <2>2, <3>1 DEF FramesAgo
    <3> QED
      BY <2>3, <3>1, <3>2, <3>3
  <2>5. Memory'
    <3>1. ~(N + 1 < RecentMax) /\ Len(frames') = N + 1
      BY <1>1, <1>2, <1>3, <1>9, <2>1
    <3> QED
      BY <2>1, <2>2, <2>3, <3>1 DEF Memory
  <2>6. Len(frames') = N + 1 /\ Len(recent') <= RecentMax
    BY <1>1, <1>3, <2>1, <2>2
  <2> QED
    BY <2>2, <2>4, <2>5, <2>6
<1>8. CASE ~(R + 1 > RecentMax)
  <2>1. recent' = t /\ R = N
    BY <1>2, <1>3, <1>4, <1>5, <1>8
  <2>2. ASSUME NEW i \in 1 .. N + 1 PROVE recent'[i] = frames'[i].at
    <3>1. i \in 1 .. R + 1 /\ N - R + i = i
      BY <1>1, <2>1
    <3> QED
      BY <1>6, <2>1, <3>1
  <2>3. recent' \in Seq(Nat) /\ Len(recent') = N + 1
    BY <1>5, <2>1
  <2>4. ASSUME NEW m \in 1 .. RecentMax, m <= N + 1
        PROVE  FramesAgo(recent', m - 1) = frames'[(N + 1) - m + 1].at
    <3>0. m \in Int /\ 1 <= m /\ m <= N + 1
      BY <1>3, <2>4
    <3>1. /\ (N + 1) - m + 1 \in 1 .. N + 1 /\ (N + 1) - (m - 1) = (N + 1) - m + 1
          /\ ~(m - 1 >= N + 1)
      BY <1>9, <3>0
    <3>2. FramesAgo(recent', m - 1) = recent'[(N + 1) - (m - 1)]
      BY <2>3, <3>1 DEF FramesAgo
    <3> QED
      BY <2>2, <3>1, <3>2
  <2>6. Len(frames') = N + 1 /\ N + 1 <= RecentMax
    BY <1>1, <1>3, <1>8, <1>9, <2>1
  <2>5. Memory'
    <3>1. (N + 1) = IF N + 1 < RecentMax THEN N + 1 ELSE RecentMax
      BY <1>3, <1>9, <2>6
    <3>2. \A i \in 1 .. N + 1 : (N + 1) - (N + 1) + i = i
      BY <1>9
    <3> QED
      BY <2>2, <2>3, <2>6, <3>1, <3>2 DEF Memory
  <2> QED
    BY <2>3, <2>4, <2>5, <2>6
<1> QED
  BY <1>2, <1>3, <1>7, <1>8

LEMMA DatesStep ==
  ASSUME TrackerInv, NEW snr \in [Channels -> Levels], NEW n \in FrameLengths, Update(snr, n)
  PROVE  Dates'
<1> DEFINE N == Len(frames)
<1>1. /\ N \in Nat /\ Len(frames') = N + 1
      /\ \A i \in 1 .. N : frames'[i] = frames[i]
      /\ frames'[N + 1] = TheFrame(snr)
  BY FrameAppended
<1>2. /\ \A i, j \in 1 .. N : i < j => frames[i].at < frames[j].at
      /\ \A i \in 1 .. N : frames[i].at < written
      /\ \A i \in 1 .. N : frames[i].hot \cap frames[i].cold = {}
  BY DEF TrackerInv, Dates
<1>3. /\ TheFrame(snr).at = written
      /\ TheFrame(snr).hot = Hot(snr) /\ TheFrame(snr).cold = Cold(snr)
  BY DEF TheFrame
<1>4. written \in Nat /\ n \in Nat \ {0} /\ written' = written + n
  BY TrackerConstants DEF TrackerInv, TypeOK, Update
<1>5. \A i \in 1 .. N : frames[i].at \in Nat
  <2>1. \A i \in 1 .. N : frames[i] \in FrameSet
    BY DEF TrackerInv
  <2>2. \A f \in FrameSet : f.at \in Nat
    BY DEF FrameSet, Definition!FrameSet
  <2> QED
    BY <2>1, <2>2
<1>6. Hot(snr) \cap Cold(snr) = {}
  <2> SUFFICES ASSUME NEW c \in Channels, snr[c] >= OnDb, snr[c] < OffDb PROVE FALSE
    BY DEF Hot, Cold
  <2>1. snr[c] \in Int
    BY TrackerConstants
  <2> QED
    BY <2>1, TrackerConstants
<1> HIDE DEF N
<1>7. \A i \in 1 .. N + 1 : i \in 1 .. N \/ i = N + 1
  BY <1>1
<1>8. ASSUME NEW i \in 1 .. N + 1, NEW j \in 1 .. N + 1, i < j
      PROVE  frames'[i].at < frames'[j].at
  <2>1. i \in 1 .. N
    BY <1>1, <1>8
  <2>2. CASE j \in 1 .. N
    BY <1>1, <1>2, <1>8, <2>1, <2>2
  <2>3. CASE j = N + 1
    BY <1>1, <1>2, <1>3, <2>1, <2>3
  <2> QED
    BY <1>7, <2>2, <2>3
<1>9. ASSUME NEW i \in 1 .. N + 1 PROVE frames'[i].at < written'
  <2>1. CASE i \in 1 .. N
    BY <1>1, <1>2, <1>4, <1>5, <2>1
  <2>2. CASE i = N + 1
    BY <1>1, <1>3, <1>4, <2>2
  <2> QED
    BY <1>7, <2>1, <2>2
<1>10. ASSUME NEW i \in 1 .. N + 1 PROVE frames'[i].hot \cap frames'[i].cold = {}
  <2>1. CASE i \in 1 .. N
    BY <1>1, <1>2, <2>1
  <2>2. CASE i = N + 1
    BY <1>1, <1>3, <1>6, <2>2
  <2> QED
    BY <1>7, <2>1, <2>2
<1> QED
  BY <1>1, <1>8, <1>9, <1>10 DEF Dates

(* An edge is the start of the first frame of the run that decided it. *)
LEMMA EdgeDates ==
  ASSUME TrackerInv, NEW snr, NEW n \in FrameLengths, Update(snr, n), NEW c \in Channels
  PROVE  /\ c \in Started(snr) =>
              /\ MinFrames \in 1 .. Len(frames') /\ MinFrames <= above'[c]
              /\ from'[c] = frames'[Len(frames') - MinFrames + 1].at
         /\ c \in Ended(snr) =>
              /\ HangFrames \in 1 .. Len(frames') /\ HangFrames <= below'[c]
              /\ until'[c] = frames'[Len(frames') - HangFrames + 1].at
         /\ c \notin Started(snr) => from'[c] = from[c]
         /\ c \notin Ended(snr) => until'[c] = until[c]
<1> DEFINE M == Len(frames')
<1>1. M \in Nat
  BY FrameAppended
<1>2. /\ above'[c] \in 0 .. M /\ below'[c] \in 0 .. M
      /\ above'[c] = Above(snr, c) /\ below'[c] = Below(snr, c)
  BY CountersStep DEF RunOf
<1>3. \A m \in 1 .. RecentMax : m <= M => FramesAgo(recent', m - 1) = frames'[M - m + 1].at
  BY MemoryStep
<1>4. MinFrames \in 1 .. RecentMax /\ HangFrames \in 1 .. RecentMax
  BY TrackerConstants DEF RecentMax
<1>5. ASSUME c \in Started(snr)
      PROVE  /\ MinFrames \in 1 .. M /\ MinFrames <= above'[c]
             /\ from'[c] = frames'[M - MinFrames + 1].at
  <2>1. Above(snr, c) >= MinFrames
    BY <1>5 DEF Started
  <2>2. MinFrames \in 1 .. M /\ MinFrames <= above'[c]
    BY <1>1, <1>2, <2>1, TrackerConstants
  <2>3. from'[c] = FramesAgo(recent', MinFrames - 1)
    BY <1>5 DEF Update
  <2> QED
    BY <1>3, <1>4, <2>2, <2>3
<1>6. ASSUME c \in Ended(snr)
      PROVE  /\ HangFrames \in 1 .. M /\ HangFrames <= below'[c]
             /\ until'[c] = frames'[M - HangFrames + 1].at
  <2>1. Below(snr, c) >= HangFrames
    BY <1>6 DEF Ended
  <2>2. HangFrames \in 1 .. M /\ HangFrames <= below'[c]
    BY <1>1, <1>2, <2>1, TrackerConstants
  <2>3. until'[c] = FramesAgo(recent', HangFrames - 1)
    BY <1>6 DEF Update
  <2> QED
    BY <1>3, <1>4, <2>2, <2>3
<1>7. (c \notin Started(snr) => from'[c] = from[c]) /\ (c \notin Ended(snr) => until'[c] = until[c])
  BY DEF Update
<1> QED
  BY <1>5, <1>6, <1>7

LEMMA EdgesStep ==
  ASSUME TrackerInv, NEW snr \in [Channels -> Levels], NEW n \in FrameLengths, Update(snr, n)
  PROVE  Edges'
<1> SUFFICES ASSUME NEW c \in Channels
             PROVE  /\ c \in active' =>
                         \E i \in 1 .. Len(frames') - below'[c] :
                           from'[c] = frames'[i].at /\ until'[c] < from'[c]
                    /\ c \notin active' =>
                         \/ from'[c] = -1 /\ until'[c] = -1
                         \/ \E j \in 1 .. Len(frames') - above'[c] :
                              until'[c] = frames'[j].at /\ from'[c] < until'[c]
  BY DEF Edges
<1> DEFINE N == Len(frames)
<1>1. /\ N \in Nat /\ Len(frames') = N + 1
      /\ \A i \in 1 .. N : frames'[i] = frames[i]
  BY FrameAppended
<1>2. /\ \A i, j \in 1 .. N + 1 : i < j => frames'[i].at < frames'[j].at
      /\ \A i \in 1 .. N + 1 : frames'[i].at \in Nat
  <2>1. \A i \in 1 .. N + 1 : frames'[i] \in FrameSet
    BY <1>1, FrameAppended
  <2>2. \A f \in FrameSet : f.at \in Nat
    BY DEF FrameSet, Definition!FrameSet
  <2> QED
    BY <1>1, <2>1, <2>2, DatesStep DEF Dates
<1>3. /\ above[c] \in 0 .. N /\ below[c] \in 0 .. N
      /\ above'[c] = (IF c \in Hot(snr) THEN above[c] + 1 ELSE 0)
      /\ below'[c] = (IF c \in Cold(snr) THEN below[c] + 1 ELSE 0)
  BY CountersStep DEF Above, Below, TrackerInv, Counters, RunOf
<1>4. ~(c \in Hot(snr) /\ c \in Cold(snr))
  <2>1. snr[c] \in Int
    BY TrackerConstants
  <2> QED
    BY <2>1, TrackerConstants DEF Hot, Cold
<1>5. /\ MinFrames \in Nat \ {0} /\ HangFrames \in Nat \ {0}
      /\ active' = (active \cup Started(snr)) \ Ended(snr)
      /\ Started(snr) \cap active = {} /\ Ended(snr) \subseteq active
  BY TrackerConstants DEF Update, Started, Ended
<1>6. /\ c \in active =>
           \E i \in 1 .. N - below[c] : from[c] = frames[i].at /\ until[c] < from[c]
      /\ c \notin active =>
           \/ from[c] = -1 /\ until[c] = -1
           \/ \E j \in 1 .. N - above[c] : until[c] = frames[j].at /\ from[c] < until[c]
  BY DEF TrackerInv, Edges
<1> HIDE DEF N
<1>7. CASE c \in active /\ c \notin Ended(snr)
  <2>1. /\ c \in active' /\ from'[c] = from[c] /\ until'[c] = until[c]
    BY <1>5, <1>7, EdgeDates
  <2>2. PICK i \in 1 .. N - below[c] : from[c] = frames[i].at /\ until[c] < from[c]
    BY <1>6, <1>7
  <2>3. i \in 1 .. N /\ i \in 1 .. (N + 1) - below'[c]
    BY <1>1, <1>3, <2>2
  <2> QED
    BY <1>1, <2>1, <2>2, <2>3
<1>8. CASE c \in Ended(snr)
  <2>1. /\ c \in active /\ c \notin active' /\ c \notin Started(snr)
    BY <1>5, <1>8
  <2>2. /\ HangFrames <= below'[c] /\ HangFrames \in 1 .. N + 1
        /\ until'[c] = frames'[(N + 1) - HangFrames + 1].at /\ from'[c] = from[c]
    BY <1>1, <1>8, <2>1, EdgeDates
  <2>3. PICK i \in 1 .. N - below[c] : from[c] = frames[i].at
    BY <1>6, <2>1
  <2>4. below'[c] = below[c] + 1 /\ above'[c] = 0
    BY <1>3, <1>4, <1>5, <2>2
  <2>5. /\ i \in 1 .. N /\ i \in 1 .. N + 1 /\ i < (N + 1) - HangFrames + 1
        /\ (N + 1) - HangFrames + 1 \in 1 .. N + 1
    BY <1>1, <1>3, <1>5, <2>2, <2>3, <2>4
  <2>6. from'[c] < until'[c]
    BY <1>1, <1>2, <2>2, <2>3, <2>5
  <2>7. (N + 1) - HangFrames + 1 \in 1 .. (N + 1) - above'[c]
    BY <1>1, <2>4, <2>5
  <2> QED
    BY <1>1, <2>1, <2>2, <2>6, <2>7
<1>9. CASE c \in Started(snr)
  <2>1. /\ c \notin active /\ c \in active' /\ c \notin Ended(snr)
    BY <1>5, <1>9
  <2>2. /\ MinFrames <= above'[c] /\ MinFrames \in 1 .. N + 1
        /\ from'[c] = frames'[(N + 1) - MinFrames + 1].at /\ until'[c] = until[c]
    BY <1>1, <1>9, <2>1, EdgeDates
  <2>3. above'[c] = above[c] + 1 /\ below'[c] = 0
    BY <1>3, <1>4, <1>5, <2>2
  <2>4. (N + 1) - MinFrames + 1 \in 1 .. N + 1
    BY <1>1, <1>5, <2>2
  <2>5. CASE until[c] = -1
    BY <1>1, <1>2, <2>1, <2>2, <2>3, <2>4, <2>5
  <2>6. CASE \E j \in 1 .. N - above[c] : until[c] = frames[j].at
    <3>1. PICK j \in 1 .. N - above[c] : until[c] = frames[j].at
      BY <2>6
    <3>2. j \in 1 .. N /\ j \in 1 .. N + 1 /\ j < (N + 1) - MinFrames + 1
      BY <1>1, <1>3, <1>5, <2>2, <2>3, <3>1
    <3>3. until'[c] < from'[c]
      BY <1>1, <1>2, <2>2, <2>4, <3>1, <3>2
    <3> QED
      BY <1>1, <2>1, <2>2, <2>3, <2>4, <3>3
  <2> QED
    BY <1>6, <2>1, <2>5, <2>6
<1>10. CASE c \notin active /\ c \notin Started(snr)
  <2>1. /\ c \notin active' /\ from'[c] = from[c] /\ until'[c] = until[c]
    BY <1>5, <1>10, EdgeDates
  <2>2. CASE from[c] = -1 /\ until[c] = -1
    BY <2>1, <2>2
  <2>3. CASE \E j \in 1 .. N - above[c] : until[c] = frames[j].at /\ from[c] < until[c]
    <3>1. PICK j \in 1 .. N - above[c] : until[c] = frames[j].at /\ from[c] < until[c]
      BY <2>3
    <3>2. j \in 1 .. N /\ j \in 1 .. (N + 1) - above'[c]
      BY <1>1, <1>3, <3>1
    <3> QED
      BY <1>1, <2>1, <3>1, <3>2
  <2> QED
    BY <1>6, <1>10, <2>2, <2>3
<1> QED
  BY <1>5, <1>7, <1>8, <1>9, <1>10

LEMMA TypeStep ==
  ASSUME TrackerInv, NEW snr, NEW n \in FrameLengths, Update(snr, n)
  PROVE  TypeOK'
<1>1. active' \subseteq Channels /\ written' \in Nat
  BY TrackerConstants DEF TrackerInv, TypeOK, Update, Started, Ended
<1>2. above' \in [Channels -> Nat] /\ below' \in [Channels -> Nat]
  BY DEF TrackerInv, TypeOK, Update, Above, Below
<1>3. recent' \in Seq(Nat) /\ Len(recent') <= RecentMax
  BY MemoryStep
<1>4. \A i \in 1 .. Len(frames') : frames'[i].at \in Nat
  <2>1. \A i \in 1 .. Len(frames') : frames'[i] \in FrameSet
    BY FrameAppended
  <2>2. \A f \in FrameSet : f.at \in Nat
    BY DEF FrameSet, Definition!FrameSet
  <2> QED
    BY <2>1, <2>2
<1>5. ASSUME NEW c \in Channels
      PROVE  from'[c] \in Nat \cup {-1} /\ until'[c] \in Nat \cup {-1}
  <2>1. from[c] \in Nat \cup {-1} /\ until[c] \in Nat \cup {-1} /\ Len(frames') \in Nat
    BY FrameAppended DEF TrackerInv, TypeOK
  <2>2. CASE c \in Started(snr)
    <3>1. /\ from'[c] = frames'[Len(frames') - MinFrames + 1].at
          /\ MinFrames \in 1 .. Len(frames') /\ c \notin Ended(snr)
      BY <2>2, EdgeDates DEF Started, Ended
    <3>2. Len(frames') - MinFrames + 1 \in 1 .. Len(frames')
      BY <2>1, <3>1
    <3> QED
      BY <1>4, <2>1, <3>1, <3>2, EdgeDates
  <2>3. CASE c \in Ended(snr)
    <3>1. /\ until'[c] = frames'[Len(frames') - HangFrames + 1].at
          /\ HangFrames \in 1 .. Len(frames') /\ c \notin Started(snr)
      BY <2>3, EdgeDates DEF Started, Ended
    <3>2. Len(frames') - HangFrames + 1 \in 1 .. Len(frames')
      BY <2>1, <3>1
    <3> QED
      BY <1>4, <2>1, <3>1, <3>2, EdgeDates
  <2>4. CASE c \notin Started(snr) /\ c \notin Ended(snr)
    BY <2>1, <2>4, EdgeDates
  <2> QED
    BY <2>2, <2>3, <2>4
<1>6. /\ from' = [c \in Channels |-> from'[c]]
      /\ until' = [c \in Channels |-> until'[c]]
  BY DEF Update
<1>7. from' \in [Channels -> Nat \cup {-1}] /\ until' \in [Channels -> Nat \cup {-1}]
  BY <1>5, <1>6
<1> QED
  BY <1>1, <1>2, <1>3, <1>7 DEF TypeOK

LEMMA InvInit == Init => TrackerInv
<1> SUFFICES ASSUME Init PROVE TrackerInv
  OBVIOUS
<1>1. Len(frames) = 0 /\ frames \in Seq(FrameSet) /\ Len(recent) = 0 /\ recent \in Seq(Nat)
  BY DEF Init
<1>2. RecentMax \in Nat \ {0}
  BY TrackerConstants DEF RecentMax
<1>3. TypeOK
  BY <1>1, <1>2, TrackerConstants DEF Init, TypeOK
<1>4. \A c \in Channels : above[c] = 0 /\ below[c] = 0 /\ from[c] = -1 /\ until[c] = -1
  BY DEF Init
<1>5. Counters
  BY <1>1, <1>4 DEF Counters, RunOf
<1>6. Memory
  BY <1>1, <1>2 DEF Memory
<1>7. Dates
  BY <1>1 DEF Dates
<1>8. Edges
  BY <1>4 DEF Edges, Init
<1> QED
  BY <1>1, <1>3, <1>5, <1>6, <1>7, <1>8 DEF TrackerInv

LEMMA InvStep == TrackerInv /\ [Frame]_vars => TrackerInv'
<1> SUFFICES ASSUME TrackerInv, [Frame]_vars PROVE TrackerInv'
  OBVIOUS
<1>1. CASE Frame
  <2>1. PICK snr \in [Channels -> Levels], n \in FrameLengths : Update(snr, n)
    BY <1>1 DEF Frame
  <2>2. TypeOK'
    BY <2>1, TypeStep
  <2>3. frames' \in Seq(FrameSet)
    BY <2>1, FrameAppended
  <2>4. Counters'
    BY <2>1, CountersStep DEF Counters
  <2>5. Memory'
    BY <2>1, MemoryStep
  <2>6. Dates' /\ Edges'
    BY <2>1, DatesStep, EdgesStep
  <2> QED
    BY <2>2, <2>3, <2>4, <2>5, <2>6 DEF TrackerInv
<1>2. CASE UNCHANGED vars
  BY <1>2 DEF vars, TrackerInv, TypeOK, Counters, Memory, Dates, Edges
<1> QED
  BY <1>1, <1>2

-----------------------------------------------------------------------------
(* Theorems. *)

(* The counters, the memory and the dates have their types. *)
THEOREM TrackerTypes == Spec => []TypeOK
<1>1. TrackerInv => TypeOK
  BY DEF TrackerInv
<1> QED
  BY <1>1, InvInit, InvStep, PTL DEF Spec

(* The events of a channel are disjoint and in order, and none is empty. *)
THEOREM EventsAreInOrder == Spec => []EventsInOrder
<1>1. TrackerInv => EventsInOrder
  BY DEF TrackerInv, Edges, EventsInOrder
<1> QED
  BY <1>1, InvInit, InvStep, PTL DEF Spec

(* A frame of the tracker is a frame of Squelch. *)
LEMMA FrameIsHeard ==
  ASSUME TrackerInv, NEW snr, NEW n \in FrameLengths, Update(snr, n)
  PROVE  Definition!Hear
<1> DEFINE M == Len(frames')
           begins == {c \in Channels \ active : /\ Definition!HotFor(frames', c, MinFrames)
                                                /\ c \in Definition!Nth(frames', 1).top}
           ends == {c \in active : Definition!ColdFor(frames', c, HangFrames)}
<1>1. /\ M \in Nat /\ Len(frames) \in Nat /\ M = Len(frames) + 1
      /\ frames'[M] = TheFrame(snr) /\ TheFrame(snr) \in FrameSet
      /\ frames' = Append(frames, frames'[M])
  BY FrameAppended DEF Update, TheFrame
<1>2. active \subseteq Channels
  BY DEF TrackerInv, TypeOK
<1>3. Definition!Nth(frames', 1).top = LocalMax(snr)
  <2>1. Definition!Nth(frames', 1) = frames'[M]
    BY <1>1 DEF Definition!Nth
  <2> QED
    BY <1>1, <2>1 DEF TheFrame
<1>4. begins = Started(snr) /\ ends = Ended(snr)
  BY <1>2, <1>3, CountersDecide DEF Started, Ended
<1>5. active' = (active \cup begins) \ ends
  BY <1>4 DEF Update
<1>6. from' = [c \in Channels |-> IF c \in begins THEN Definition!Nth(frames', MinFrames).at
                                                   ELSE from[c]]
  BY <1>4, EdgeDates DEF Update, Definition!Nth
<1>7. until' = [c \in Channels |-> IF c \in ends THEN Definition!Nth(frames', HangFrames).at
                                                  ELSE until[c]]
  BY <1>4, EdgeDates DEF Update, Definition!Nth
<1> QED
  BY <1>1, <1>5, <1>6, <1>7 DEF Definition!Hear, FrameSet

(* Counters of consecutive frames and a memory of max(min, hang) frame     *)
(* starts are enough: the tracker does what Squelch says of whole frames.  *)
THEOREM TrackerIsSquelch == Spec => ImplementsSquelch
<1>1. Init => Definition!Init
  BY DEF Init, Definition!Init
<1>2. TrackerInv /\ [Frame]_vars => [Definition!Hear]_<<frames, active, from, until>>
  <2> SUFFICES ASSUME TrackerInv, [Frame]_vars
               PROVE  [Definition!Hear]_<<frames, active, from, until>>
    OBVIOUS
  <2>1. CASE Frame
    <3>1. PICK snr \in [Channels -> Levels], n \in FrameLengths : Update(snr, n)
      BY <2>1 DEF Frame
    <3> QED
      BY <3>1, FrameIsHeard
  <2>2. CASE UNCHANGED vars
    BY <2>2 DEF vars
  <2> QED
    BY <2>1, <2>2
<1> QED
  BY <1>1, <1>2, InvInit, InvStep, PTL
  DEF Spec, ImplementsSquelch, Definition!Spec, Definition!squelchVars
=============================================================================
