-------------------------- MODULE EngineLoop_proofs --------------------------
(***************************************************************************)
(* Proofs about EngineLoop, for any grid, windows, bounds and failures.    *)
(*                                                                         *)
(* What is on its way through a channel is a run of a small automaton from *)
(* what its receiver has seen to what its sender has done: LineNext for    *)
(* the lines the engine says, MsgNext for what its reader tells its dsp    *)
(* thread, CmdNext for the commands.  The invariant links the two ends of  *)
(* each channel by such a run (Chain), and says what the orchestrator has  *)
(* written once it has handled a line: which rows are open (Placed,        *)
(* Deciding), which windows are on record (Logged) and which rows have had *)
(* their end (Mirrored).  That the loop implements SurveyLog needs more of *)
(* the tables (Promised): the windows are those asked for, the open one is *)
(* the last, a row is analysed once, and is open as long as its channel    *)
(* says so.                                                                *)
(***************************************************************************)
EXTENDS EngineLoop, SequenceTheorems, WellFoundedInduction, TLAPS

-----------------------------------------------------------------------------
(* The automata. *)

(* q leads from a to b by the steps in R. *)
Leads(R, a, q, b) ==
  \E h : /\ h = [i \in 0 .. Len(q) |-> h[i]]
         /\ h[0] = a /\ h[Len(q)] = b
         /\ \A i \in 1 .. Len(q) : <<h[i-1], q[i], h[i]>> \in R

Decisions == [k : {"a"}, ch : Channels, start : Nat, n : Nat]
             \cup [k : {"h"}, ch : Channels, parent : Channels]

Lines == [t : {"tuned", "linearity"}, center : Nat]
         \cup [t : {"window"}, center : Nat, gen : Nat]
         \cup [t : {"close", "stall", "eof", "__eof__"}]
         \cup [t : {"f"}, heard : Nat, s : SUBSET Channels, due : SUBSET Decisions,
               fin : SUBSET Decisions, e : SUBSET Channels]

Messages == [k : {"tuned", "window"}, center : Nat]
            \cup [k : {"close", "frame", "overflow", "stop", "stall", "eof"}, center : {None}]

Commands == [cmd : {"open"}, center : Nat] \cup [cmd : {"stop"}, center : {None}]

(* Where a window is, for who has said or heard a line of it: its centre,  *)
(* how many have been tuned to, the channels with an open event, and those *)
(* whose analysis is undecided.                                            *)
Places == [at : {"none", "tuned", "probed", "open", "left"}, center : Nat \cup {None},
           tunes : Nat, open : SUBSET Channels, pend : SUBSET Channels]
Heard  == {x \in Places : x.at # "open" => x.open = {} /\ x.pend = {}}
Told   == [at : {"none", "tuned", "open", "left"}, center : Nat \cup {None}, tunes : Nat]

(* Ends are handled in the order of the channels. *)
Earlier(c, p) == c < p

Decided(D) == {d.ch : d \in D}

FrameFits(x, m) ==
  LET now == x.open \cup m.s
  IN /\ m.heard = x.tunes
     /\ m.s \cap x.open = {} /\ m.e \subseteq x.open
     /\ \A d \in m.due \cup m.fin : d.ch \in (x.pend \cup m.s) \cap now
     /\ \A d \in m.due \cup m.fin : d.k = "h" => d.parent \in now /\ d.parent # d.ch
     /\ \A d, f \in m.due \cup m.fin : d.ch = f.ch => d = f
     /\ \A d \in m.due, f \in m.fin : d.ch # f.ch
     /\ \A d \in m.fin : d.ch \in m.e
     /\ \A d \in m.fin : d.k = "h" /\ d.parent \in m.e => Earlier(d.ch, d.parent)

LineFits(k, x, m) ==
  CASE m.t = "tuned"     -> x.at = "none"
    [] m.t = "linearity" -> x.at = "tuned" /\ "file" \notin k /\ m.center = x.center
    [] m.t = "window"    -> /\ x.at = IF "file" \in k THEN "tuned" ELSE "probed"
                            /\ m.center = x.center /\ m.gen = x.tunes
    [] m.t = "f"         -> x.at = "open" /\ FrameFits(x, m)
    [] m.t = "close"     -> x.at = "open"
    [] m.t \in {"stall", "eof"} -> x.at = "none" /\ (m.t = "eof" => "file" \in k)
    [] m.t = "__eof__"   -> x.at \in {"none", "left"} \/ "crash" \in k
    [] OTHER             -> FALSE

LineNext(x, m) ==
  CASE m.t = "tuned"     -> [x EXCEPT !.at = "tuned", !.center = m.center, !.tunes = @ + 1]
    [] m.t = "linearity" -> [x EXCEPT !.at = "probed"]
    [] m.t = "window"    -> [x EXCEPT !.at = "open"]
    [] m.t = "f"         -> [x EXCEPT !.open = (@ \cup m.s) \ m.e,
                                      !.pend = (@ \cup m.s) \ (m.e \cup Decided(m.due))]
    [] m.t = "close"     -> [x EXCEPT !.at = "none", !.open = {}, !.pend = {}]
    [] OTHER             -> [x EXCEPT !.at = "left", !.open = {}, !.pend = {}]

Says(k) == {s \in Heard \X Lines \X Heard : LineFits(k, s[1], s[2]) /\ s[3] = LineNext(s[1], s[2])}

MsgFits(k, x, m) ==
  CASE m.k = "close"  -> x.at \in {"none", "open"}
    [] m.k = "tuned"  -> x.at = "none"
    [] m.k = "window" -> x.at = "tuned" /\ m.center = x.center
    [] m.k \in {"frame", "overflow"} -> x.at \in {"none", "open"}
    [] OTHER -> x.at = "none" /\ (m.k = "eof" => "file" \in k)

MsgNext(x, m) ==
  CASE m.k = "close"  -> [x EXCEPT !.at = "none"]
    [] m.k = "tuned"  -> [x EXCEPT !.at = "tuned", !.center = m.center, !.tunes = @ + 1]
    [] m.k = "window" -> [x EXCEPT !.at = "open"]
    [] m.k \in {"frame", "overflow"} -> x
    [] OTHER -> [x EXCEPT !.at = "left"]

Tells(k) == {s \in Told \X Messages \X Told :
               MsgFits(k, s[1], s[2]) /\ s[3] = MsgNext(s[1], s[2])}

CmdNext(n, m) == IF m.cmd = "open" THEN n + 1 ELSE n

Orders == {s \in Nat \X Commands \X Nat : s[3] = CmdNext(s[1], s[2])}

Seen(b) == [at |-> b.at, center |-> b.center, tunes |-> b.tunes]

-----------------------------------------------------------------------------
(* The invariant. *)

(* From what the orchestrator has handled, a, by the lines on their way to *)
(* what the dsp thread has done, b; from there by its messages to what the *)
(* reader has sent, t, and has decided to send, u; and from there by the   *)
(* commands to the windows asked for.                                      *)
Spoken(a, b) ==
  /\ a \in Heard /\ b \in Heard
  /\ Leads(Says(may), a, out, b)
  /\ b.tunes <= visits
  /\ engine # "up" => b.at \in {"none", "left"}

DspHas(b) ==
  /\ b.at \in {"none", "tuned", "open"}
  /\ b.at # "none" => b.center \in Nat
  /\ det = IF b.at = "open" THEN b.center ELSE None
  /\ ring.gen = IF b.at = "tuned" THEN b.tunes - 1 ELSE b.tunes
  /\ \A c \in Channels : pending[c] # None => c \in b.pend

ReaderHas(b, t, u) ==
  /\ t \in Told /\ u \in Told
  /\ Leads(Tells(may), Seen(b), toDsp, t) /\ Leads(Tells(may), t, todo, u)
  /\ u.tunes <= visits
  /\ reader \in {"idle", "reading"} =>
       u.at \in {"none", "open"} /\ Leads(Orders, u.tunes, cmds, visits)
  /\ reader = "hung" => u.at = "none"

Chain(a, b, t, u) ==
  /\ Spoken(a, b)
  /\ engine = "up" => DspHas(b) /\ ReaderHas(b, t, u)
  /\ engine = "leaving" => reader = "gone"
  /\ engine = "up" \/ "crash" \notin may => open = b.open

(* Only the window asked for last can still be announced, and only while   *)
(* the orchestrator waits for it.                                          *)
Silent == reader = "hung" /\ todo = <<>> /\ toDsp = <<>> /\ \A i \in DOMAIN out : out[i].t = "__eof__"
Awaited(a) ==
  StatementsSucceed =>
    \/ visits <= a.tunes
    \/ pc = "tuned" /\ visits <= a.tunes + 1
    \/ a.at = "left"
    \/ Silent
    \/ engine = "gone" /\ out = <<>>

Closing == {"reap", "put", "collect", "end", "done"}
Looping == {"open", "tuned", "window", "pump", "check"}

(* What is open in the frame's line as far as it has been replayed. *)
Now(a)  == (a.open \cup line.e) \ line.s
Wanted  == Decided(line.due \cup line.fin)

Placed(a) ==
  /\ pc \in Closing => line = NoLine
  /\ a.at = "open" => grid = [gen |-> a.tunes, center |-> a.center]
  /\ line # NoLine => a.at = "open" /\ line.heard = a.tunes
  /\ line.s \subseteq a.open /\ line.e \cap a.open = {}

Deciding(a) ==
  /\ a.pend \subseteq a.open
  /\ Wanted \subseteq a.open \cup line.e
  /\ a.pend \cap Wanted = {}
  /\ \A d, f \in line.due \cup line.fin : d.ch = f.ch => d = f
  /\ \A d \in line.due, f \in line.fin : d.ch # f.ch
  /\ \A d \in line.due \cup line.fin : d.k = "h" => d.parent \in a.open \cup line.e /\ d.parent # d.ch
  /\ \A d \in line.fin : d.ch \in line.e
  /\ \A d \in line.fin : d.k = "h" /\ d.parent \in line.e => Earlier(d.ch, d.parent)

RowsOf == {j.row : j \in Work} \cup {results[i].row : i \in DOMAIN results}

Undecided(r) == /\ events[r].parent = None /\ events[r].result = None
                /\ r \notin RowsOf

Rows(a) ==
  /\ \A c \in Now(a) : openRows[c] # None =>
       /\ events[openRows[c]].ch = c
       /\ events[openRows[c]].gen = grid.gen
       /\ events[openRows[c]].window = logWindow
  /\ (pc \in Looping \/ StatementsSucceed) /\ a.at # "left" => \A c \in Channels \ Now(a) : openRows[c] = None
  /\ \A c \in (a.pend \cup Wanted) \ line.s : openRows[c] # None => Undecided(openRows[c])

Harmonic(r) ==
  /\ events[r].parent \in DOMAIN events \ {r}
  /\ events[events[r].parent].window = events[r].window
  /\ events[r].result = None /\ r \notin RowsOf

Sound ==
  /\ \A j \in Work \ {NoJob} : j.row \in DOMAIN events /\ j.gen = events[j.row].gen
  /\ \A i \in DOMAIN results : results[i].row \in DOMAIN events
                               /\ results[i].gen = events[results[i].row].gen
  /\ \A r \in DOMAIN events : /\ events[r].result \in {None, events[r].gen}
                              /\ events[r].parent # None => Harmonic(r)

Visited == {"tuned", "probed", "open"}

(* coverage_windows has one row for each window the engine has tuned to.   *)
Book(a) ==
  /\ Len(windows) = a.tunes
  /\ a.at \in Visited => /\ windowId = a.tunes \/ ended
                         /\ windows[a.tunes].center = a.center
  /\ a.at = "none" \/ ended => windowId = None
  /\ logWindow = IF a.tunes = 0 THEN None ELSE a.tunes
  /\ \A w \in DOMAIN windows : w # windowId => windows[w].closed
  /\ a.at \in {"tuned", "probed"} <=> pc = "window"

RowsLogged ==
  \A r \in DOMAIN events :
    /\ events[r].window = events[r].gen /\ events[r].window \in DOMAIN windows
    /\ windows[events[r].window].center = events[r].center

Probed(a) ==
  "crash" \notin may => \A w \in DOMAIN windows :
    \/ windows[w].linear = windows[w].center
    \/ windows[w].linear = None /\ (FromFile \/ (w = a.tunes /\ a.at = "tuned"))

Logged(a) == StatementsSucceed => Book(a) /\ RowsLogged /\ Probed(a)

(* A row without an end is that of an open channel. *)
Mirrored(a) ==
  StatementsSucceed =>
    /\ \A r \in DOMAIN events : events[r].closed \in {None, events[r].gen}
    /\ "crash" \notin may =>
         /\ \A c \in Now(a) : openRows[c] # None
         /\ a.at = "left" => \A c \in Channels : openRows[c] = None
         /\ \A r \in DOMAIN events : events[r].closed = None => \E c \in Channels : openRows[c] = r

-----------------------------------------------------------------------------
(* Runs of an automaton. *)

LEMMA LeastNatural ==
  ASSUME NEW S \in SUBSET Nat, S # {}
  PROVE  \E n \in S : \A m \in S : n <= m
<1>1. \E n \in S : \A m \in S : ~ (<<m, n>> \in OpToRel(<, Nat))
  BY NatLessThanWellFounded, WFMin, Zenon
<1>2. PICK n \in S : \A m \in S : ~ (<<m, n>> \in OpToRel(<, Nat))
  BY <1>1
<1>3. \A m \in S : ~ (m < n)
  BY <1>2, Zenon DEF OpToRel
<1> QED
  BY <1>3

LEMMA LeadsEmpty ==
  ASSUME NEW R, NEW a, NEW b
  PROVE  Leads(R, a, <<>>, b) <=> a = b
<1>1. Len(<<>>) = 0
  OBVIOUS
<1>2. ASSUME Leads(R, a, <<>>, b) PROVE a = b
  BY <1>1, <1>2 DEF Leads
<1>3. ASSUME a = b PROVE Leads(R, a, <<>>, b)
  <2> DEFINE h == [i \in 0 .. Len(<<>>) |-> a]
  <2>1. h = [i \in 0 .. Len(<<>>) |-> h[i]] /\ h[0] = a /\ h[Len(<<>>)] = b
    BY <1>1, <1>3
  <2>2. \A i \in 1 .. Len(<<>>) : <<h[i-1], <<>>[i], h[i]>> \in R
    BY <1>1
  <2> QED
    BY <2>1, <2>2 DEF Leads
<1> QED
  BY <1>2, <1>3

LEMMA LeadsAppend ==
  ASSUME NEW R, NEW a, NEW b, NEW c, NEW S, NEW q \in Seq(S), NEW m \in S,
         Leads(R, a, q, b), <<b, m, c>> \in R
  PROVE  Leads(R, a, Append(q, m), c)
<1> DEFINE w == Append(q, m)
<1>1. /\ Len(q) \in Nat /\ Len(w) = Len(q) + 1 /\ w[Len(q) + 1] = m
      /\ \A i \in 1 .. Len(q) : w[i] = q[i]
  BY AppendProperties, LenProperties
<1> HIDE DEF w
<1>2. PICK h : /\ h = [i \in 0 .. Len(q) |-> h[i]]
               /\ h[0] = a /\ h[Len(q)] = b
               /\ \A i \in 1 .. Len(q) : <<h[i-1], q[i], h[i]>> \in R
  BY DEF Leads
<1> DEFINE g == [i \in 0 .. Len(w) |-> IF i = Len(w) THEN c ELSE h[i]]
<1>3. /\ g = [i \in 0 .. Len(w) |-> g[i]]
      /\ g[0] = a /\ g[Len(w)] = c
  BY <1>1, <1>2
<1>4. ASSUME NEW i \in 1 .. Len(w) PROVE <<g[i-1], w[i], g[i]>> \in R
  <2>1. CASE i = Len(w)
    BY <1>1, <1>2, <2>1
  <2>2. CASE i # Len(w)
    <3>1. i \in 1 .. Len(q) /\ g[i-1] = h[i-1] /\ g[i] = h[i] /\ w[i] = q[i]
      BY <1>1, <2>2
    <3> QED
      BY <1>2, <3>1
  <2> QED
    BY <2>1, <2>2
<1>5. Leads(R, a, w, c)
  <2> HIDE DEF g
  <2> QED
    BY <1>3, <1>4 DEF Leads
<1> QED
  BY <1>5 DEF w

LEMMA LeadsHead ==
  ASSUME NEW R, NEW a, NEW b, NEW S, NEW q \in Seq(S), q # <<>>, Leads(R, a, q, b)
  PROVE  \E c : <<a, Head(q), c>> \in R /\ Leads(R, c, Tail(q), b)
<1> DEFINE r == Tail(q)
<1>1. /\ Len(q) \in Nat /\ Len(q) > 0 /\ Len(r) = Len(q) - 1 /\ Head(q) = q[1]
      /\ \A i \in 1 .. Len(r) : r[i] = q[i+1]
  BY HeadTailProperties, EmptySeq, LenProperties
<1> HIDE DEF r
<1>2. PICK h : /\ h = [i \in 0 .. Len(q) |-> h[i]]
               /\ h[0] = a /\ h[Len(q)] = b
               /\ \A i \in 1 .. Len(q) : <<h[i-1], q[i], h[i]>> \in R
  BY DEF Leads
<1> DEFINE g == [i \in 0 .. Len(r) |-> h[i+1]]
<1>3. /\ g = [i \in 0 .. Len(r) |-> g[i]]
      /\ g[0] = h[1] /\ g[Len(r)] = b
  BY <1>1, <1>2
<1>4. ASSUME NEW i \in 1 .. Len(r) PROVE <<g[i-1], r[i], g[i]>> \in R
  <2>1. i + 1 \in 1 .. Len(q) /\ (i + 1) - 1 = i
    BY <1>1
  <2>2. <<h[(i + 1) - 1], q[i+1], h[i+1]>> \in R
    BY <1>2, <2>1
  <2>3. g[i-1] = h[i] /\ g[i] = h[i+1] /\ r[i] = q[i+1]
    BY <1>1
  <2> QED
    BY <2>1, <2>2, <2>3
<1>5. Leads(R, h[1], r, b)
  <2> HIDE DEF g
  <2> QED
    BY <1>3, <1>4 DEF Leads
<1>6. <<a, Head(q), h[1]>> \in R
  <2>1. 1 \in 1 .. Len(q) /\ h[1-1] = a
    BY <1>1, <1>2
  <2> QED
    BY <1>1, <1>2, <2>1
<1> QED
  BY <1>5, <1>6 DEF r

LEMMA LeadsPrefix ==
  ASSUME NEW R, NEW a, NEW b, NEW S, NEW q \in Seq(S), Leads(R, a, q, b),
         NEW k \in 0 .. Len(q)
  PROVE  \E c, r : /\ Leads(R, a, SubSeq(q, 1, k), c)
                   /\ Len(r) \in Nat /\ Leads(R, c, r, b)
<1> DEFINE p == SubSeq(q, 1, k)
           r == [i \in 1 .. Len(q) - k |-> q[i + k]]
<1>1. /\ Len(q) \in Nat /\ Len(p) = k
      /\ \A i \in 1 .. k : p[i] = q[i]
      /\ Len(q) - k \in Nat
  BY SubSeqProperties, LenProperties
<1>2. Len(r) = Len(q) - k /\ \A i \in 1 .. Len(r) : r[i] = q[i + k]
  <2>1. r \in [1 .. Len(q) - k -> S]
    BY <1>1, ElementOfSeq
  <2>2. r \in Seq(S) /\ Len(r) = Len(q) - k
    <3> DEFINE n == Len(q) - k
    <3>1. r \in [1 .. n -> S] /\ n \in Nat
      BY <1>1, <2>1
    <3>2. r \in Seq(S)
      BY <3>1, SeqDef
    <3>3. Len(r) = n
      BY <3>1, <3>2, LenProperties
    <3> QED
      BY <3>2, <3>3
  <2> QED
    BY <2>2
<1> HIDE DEF p, r
<1>3. PICK h : /\ h = [i \in 0 .. Len(q) |-> h[i]]
               /\ h[0] = a /\ h[Len(q)] = b
               /\ \A i \in 1 .. Len(q) : <<h[i-1], q[i], h[i]>> \in R
  BY DEF Leads
<1> DEFINE g == [i \in 0 .. Len(p) |-> h[i]]
           f == [i \in 0 .. Len(r) |-> h[i + k]]
<1>4. /\ g = [i \in 0 .. Len(p) |-> g[i]]
      /\ g[0] = a /\ g[Len(p)] = h[k]
  BY <1>1, <1>3
<1>5. ASSUME NEW i \in 1 .. Len(p) PROVE <<g[i-1], p[i], g[i]>> \in R
  <2>1. i \in 1 .. Len(q) /\ g[i-1] = h[i-1] /\ g[i] = h[i] /\ p[i] = q[i]
    BY <1>1
  <2> QED
    BY <1>3, <2>1
<1>6. Leads(R, a, p, h[k])
  <2> HIDE DEF g
  <2> QED
    BY <1>4, <1>5 DEF Leads
<1>7. /\ f = [i \in 0 .. Len(r) |-> f[i]]
      /\ f[0] = h[k] /\ f[Len(r)] = b
  BY <1>1, <1>2, <1>3
<1>8. ASSUME NEW i \in 1 .. Len(r) PROVE <<f[i-1], r[i], f[i]>> \in R
  <2>1. i + k \in 1 .. Len(q) /\ f[i-1] = h[(i + k) - 1] /\ f[i] = h[i + k] /\ r[i] = q[i + k]
    BY <1>1, <1>2
  <2> QED
    BY <1>3, <2>1
<1>9. Leads(R, h[k], r, b)
  <2> HIDE DEF f
  <2> QED
    BY <1>7, <1>8 DEF Leads
<1> QED
  BY <1>1, <1>2, <1>6, <1>9 DEF p

(* What every step keeps holds at the end. *)
LEMMA LeadsKeeps ==
  ASSUME NEW R, NEW a, NEW b, NEW q, Len(q) \in Nat, Leads(R, a, q, b),
         NEW I, a \in I, \A x, m, y : <<x, m, y>> \in R /\ x \in I => y \in I
  PROVE  b \in I
<1>1. PICK h : /\ h = [i \in 0 .. Len(q) |-> h[i]]
               /\ h[0] = a /\ h[Len(q)] = b
               /\ \A i \in 1 .. Len(q) : <<h[i-1], q[i], h[i]>> \in R
  BY DEF Leads
<1> DEFINE bad == {i \in 0 .. Len(q) : h[i] \notin I}
<1>2. SUFFICES ASSUME b \notin I PROVE FALSE
  OBVIOUS
<1>3. bad \in SUBSET Nat /\ bad # {}
  BY <1>1, <1>2
<1>4. PICK n \in bad : \A m \in bad : n <= m
  BY <1>3, LeastNatural
<1>5. n # 0 /\ n \in 1 .. Len(q) /\ n - 1 \in 0 .. Len(q)
  BY <1>1, <1>4
<1>6. h[n-1] \in I
  BY <1>4, <1>5
<1> QED
  BY <1>1, <1>4, <1>5, <1>6

LEMMA LeadsOne ==
  ASSUME NEW R, NEW a, NEW b, NEW m, <<a, m, b>> \in R
  PROVE  Leads(R, a, <<m>>, b)
<1> DEFINE S == {m}
<1>1. <<>> \in Seq(S) /\ m \in S /\ Append(<<>>, m) = <<m>>
  OBVIOUS
<1>2. Leads(R, a, <<>>, a)
  BY LeadsEmpty
<1> HIDE DEF S
<1> QED
  BY <1>1, <1>2, LeadsAppend

LEMMA LeadsTwo ==
  ASSUME NEW R, NEW a, NEW b, NEW c, NEW m, NEW n, <<a, m, b>> \in R, <<b, n, c>> \in R
  PROVE  Leads(R, a, <<m, n>>, c)
<1> DEFINE S == {m, n}
<1>1. <<m>> \in Seq(S) /\ n \in S
  OBVIOUS
<1>3. Append(<<m>>, n) = <<m, n>>
  <2> DEFINE x == Append(<<m>>, n)
             y == <<m, n>>
  <2>1. x \in Seq(S) /\ Len(x) = 2 /\ x[1] = m /\ x[2] = n
    BY <1>1, AppendProperties
  <2>2. y \in Seq(S) /\ Len(y) = 2 /\ y[1] = m /\ y[2] = n
    OBVIOUS
  <2> HIDE DEF x, y, S
  <2>3. \A i \in 1 .. Len(x) : x[i] = y[i]
    BY <2>1, <2>2
  <2>4. x = y
    BY <2>1, <2>2, <2>3, SeqEqual
  <2> QED
    BY <2>4 DEF x, y
<1>2. Leads(R, a, <<m>>, b)
  BY LeadsOne
<1> HIDE DEF S
<1> QED
  BY <1>1, <1>2, <1>3, LeadsAppend

LEMMA LeadsThree ==
  ASSUME NEW R, NEW a, NEW b, NEW c, NEW d, NEW m, NEW n, NEW o,
         <<a, m, b>> \in R, <<b, n, c>> \in R, <<c, o, d>> \in R
  PROVE  Leads(R, a, <<m, n, o>>, d)
<1> DEFINE S == {m, n, o}
<1>1. <<m, n>> \in Seq(S) /\ o \in S
  OBVIOUS
<1>3. Append(<<m, n>>, o) = <<m, n, o>>
  <2> DEFINE x == Append(<<m, n>>, o)
             y == <<m, n, o>>
  <2>1. x \in Seq(S) /\ Len(x) = 3 /\ x[1] = m /\ x[2] = n /\ x[3] = o
    BY <1>1, AppendProperties
  <2>2. y \in Seq(S) /\ Len(y) = 3 /\ y[1] = m /\ y[2] = n /\ y[3] = o
    OBVIOUS
  <2> HIDE DEF x, y, S
  <2>3. \A i \in 1 .. Len(x) : x[i] = y[i]
    BY <2>1, <2>2
  <2>4. x = y
    BY <2>1, <2>2, <2>3, SeqEqual
  <2> QED
    BY <2>4 DEF x, y
<1>2. Leads(R, a, <<m, n>>, c)
  BY LeadsTwo
<1> HIDE DEF S
<1> QED
  BY <1>1, <1>2, <1>3, LeadsAppend

-----------------------------------------------------------------------------
(* Types. *)

Jobs      == {NoJob} \cup [row : Nat, gen : {None} \cup Nat, start : Nat, n : Nat]
Answers   == [row : {None} \cup Nat, gen : {None} \cup Nat, why : {"ok", "failed", "aged"}]
WindowRow == [center : Nat, closed : BOOLEAN, linear : {None} \cup Nat]
EventRow  == [ch : Channels, window : {None} \cup Nat, gen : {None} \cup Nat,
              center : {None} \cup Nat, closed : {None} \cup Nat,
              parent : {None} \cup Nat, result : {None} \cup Nat]

Unreplayed == [heard : {None} \cup Nat, s : SUBSET Channels, due : SUBSET Decisions,
               fin : SUBSET Decisions, e : SUBSET Channels]

EngineTypes ==
  /\ may \in Kinds
  /\ cmds \in Seq(Commands)
  /\ reader \in {"idle", "reading", "hung", "gone"}
  /\ todo \in Seq(Messages)
  /\ stalled \in Nat /\ reads \in Nat
  /\ toDsp \in Seq(Messages) /\ Len(toDsp) <= DspQueue
  /\ det \in {None} \cup Nat
  /\ ring \in [gen : Nat, center : {None} \cup Nat, written : Nat]
  /\ open \subseteq Channels
  /\ pending \in [Channels -> {None} \cup Nat]
  /\ out \in Seq(Lines)
  /\ engine \in {"up", "leaving", "gone"}

LoopTypes ==
  /\ pc \in Looping \cup Closing \cup {"finish", "drain", "died"}
  /\ running \in BOOLEAN /\ ended \in BOOLEAN /\ status \in {0, 1}
  /\ visits \in Nat
  /\ center \in {None} \cup Nat
  /\ grid \in [gen : {None} \cup Nat, center : {None} \cup Nat]
  /\ windows \in Seq(WindowRow)
  /\ windowId \in {None} \cup DOMAIN windows
  /\ logWindow \in {None} \cup Nat
  /\ line \in Unreplayed

RowTypes ==
  /\ events \in Seq(EventRow)
  /\ openRows \in [Channels -> {None} \cup DOMAIN events]
  /\ jobs \in Seq(Jobs) /\ Len(jobs) <= AnalysisDepth
  /\ worker \in [state : {"idle", "copying", "exited", "dead", "terminated"}, job : Jobs]
  /\ results \in Seq(Answers)

Types == EngineTypes /\ LoopTypes /\ RowTypes

LEMMA FunctionIsSeq ==
  ASSUME NEW S, NEW n \in Nat, NEW f \in [1 .. n -> S]
  PROVE  f \in Seq(S) /\ Len(f) = n /\ DOMAIN f = 1 .. n
<1>1. f \in Seq(S)
  BY SeqDef
<1> QED
  BY <1>1, LenProperties

LEMMA LineFields ==
  ASSUME NEW m \in Lines
  PROVE  /\ m.t \in {"tuned", "linearity", "window", "close", "stall", "eof", "__eof__", "f"}
         /\ m.t \in {"tuned", "linearity", "window"} => m.center \in Nat
         /\ m.t = "window" => m.gen \in Nat
         /\ m.t = "f" => /\ m.heard \in Nat /\ m.s \subseteq Channels /\ m.e \subseteq Channels
                        /\ m.due \subseteq Decisions /\ m.fin \subseteq Decisions
BY DEF Lines

LEMMA MessageFields ==
  ASSUME NEW m \in Messages
  PROVE  /\ m.k \in {"tuned", "window", "close", "frame", "overflow", "stop", "stall", "eof"}
         /\ m.k \in {"tuned", "window"} => m.center \in Nat
BY DEF Messages

LEMMA CommandFields ==
  ASSUME NEW m \in Commands
  PROVE  /\ m.cmd \in {"open", "stop"}
         /\ m.cmd = "open" => m.center \in Nat
BY DEF Commands

LEMMA DecisionFields ==
  ASSUME NEW d \in Decisions
  PROVE  /\ d.ch \in Channels
         /\ d.k = "a" => d.start \in Nat /\ d.n \in Nat
         /\ d.k # "a" => d.k = "h" /\ d.parent \in Channels
BY DEF Decisions

(* analyse() decides at most one thing, about the event it is asked about, *)
(* and a parent is another channel that is open.                           *)
LEMMA DecisionIs ==
  ASSUME NEW ch \in Channels, NEW start \in Nat, NEW n \in Nat, NEW written \in Nat,
         NEW opened \in SUBSET Channels, NEW louder,
         NEW d \in Decision(ch, start, n, written, opened, louder)
  PROVE  /\ d \in Decisions /\ d.ch = ch /\ ch \in opened
         /\ d.k = "h" => d.parent \in opened \ {ch}
<1> DEFINE parents == {p \in opened \ {ch} : <<ch, p>> \in louder}
           chosen == CHOOSE p \in parents : TRUE
<1>1. ch \in opened /\ ~(n < MinAnalyze)
  BY DEF Decision
<1>2. CASE parents # {}
  <2>1. chosen \in parents
    BY <1>2
  <2> HIDE DEF parents
  <2>2. Decision(ch, start, n, written, opened, louder)
          = {[k |-> "h", ch |-> ch, parent |-> chosen]}
    BY <1>1, <1>2 DEF Decision, parents
  <2>3. chosen \in opened \ {ch}
    BY <2>1 DEF parents
  <2> HIDE DEF chosen
  <2> QED
    BY <1>1, <2>2, <2>3 DEF Decisions
<1>3. CASE parents = {}
  <2>1. Decision(ch, start, n, written, opened, louder)
          = IF Holds(start, n, written)
              THEN {[k |-> "a", ch |-> ch, start |-> start, n |-> n]} ELSE {}
    BY <1>1, <1>3 DEF Decision
  <2> QED
    BY <1>1, <2>1 DEF Decisions
<1> QED
  BY <1>2, <1>3

LEMMA OneDecision ==
  ASSUME NEW ch, NEW start, NEW n, NEW written, NEW opened, NEW louder,
         NEW d \in Decision(ch, start, n, written, opened, louder),
         NEW f \in Decision(ch, start, n, written, opened, louder)
  PROVE  f = d
BY DEF Decision

LEMMA SatType == ASSUME NEW n \in Int PROVE Sat(n) \in Nat
BY DEF Sat

(* What a frame with a detector does to the engine's events, and says.     *)
FrameMoves(started, finished, due) ==
  /\ started \in SUBSET (Channels \ open) /\ finished \in SUBSET open
  /\ open' = (open \cup started) \ finished
  /\ pending' \in [Channels -> {None} \cup Nat]
  /\ \A c \in Channels : pending'[c] # None =>
       /\ pending[c] # None \/ c \in started
       /\ c \notin finished /\ c \notin Decided(due)

FrameDecides(started, finished, due, fin) ==
  /\ due \in SUBSET Decisions /\ fin \in SUBSET Decisions
  /\ \A d \in due \cup fin : d.ch \in open \cup started
  /\ \A d \in due \cup fin : pending[d.ch] # None \/ d.ch \in started
  /\ \A d \in due \cup fin : d.k = "h" => d.parent \in open \cup started /\ d.parent # d.ch
  /\ \A d, f \in due \cup fin : d.ch = f.ch => d = f
  /\ \A d \in due, f \in fin : d.ch # f.ch
  /\ \A d \in fin : d.ch \in finished
  /\ \A d \in fin : d.k = "h" /\ d.parent \in finished => Earlier(d.ch, d.parent)

FrameSays(started, finished, due, fin) ==
  /\ FrameMoves(started, finished, due)
  /\ FrameDecides(started, finished, due, fin)
  /\ out' = IF started \cup finished = {} /\ due = {} THEN out
            ELSE Append(out, Frame(ring.gen, started, due, fin, finished))

LEMMA DspFrameSays ==
  ASSUME EngineTypes, DspFrame
  PROVE  /\ ring' = [ring EXCEPT !.written = ring.written + 1]
         /\ \E started, finished, due, fin : FrameSays(started, finished, due, fin)
<1>1. PICK started \in SUBSET (Channels \ open), finished \in SUBSET open,
           louder \in SUBSET HarmonicPairs :
       LET written == ring.written + 1
           from    == Sat(Sat(ring.written - (MinFrames - 1)) - Pretrigger)
           te      == Sat(ring.written - (HangFrames - 1))
           begun   == [c \in Channels |-> IF c \in started THEN from ELSE pending[c]]
           opened  == open \cup started
           waiting == {c \in Channels : begun[c] # None}
           isDue   == {c \in waiting : written >= begun[c] + Analyze}
           due     == UNION {Decision(c, begun[c], Analyze, written, opened, louder) :
                               c \in isDue}
           fin     == UNION {Decision(c, begun[c],
                                      Lesser(Sat(te - begun[c]), Analyze), written,
                                      opened \ {d \in finished : d < c}, louder) :
                               c \in (waiting \ isDue) \cap finished}
       IN /\ written < Warmup => started \cup finished = {}
          /\ ring' = [ring EXCEPT !.written = written]
          /\ pending' = [c \in Channels |->
                           IF c \in isDue \cup finished THEN None ELSE begun[c]]
          /\ open' = opened \ finished
          /\ out' = IF started \cup finished = {} /\ due = {} THEN out
                    ELSE Append(out, Frame(ring.gen, started, due, fin, finished))
  BY DEF DspFrame
<1> DEFINE written == ring.written + 1
           from    == Sat(Sat(ring.written - (MinFrames - 1)) - Pretrigger)
           te      == Sat(ring.written - (HangFrames - 1))
           begun   == [c \in Channels |-> IF c \in started THEN from ELSE pending[c]]
           opened  == open \cup started
           waiting == {c \in Channels : begun[c] # None}
           isDue   == {c \in waiting : written >= begun[c] + Analyze}
           len(c)  == Lesser(Sat(te - begun[c]), Analyze)
           left(c) == opened \ {d \in finished : d < c}
           dueOf(c) == Decision(c, begun[c], Analyze, written, opened, louder)
           finOf(c) == Decision(c, begun[c], len(c), written, left(c), louder)
           due     == UNION {dueOf(c) : c \in isDue}
           fin     == UNION {finOf(c) : c \in (waiting \ isDue) \cap finished}
<1>2. /\ ring' = [ring EXCEPT !.written = written]
      /\ pending' = [c \in Channels |-> IF c \in isDue \cup finished THEN None ELSE begun[c]]
      /\ open' = opened \ finished
      /\ out' = IF started \cup finished = {} /\ due = {} THEN out
                ELSE Append(out, Frame(ring.gen, started, due, fin, finished))
  BY <1>1
<1>3. /\ written \in Nat /\ from \in Nat /\ te \in Nat /\ Analyze \in Nat
      /\ open \in SUBSET Channels /\ opened \in SUBSET Channels /\ finished \in SUBSET Channels
      /\ pending \in [Channels -> {None} \cup Nat]
      /\ Channels \subseteq Nat
  <2>1. /\ ring.written \in Nat /\ MinFrames \in Nat /\ HangFrames \in Nat
        /\ Pretrigger \in Nat /\ Analyze \in Nat
    BY EngineConstants DEF EngineTypes
  <2>2. Sat(ring.written - (MinFrames - 1)) \in Nat
    BY <2>1, SatType
  <2>3. from \in Nat /\ te \in Nat
    BY <2>1, <2>2, SatType
  <2> QED
    BY <2>1, <2>3 DEF EngineTypes, Channels
<1> HIDE DEF from, te, written
<1>4. /\ begun \in [Channels -> {None} \cup Nat]
      /\ \A c \in Channels : begun[c] # None <=> pending[c] # None \/ c \in started
  BY <1>3 DEF None
<1> HIDE DEF begun
<1>5. ASSUME NEW c \in waiting PROVE c \in Channels /\ begun[c] \in Nat /\ len(c) \in Nat
  <2>1. c \in Channels /\ begun[c] \in Nat
    BY <1>4
  <2>2. Sat(te - begun[c]) \in Nat
    BY <1>3, <2>1, SatType
  <2> QED
    BY <1>3, <2>1, <2>2 DEF Lesser
<1>6. ASSUME NEW d \in due
      PROVE  /\ d \in Decisions /\ d.ch \in isDue /\ d.ch \in opened
             /\ d.k = "h" => d.parent \in opened /\ d.parent # d.ch
             /\ \A f \in dueOf(d.ch) : f = d
             /\ d \in dueOf(d.ch)
  <2>1. PICK c \in isDue : d \in dueOf(c)
    OBVIOUS
  <2>2. c \in Channels /\ begun[c] \in Nat
    BY <1>5, <2>1
  <2>3. d \in Decisions /\ d.ch = c /\ c \in opened /\ (d.k = "h" => d.parent \in opened \ {c})
        /\ \A f \in dueOf(c) : f = d
    <3>1. /\ written \in Nat /\ Analyze \in Nat /\ opened \in SUBSET Channels
          /\ d \in Decision(c, begun[c], Analyze, written, opened, louder)
      BY <1>3, <2>1
    <3> HIDE DEF opened, isDue, waiting, due, fin
    <3>2. /\ d \in Decisions /\ d.ch = c /\ c \in opened
          /\ d.k = "h" => d.parent \in opened \ {c}
      BY ONLY <2>2, <3>1, DecisionIs
    <3>3. \A f \in Decision(c, begun[c], Analyze, written, opened, louder) : f = d
      BY ONLY <3>1, OneDecision
    <3> QED
      BY <3>2, <3>3
  <2> QED
    BY <2>1, <2>3
<1>7. ASSUME NEW d \in fin
      PROVE  /\ d \in Decisions /\ d.ch \in (waiting \ isDue) \cap finished /\ d.ch \in opened
             /\ d.k = "h" => /\ d.parent \in opened /\ d.parent # d.ch
                             /\ d.parent \in finished => Earlier(d.ch, d.parent)
             /\ \A f \in finOf(d.ch) : f = d
             /\ d \in finOf(d.ch)
  <2>1. PICK c \in (waiting \ isDue) \cap finished : d \in finOf(c)
    OBVIOUS
  <2>2. c \in Channels /\ begun[c] \in Nat /\ len(c) \in Nat
    BY <1>5, <2>1
  <2>3. left(c) \in SUBSET Channels
    BY <1>3
  <2>4. d \in Decisions /\ d.ch = c /\ c \in left(c) /\ (d.k = "h" => d.parent \in left(c) \ {c})
        /\ \A f \in finOf(c) : f = d
    <3> HIDE DEF left, len
    <3>1. /\ written \in Nat
          /\ d \in Decision(c, begun[c], len(c), written, left(c), louder)
      BY <1>3, <2>1
    <3> HIDE DEF isDue, waiting, due, fin
    <3>2. /\ d \in Decisions /\ d.ch = c /\ c \in left(c)
          /\ d.k = "h" => d.parent \in left(c) \ {c}
      BY ONLY <2>2, <2>3, <3>1, DecisionIs
    <3>3. \A f \in Decision(c, begun[c], len(c), written, left(c), louder) : f = d
      BY ONLY <3>1, OneDecision
    <3> QED
      BY <3>2, <3>3
  <2>5. \A p \in left(c) : p \in opened /\ ~(p \in finished /\ p < c)
    OBVIOUS
  <2>6. d.k = "h" => (Earlier(c, d.parent) <=> ~(d.parent < c) /\ d.parent # c)
    <3>1. d.k = "h" => d.parent \in Nat /\ c \in Nat
      BY <1>3, <2>2, <2>3, <2>4
    <3> QED
      BY <3>1 DEF Earlier
  <2> QED
    BY <2>1, <2>4, <2>5, <2>6
<1> HIDE DEF dueOf, finOf
<1>8. /\ \A d, f \in due \cup fin : d.ch = f.ch => d = f
      /\ \A d \in due, f \in fin : d.ch # f.ch
  <2> HIDE DEF due, fin, isDue, waiting
  <2>1. ASSUME NEW d \in due, NEW f \in due, d.ch = f.ch PROVE d = f
    BY <1>6, <2>1
  <2>2. ASSUME NEW d \in fin, NEW f \in fin, d.ch = f.ch PROVE d = f
    BY <1>7, <2>2
  <2>3. ASSUME NEW d \in due, NEW f \in fin PROVE d.ch # f.ch
    BY <1>6, <1>7
  <2> QED
    BY <2>1, <2>2, <2>3
<1> HIDE DEF due, fin
<1>9. \A c \in Channels : pending'[c] # None =>
         /\ pending[c] # None \/ c \in started
         /\ c \notin finished /\ c \notin Decided(due)
  BY <1>2, <1>4, <1>6 DEF Decided
<1>10. pending' \in [Channels -> {None} \cup Nat]
  BY <1>2, <1>4
<1>11. /\ \A d \in due \cup fin : d.ch \in open \cup started
       /\ \A d \in due \cup fin : pending[d.ch] # None \/ d.ch \in started
       /\ \A d \in due \cup fin : d.k = "h" => d.parent \in open \cup started /\ d.parent # d.ch
  BY <1>4, <1>6, <1>7
<1>12. /\ \A d \in fin : d.ch \in finished
       /\ \A d \in fin : d.k = "h" /\ d.parent \in finished => Earlier(d.ch, d.parent)
  BY <1>7
<1>13. due \in SUBSET Decisions /\ fin \in SUBSET Decisions
  BY <1>6, <1>7
<1>14. FrameSays(started, finished, due, fin)
  <2>1. /\ open' = (open \cup started) \ finished
        /\ out' = IF started \cup finished = {} /\ due = {} THEN out
                  ELSE Append(out, Frame(ring.gen, started, due, fin, finished))
    BY <1>2
  <2>2. started \in SUBSET (Channels \ open) /\ finished \in SUBSET open
    OBVIOUS
  <2> HIDE DEF isDue, waiting, opened
  <2>3. FrameMoves(started, finished, due)
    BY ONLY <2>1, <2>2, <1>9, <1>10 DEF FrameMoves
  <2>4. FrameDecides(started, finished, due, fin)
    BY ONLY <1>8, <1>11, <1>12, <1>13 DEF FrameDecides
  <2> QED
    BY ONLY <2>1, <2>3, <2>4 DEF FrameSays
<1> QED
  BY <1>2, <1>14 DEF written

LEMMA MadeOfLines ==
  /\ \A c \in Nat : Tuned(c) \in Lines /\ Linearity(c) \in Lines
  /\ \A c, g \in Nat : Window(c, g) \in Lines
  /\ \A t \in {"close", "stall", "eof", "__eof__"} : Line(t) \in Lines
  /\ \A g \in Nat, s \in SUBSET Channels, due \in SUBSET Decisions,
        fin \in SUBSET Decisions, e \in SUBSET Channels : Frame(g, s, due, fin, e) \in Lines
<1>1. \A g \in Nat, s \in SUBSET Channels, due \in SUBSET Decisions,
         fin \in SUBSET Decisions, e \in SUBSET Channels : Frame(g, s, due, fin, e) \in Lines
  BY DEF Frame, Lines
<1>2. \A c \in Nat : Tuned(c) \in Lines /\ Linearity(c) \in Lines
  BY DEF Tuned, Linearity, Lines
<1>3. \A c, g \in Nat : Window(c, g) \in Lines
  BY DEF Window, Lines
<1>4. \A t \in {"close", "stall", "eof", "__eof__"} : Line(t) \in Lines
  BY DEF Line, Lines
<1> QED
  BY <1>1, <1>2, <1>3, <1>4

LEMMA MadeOfMessages ==
  /\ \A k \in {"close", "frame", "overflow", "stop", "stall", "eof"} : Plain(k) \in Messages
  /\ \A c \in Nat, k \in {"tuned", "window"} : ToDsp(k, c) \in Messages
BY DEF Plain, ToDsp, Messages

LEMMA ShortSeqs ==
  ASSUME NEW S, NEW a \in S, NEW b \in S, NEW c \in S
  PROVE  <<a>> \in Seq(S) /\ <<a, b>> \in Seq(S) /\ <<a, b, c>> \in Seq(S)
OBVIOUS

LEMMA QueueTail ==
  ASSUME NEW S, NEW q \in Seq(S), q # <<>>
  PROVE  /\ Head(q) \in S /\ Tail(q) \in Seq(S)
         /\ Len(q) \in Nat /\ Len(Tail(q)) \in Nat /\ Len(Tail(q)) < Len(q)
BY HeadTailProperties, LenProperties

LEMMA ReaderTypes ==
  ASSUME EngineTypes, Reader, UNCHANGED may
  PROVE  EngineTypes'
<1> USE DEF EngineTypes
<1>1. CASE Send
  <2>1. Head(todo) \in Messages /\ Tail(todo) \in Seq(Messages)
    BY <1>1, QueueTail DEF Send
  <2>2. /\ Append(toDsp, Head(todo)) \in Seq(Messages)
        /\ Len(Append(toDsp, Head(todo))) = Len(toDsp) + 1
    BY <2>1, AppendProperties
  <2>3. Len(toDsp) \in Nat /\ DspQueue \in Nat
    BY LenProperties, EngineConstants
  <2> QED
    BY <1>1, <2>1, <2>2, <2>3 DEF Send
<1>2. CASE CommandOpen
  <2>1. Head(cmds) \in Commands /\ Tail(cmds) \in Seq(Commands) /\ Head(cmds).cmd = "open"
    BY <1>2, QueueTail DEF CommandOpen
  <2>2. Head(cmds).center \in Nat
    BY <2>1, CommandFields
  <2>3. OpenMessages(Head(cmds).center) \in Seq(Messages)
    BY <2>2, MadeOfMessages, ShortSeqs DEF OpenMessages
  <2> QED
    BY <1>2, <2>1, <2>3 DEF CommandOpen
<1>3. CASE CommandOpenFails
  <2>1. Tail(cmds) \in Seq(Commands) /\ <<Plain("close")>> \in Seq(Messages)
    BY <1>3, QueueTail, MadeOfMessages, ShortSeqs DEF CommandOpenFails
  <2> QED
    BY <1>3, <2>1 DEF CommandOpenFails
<1>4. ASSUME NEW why \in {"stop", "stall", "eof"}, Leave(why)
      PROVE  todo' \in Seq(Messages) /\ reader' = "gone"
  BY <1>4, MadeOfMessages, ShortSeqs DEF Leave
<1>5. CASE CommandStop
  <2>1. Tail(cmds) \in Seq(Commands)
    BY <1>5, QueueTail DEF CommandStop
  <2> QED
    BY <1>4, <1>5, <2>1 DEF CommandStop
<1>6. CASE ReadSamples \/ ReadOverflow
  <2>1. <<Plain("frame")>> \in Seq(Messages) /\ <<Plain("overflow")>> \in Seq(Messages)
    BY MadeOfMessages, ShortSeqs
  <2>2. todo' \in Seq(Messages) /\ reads' = reads + 1 /\ stalled' = 0
    BY <1>6, <2>1 DEF ReadSamples, ReadOverflow
  <2>3. UNCHANGED <<cmds, reader, toDsp, det, ring, open, pending, out, engine>>
    BY <1>6 DEF ReadSamples, ReadOverflow
  <2> QED
    BY <2>2, <2>3
<1>7. CASE ReadNothing
  BY <1>4, <1>7 DEF ReadNothing
<1>8. CASE ReadEof
  BY <1>4, <1>8 DEF ReadEof
<1> QED
  BY <1>1, <1>2, <1>3, <1>5, <1>6, <1>7, <1>8 DEF Reader

LEMMA ReceivedTypes ==
  ASSUME EngineTypes, NEW k, Receives(k)
  PROVE  /\ Head(toDsp) \in Messages /\ Head(toDsp).k = k
         /\ toDsp' \in Seq(Messages) /\ Len(toDsp') <= DspQueue
<1>1. Len(toDsp') < Len(toDsp) /\ Len(toDsp) \in Nat /\ Len(toDsp') \in Nat
  BY QueueTail DEF EngineTypes, Receives
<1>2. DspQueue \in Nat
  BY EngineConstants
<1> QED
  BY <1>1, <1>2, QueueTail DEF EngineTypes, Receives

LEMMA DspTypes ==
  ASSUME EngineTypes, Dsp, UNCHANGED may
  PROVE  EngineTypes'
<1> USE DEF EngineTypes, ReaderUnchanged
<1>1. CASE DspTuned
  <2>1. Receives("tuned") /\ Head(toDsp) \in Messages /\ toDsp' \in Seq(Messages) /\ Len(toDsp') <= DspQueue
        /\ Head(toDsp).k = "tuned"
    BY <1>1, ReceivedTypes DEF DspTuned
  <2>2. Tuned(Head(toDsp).center) \in Lines
    BY <2>1, MessageFields, MadeOfLines
  <2>3. Append(out, Tuned(Head(toDsp).center)) \in Seq(Lines)
    BY <2>2, AppendProperties
  <2> QED
    BY <1>1, <2>1, <2>3 DEF DspTuned
<1>2. CASE DspWindow
  <2> DEFINE c == Head(toDsp).center
             g == ring.gen + 1
             first == IF FromFile THEN out ELSE Append(out, Linearity(c))
  <2>1. Receives("window") /\ Head(toDsp) \in Messages /\ toDsp' \in Seq(Messages) /\ Len(toDsp') <= DspQueue
        /\ Head(toDsp).k = "window"
    BY <1>2, ReceivedTypes DEF DspWindow
  <2>2. c \in Nat /\ g \in Nat
    BY <2>1, MessageFields
  <2>3. out' = first \o <<Window(c, g)>> /\ ring' = [gen |-> g, center |-> c, written |-> 0] /\ det' = c
    BY <1>2 DEF DspWindow
  <2>4. open' = {} /\ pending' = NonePending
    BY <1>2 DEF DspWindow
  <2>5. UNCHANGED <<may, cmds, reader, todo, stalled, reads, engine>>
    BY <1>2 DEF DspWindow
  <2> HIDE DEF c, g
  <2>6. Linearity(c) \in Lines /\ Window(c, g) \in Lines
    BY <2>2, MadeOfLines
  <2>7. first \in Seq(Lines)
    BY <2>6, AppendProperties
  <2> HIDE DEF first
  <2>8. out' \in Seq(Lines)
    BY <2>3, <2>6, <2>7, ConcatProperties, ShortSeqs
  <2> QED
    BY <2>1, <2>2, <2>3, <2>4, <2>5, <2>8 DEF NonePending
<1>3. CASE DspClose
  <2>1. Receives("close") /\ toDsp' \in Seq(Messages) /\ Len(toDsp') <= DspQueue
    BY <1>3, ReceivedTypes DEF DspClose
  <2>2. Append(out, Line("close")) \in Seq(Lines)
    BY MadeOfLines, AppendProperties
  <2> QED
    BY <1>3, <2>1, <2>2 DEF DspClose, NonePending
<1>4. CASE DspFrame
  <2>1. Receives("frame") /\ toDsp' \in Seq(Messages) /\ Len(toDsp') <= DspQueue
    BY <1>4, ReceivedTypes DEF DspFrame
  <2>2. ring' = [ring EXCEPT !.written = ring.written + 1]
    BY <1>4, DspFrameSays
  <2>3. PICK started, finished, due, fin : FrameSays(started, finished, due, fin)
    BY <1>4, DspFrameSays
  <2>4. Frame(ring.gen, started, due, fin, finished) \in Lines
    BY <2>3, MadeOfLines DEF FrameSays, FrameMoves, FrameDecides
  <2>5. Append(out, Frame(ring.gen, started, due, fin, finished)) \in Seq(Lines)
    BY <2>4, AppendProperties
  <2>6. out' \in Seq(Lines) /\ open' \subseteq Channels /\ pending' \in [Channels -> {None} \cup Nat]
    BY <2>3, <2>5 DEF FrameSays, FrameMoves
  <2>7. ring' \in [gen : Nat, center : {None} \cup Nat, written : Nat]
    BY <2>2
  <2>8. UNCHANGED <<may, cmds, reader, todo, stalled, reads, det, engine>>
    BY <1>4 DEF DspFrame
  <2> QED
    BY <2>1, <2>6, <2>7, <2>8
<1>5. CASE DspFrameUnheard
  <2>1. Receives("frame") /\ toDsp' \in Seq(Messages) /\ Len(toDsp') <= DspQueue
    BY <1>5, ReceivedTypes DEF DspFrameUnheard
  <2>2. ring' \in [gen : Nat, center : {None} \cup Nat, written : Nat]
    BY <1>5 DEF DspFrameUnheard
  <2> QED
    BY <1>5, <2>1, <2>2 DEF DspFrameUnheard
<1>6. CASE DspOverflow
  <2>1. Receives("overflow") /\ toDsp' \in Seq(Messages) /\ Len(toDsp') <= DspQueue
    BY <1>6, ReceivedTypes DEF DspOverflow
  <2> QED
    BY <1>6, <2>1 DEF DspOverflow
<1>7. ASSUME NEW k, NEW lines \in Seq(Lines), DspReturns(k, lines)
      PROVE  EngineTypes'
  <2>1. Receives(k) /\ toDsp' \in Seq(Messages) /\ Len(toDsp') <= DspQueue
    BY <1>7, ReceivedTypes DEF DspReturns
  <2>2. out \o lines \in Seq(Lines)
    BY <1>7, ConcatProperties
  <2> QED
    BY <1>7, <2>1, <2>2 DEF DspReturns
<1>8. <<>> \in Seq(Lines) /\ <<Line("stall")>> \in Seq(Lines) /\ <<Line("eof")>> \in Seq(Lines)
  BY MadeOfLines, ShortSeqs
<1> QED
  BY <1>1, <1>2, <1>3, <1>4, <1>5, <1>6, <1>7, <1>8 DEF Dsp, DspStop, DspStall, DspEof

LEMMA EngineNextTypes ==
  ASSUME EngineTypes, EngineNext, UNCHANGED may
  PROVE  EngineTypes'
<1>1. CASE Exit
  <2>1. Append(out, Line("__eof__")) \in Seq(Lines)
    BY MadeOfLines, AppendProperties DEF EngineTypes
  <2> QED
    BY <1>1, <2>1 DEF Exit, EngineTypes
<1>2. CASE Crash
  <2>1. PICK k \in 0 .. Len(out) : out' = Append(SubSeq(out, 1, k), Line("__eof__"))
    BY <1>2 DEF Crash
  <2>2. \A i \in 1 .. k : out[i] \in Lines
    BY ElementOfSeq, LenProperties DEF EngineTypes
  <2>3. SubSeq(out, 1, k) \in Seq(Lines)
    BY <2>2, SubSeqProperties, LenProperties DEF EngineTypes
  <2>4. out' \in Seq(Lines)
    BY <2>1, <2>3, MadeOfLines, AppendProperties
  <2> QED
    BY <1>2, <2>4 DEF Crash, EngineTypes
<1> QED
  BY <1>1, <1>2, ReaderTypes, DspTypes DEF EngineNext

LEMMA TakesTypes ==
  ASSUME EngineTypes, NEW t, Takes(t), UNCHANGED may
  PROVE  /\ Head(out) \in Lines /\ Head(out).t = t /\ line = NoLine
         /\ EngineTypes'
<1>1. Head(out) \in Lines /\ Tail(out) \in Seq(Lines)
  BY QueueTail DEF EngineTypes, Takes
<1> QED
  BY <1>1 DEF EngineTypes, Takes

LEMMA SameEngineTypes ==
  ASSUME EngineTypes, UNCHANGED <<may, engineVars>>
  PROVE  EngineTypes'
BY DEF EngineTypes, engineVars

LEMMA CommandTypes ==
  ASSUME EngineTypes, NEW m \in Commands,
         cmds' = (IF engine = "gone" THEN cmds ELSE Append(cmds, m)),
         UNCHANGED <<may, reader, todo, stalled, reads, toDsp, det, ring, open, pending, out,
                     engine>>
  PROVE  EngineTypes'
<1>1. Append(cmds, m) \in Seq(Commands)
  BY AppendProperties DEF EngineTypes
<1> QED
  BY <1>1 DEF EngineTypes

LEMMA CommandsAre ==
  /\ CmdStop \in Commands
  /\ \A c \in Nat : CmdOpen(c) \in Commands
BY DEF CmdStop, CmdOpen, Commands

LEMMA WindowIsCentre ==
  ASSUME visits \in Nat
  PROVE  /\ Windows[(visits % Len(Windows)) + 1] \in Nat
         /\ Windows[(visits % Len(Windows)) + 1] \in {Windows[i] : i \in DOMAIN Windows}
<1>1. Len(Windows) \in Nat \ {0} /\ DOMAIN Windows = 1 .. Len(Windows)
  BY LoopConstants, EmptySeq, LenProperties
<1>2. (visits % Len(Windows)) + 1 \in 1 .. Len(Windows)
  BY <1>1
<1> QED
  BY <1>1, <1>2, LoopConstants, ElementOfSeq

LEMMA MinOfChannels ==
  ASSUME NEW S \in SUBSET Channels, S # {}
  PROVE  MinOf(S) \in S /\ \A d \in S : MinOf(S) <= d
<1>1. S \in SUBSET Nat
  BY DEF Channels
<1>2. \E c \in S : \A d \in S : c <= d
  BY <1>1, LeastNatural
<1> QED
  BY <1>2 DEF MinOf

(* Rows are written, never deleted or moved. *)
LEMMA RowsWritten ==
  ASSUME events \in Seq(EventRow), NEW ev, ev = [r \in DOMAIN events |-> ev[r]],
         \A r \in DOMAIN events : ev[r] \in EventRow
  PROVE  ev \in Seq(EventRow) /\ DOMAIN ev = DOMAIN events /\ Len(ev) = Len(events)
<1>1. DOMAIN events = 1 .. Len(events) /\ Len(events) \in Nat
  BY LenProperties
<1>2. ev \in [1 .. Len(events) -> EventRow]
  BY <1>1
<1> QED
  BY <1>1, <1>2, FunctionIsSeq

LEMMA WindowsWritten ==
  ASSUME windows \in Seq(WindowRow), NEW ws, ws = [w \in DOMAIN windows |-> ws[w]],
         \A w \in DOMAIN windows : ws[w] \in WindowRow
  PROVE  ws \in Seq(WindowRow) /\ DOMAIN ws = DOMAIN windows /\ Len(ws) = Len(windows)
<1>1. DOMAIN windows = 1 .. Len(windows) /\ Len(windows) \in Nat
  BY LenProperties
<1>2. ws \in [1 .. Len(windows) -> WindowRow]
  BY <1>1
<1> QED
  BY <1>1, <1>2, FunctionIsSeq

(* _close() and log.close(): the rows in S are given an end. *)
ClosedIn(S) == [r \in DOMAIN events |-> IF r \in S THEN [events[r] EXCEPT !.closed = grid.gen]
                                       ELSE events[r]]

LEMMA ClosedInTypes ==
  ASSUME Types, NEW S
  PROVE  /\ ClosedIn(S) \in Seq(EventRow) /\ DOMAIN ClosedIn(S) = DOMAIN events
         /\ Len(ClosedIn(S)) = Len(events)
         /\ \A r \in DOMAIN events :
              /\ ClosedIn(S)[r].ch = events[r].ch /\ ClosedIn(S)[r].window = events[r].window
              /\ ClosedIn(S)[r].gen = events[r].gen /\ ClosedIn(S)[r].center = events[r].center
              /\ ClosedIn(S)[r].parent = events[r].parent
              /\ ClosedIn(S)[r].result = events[r].result
              /\ ClosedIn(S)[r].closed = IF r \in S THEN grid.gen ELSE events[r].closed
<1>1. \A r \in DOMAIN events : events[r] \in EventRow
  BY ElementOfSeq, LenProperties DEF Types, RowTypes
<1>2. grid.gen \in {None} \cup Nat
  BY DEF Types, LoopTypes
<1>3. \A r \in DOMAIN events : ClosedIn(S)[r] \in EventRow
  BY <1>1, <1>2 DEF ClosedIn, EventRow
<1>4. ClosedIn(S) = [r \in DOMAIN events |-> ClosedIn(S)[r]]
  BY DEF ClosedIn
<1>5. events \in Seq(EventRow)
  BY DEF Types, RowTypes
<1>6. ClosedIn(S) \in Seq(EventRow) /\ DOMAIN ClosedIn(S) = DOMAIN events
      /\ Len(ClosedIn(S)) = Len(events)
  BY <1>3, <1>4, <1>5, RowsWritten
<1> QED
  BY <1>1, <1>6 DEF ClosedIn, EventRow

(* mark_harmonic() *)
Marked(r, p) == [events EXCEPT ![r].parent = p]

LEMMA MarkedTypes ==
  ASSUME Types, NEW r \in DOMAIN events, NEW p \in DOMAIN events
  PROVE  /\ Marked(r, p) \in Seq(EventRow) /\ DOMAIN Marked(r, p) = DOMAIN events
         /\ Len(Marked(r, p)) = Len(events)
         /\ \A i \in DOMAIN events :
              /\ Marked(r, p)[i].ch = events[i].ch /\ Marked(r, p)[i].window = events[i].window
              /\ Marked(r, p)[i].gen = events[i].gen /\ Marked(r, p)[i].center = events[i].center
              /\ Marked(r, p)[i].closed = events[i].closed
              /\ Marked(r, p)[i].result = events[i].result
              /\ Marked(r, p)[i].parent = IF i = r THEN p ELSE events[i].parent
<1>1. \A i \in DOMAIN events : events[i] \in EventRow
  BY ElementOfSeq, LenProperties DEF Types, RowTypes
<1>2. events \in Seq(EventRow) /\ p \in Nat
  BY LenProperties DEF Types, RowTypes
<1>3. \A i \in DOMAIN events : Marked(r, p)[i] \in EventRow
  BY <1>1, <1>2 DEF Marked, EventRow
<1>4. Marked(r, p) = [i \in DOMAIN events |-> Marked(r, p)[i]]
  BY DEF Marked
<1>5. Marked(r, p) \in Seq(EventRow) /\ DOMAIN Marked(r, p) = DOMAIN events
      /\ Len(Marked(r, p)) = Len(events)
  BY <1>2, <1>3, <1>4, RowsWritten
<1> QED
  BY <1>1, <1>5 DEF Marked, EventRow

(* log.apply() *)
LEMMA CollectTypes ==
  ASSUME Types, Collect
  PROVE  /\ events' \in Seq(EventRow) /\ DOMAIN events' = DOMAIN events
         /\ Len(events') = Len(events) /\ results' = <<>>
         /\ \A r \in DOMAIN events :
              /\ events'[r].ch = events[r].ch /\ events'[r].window = events[r].window
              /\ events'[r].gen = events[r].gen /\ events'[r].center = events[r].center
              /\ events'[r].parent = events[r].parent /\ events'[r].closed = events[r].closed
              /\ \/ events'[r].result = events[r].result
                 \/ \E i \in DOMAIN results : results[i].row = r /\ events'[r].result = results[i].gen
<1>1. \A r \in DOMAIN events : events[r] \in EventRow
  BY ElementOfSeq, LenProperties DEF Types, RowTypes
<1>2. events \in Seq(EventRow)
  BY DEF Types, RowTypes
<1>3. /\ DOMAIN results = 1 .. Len(results)
      /\ \A i \in DOMAIN results : results[i] \in Answers
  BY ElementOfSeq, LenProperties DEF Types, RowTypes
<1>4. results' = <<>>
      /\ events' = [r \in DOMAIN events |->
                  IF Analysed(r) = {} THEN events[r]
                  ELSE [events[r] EXCEPT
                          !.result = results[CHOOSE i \in Analysed(r) : TRUE].gen]]
  BY DEF Collect
<1>5. ASSUME NEW r \in DOMAIN events
      PROVE  /\ events'[r] \in EventRow
             /\ events'[r].ch = events[r].ch /\ events'[r].window = events[r].window
             /\ events'[r].gen = events[r].gen /\ events'[r].center = events[r].center
             /\ events'[r].parent = events[r].parent /\ events'[r].closed = events[r].closed
             /\ \/ events'[r].result = events[r].result
                \/ \E i \in DOMAIN results : results[i].row = r /\ events'[r].result = results[i].gen
  <2>1. CASE Analysed(r) = {}
    <3>1. events'[r] = events[r]
      BY <1>4, <2>1
    <3> QED
      BY <1>1, <3>1
  <2>2. CASE Analysed(r) # {}
    <3> DEFINE n == CHOOSE i \in Analysed(r) : TRUE
    <3>1. n \in Analysed(r)
      BY <2>2
    <3>2. events'[r] = [events[r] EXCEPT !.result = results[n].gen]
      BY <1>4, <2>2
    <3> HIDE DEF n
    <3>3. n \in DOMAIN results /\ results[n].row = r
      BY <1>3, <3>1 DEF Analysed
    <3>4. results[n].gen \in {None} \cup Nat
      BY <1>3, <3>3 DEF Answers
    <3>5. events[r] \in EventRow
      BY <1>1
    <3> QED
      BY <3>2, <3>3, <3>4, <3>5 DEF EventRow
  <2> QED
    BY <2>1, <2>2
<1>6. events' = [r \in DOMAIN events |-> events'[r]]
  BY <1>4
<1>7. events' \in Seq(EventRow) /\ DOMAIN events' = DOMAIN events /\ Len(events') = Len(events)
  BY <1>2, <1>5, <1>6, RowsWritten
<1> QED
  BY <1>4, <1>5, <1>7

(* log.start() *)
Started(ch) == Append(events, [ch |-> ch, window |-> logWindow, gen |-> line.heard,
                               center |-> grid.center, closed |-> None,
                               parent |-> None, result |-> None])

LEMMA StartedTypes ==
  ASSUME Types, NEW ch \in Channels
  PROVE  /\ Started(ch) \in Seq(EventRow) /\ Len(events) \in Nat
         /\ DOMAIN events = 1 .. Len(events)
         /\ DOMAIN Started(ch) = DOMAIN events \cup {Len(events) + 1}
         /\ Len(events) + 1 \notin DOMAIN events
         /\ \A r \in DOMAIN events : Started(ch)[r] = events[r]
         /\ Started(ch)[Len(events) + 1]
              = [ch |-> ch, window |-> logWindow, gen |-> line.heard, center |-> grid.center,
                 closed |-> None, parent |-> None, result |-> None]
<1> DEFINE row == [ch |-> ch, window |-> logWindow, gen |-> line.heard, center |-> grid.center,
                   closed |-> None, parent |-> None, result |-> None]
<1>1. row \in EventRow
  BY DEF Types, LoopTypes, Unreplayed, EventRow
<1>2. events \in Seq(EventRow) /\ Len(events) \in Nat /\ DOMAIN events = 1 .. Len(events)
  BY LenProperties DEF Types, RowTypes
<1> HIDE DEF row
<1> DEFINE ev == Append(events, row)
<1>3. /\ ev \in Seq(EventRow) /\ Len(ev) = Len(events) + 1
      /\ \A i \in 1 .. Len(events) : ev[i] = events[i]
      /\ ev[Len(events) + 1] = row
  BY <1>1, <1>2, AppendProperties
<1> HIDE DEF ev
<1>4. DOMAIN ev = 1 .. (Len(events) + 1)
  BY <1>3, LenProperties
<1>5. DOMAIN ev = DOMAIN events \cup {Len(events) + 1}
  BY <1>2, <1>4
<1>6. Len(events) + 1 \notin DOMAIN events
  BY <1>2
<1> QED
  BY <1>2, <1>3, <1>5, <1>6 DEF Started, ev, row

LEMMA RestFields ==
  ASSUME NEW l \in Unreplayed
  PROVE  /\ Rest(l) \in Unreplayed
         /\ Rest(l).s = l.s /\ Rest(l).due = l.due /\ Rest(l).fin = l.fin /\ Rest(l).e = l.e
         /\ Rest(l) # NoLine => Rest(l).heard = l.heard
BY DEF Rest, NoLine, Unreplayed

LEMMA LineHas ==
  ASSUME line \in Unreplayed
  PROVE  /\ line.s \subseteq Channels /\ line.e \subseteq Channels
         /\ line.due \subseteq Decisions /\ line.fin \subseteq Decisions
         /\ line = NoLine => line.s = {} /\ line.due = {} /\ line.fin = {} /\ line.e = {}
BY DEF Unreplayed, NoLine

(* Each step of a replay takes one thing off the line. *)
LEMMA LineLess ==
  ASSUME line \in Unreplayed, NEW x
  PROVE  /\ [line EXCEPT !.s = @ \ {x}] \in Unreplayed
         /\ [line EXCEPT !.due = @ \ {x}] \in Unreplayed
         /\ [line EXCEPT !.fin = @ \ {x}] \in Unreplayed
         /\ [line EXCEPT !.e = @ \ {x}] \in Unreplayed
BY DEF Unreplayed

LEMMA JobOfTypes ==
  ASSUME Types, NEW d \in Decisions, d.k = "a", openRows[d.ch] # None
  PROVE  /\ openRows[d.ch] \in DOMAIN events
         /\ JobOf(d) \in Jobs /\ JobOf(d) # NoJob
         /\ JobOf(d).row = openRows[d.ch] /\ JobOf(d).gen = grid.gen
<1>1. d.ch \in Channels /\ d.start \in Nat /\ d.n \in Nat
  BY DecisionFields
<1>2. openRows[d.ch] \in DOMAIN events /\ grid.gen \in {None} \cup Nat
  BY <1>1 DEF Types, RowTypes, LoopTypes
<1>3. openRows[d.ch] \in Nat
  BY <1>2, LenProperties DEF Types, RowTypes
<1> QED
  BY <1>1, <1>2, <1>3 DEF JobOf, Jobs, NoJob, None

LEMMA DecideCases ==
  ASSUME Types, NEW d \in Decisions, Decide(d)
  PROVE  \/ UNCHANGED <<jobs, events>>
         \/ /\ d.k = "a" /\ openRows[d.ch] # None
            /\ jobs' = Append(jobs, JobOf(d)) /\ Len(jobs) < AnalysisDepth
            /\ UNCHANGED events
         \/ /\ d.k = "h" /\ openRows[d.ch] # None /\ openRows[d.parent] # None
            /\ openRows[d.ch] \in DOMAIN events /\ openRows[d.parent] \in DOMAIN events
            /\ events' = Marked(openRows[d.ch], openRows[d.parent])
            /\ UNCHANGED jobs
<1>1. CASE d.k = "a"
  BY <1>1 DEF Decide, Accepts
<1>2. CASE d.k # "a"
  <2>1. d.k = "h" /\ d.ch \in Channels /\ d.parent \in Channels
    BY <1>2, DecisionFields
  <2>2. /\ openRows[d.ch] # None => openRows[d.ch] \in DOMAIN events
        /\ openRows[d.parent] # None => openRows[d.parent] \in DOMAIN events
    BY <2>1 DEF Types, RowTypes
  <2> QED
    BY <1>2, <2>1, <2>2 DEF Decide, Marked
<1> QED
  BY <1>1, <1>2

LEMMA DecideTypes ==
  ASSUME Types, NEW d \in Decisions, Decide(d)
  PROVE  /\ events' \in Seq(EventRow) /\ DOMAIN events' = DOMAIN events
         /\ jobs' \in Seq(Jobs) /\ Len(jobs') <= AnalysisDepth
<1>1. /\ jobs \in Seq(Jobs) /\ Len(jobs) <= AnalysisDepth /\ Len(jobs) \in Nat
      /\ events \in Seq(EventRow) /\ AnalysisDepth \in Nat
  BY LenProperties, LoopConstants DEF Types, RowTypes
<1>2. CASE UNCHANGED <<jobs, events>>
  BY <1>1, <1>2
<1>3. CASE /\ d.k = "a" /\ openRows[d.ch] # None
           /\ jobs' = Append(jobs, JobOf(d)) /\ Len(jobs) < AnalysisDepth
           /\ UNCHANGED events
  <2>1. JobOf(d) \in Jobs
    BY <1>3, JobOfTypes
  <2>2. jobs' \in Seq(Jobs) /\ Len(jobs') = Len(jobs) + 1
    BY <1>1, <1>3, <2>1, AppendProperties
  <2> QED
    BY <1>1, <1>3, <2>2
<1>4. CASE /\ openRows[d.ch] \in DOMAIN events /\ openRows[d.parent] \in DOMAIN events
           /\ events' = Marked(openRows[d.ch], openRows[d.parent])
           /\ UNCHANGED jobs
  BY <1>1, <1>4, MarkedTypes
<1> QED
  BY <1>2, <1>3, <1>4, DecideCases

LEMMA EndIsClosed ==
  ASSUME Types, ReplayEnd
  PROVE  /\ Ending \in line.e /\ Ending \in Channels
         /\ \A c \in line.e : Ending <= c
         /\ events' = ClosedIn({openRows[Ending]} \ {None})
<1>1. Ending \in line.e /\ Ending \in Channels /\ \A c \in line.e : Ending <= c
  BY LineHas, MinOfChannels DEF Types, LoopTypes, ReplayEnd, Ending
<1> DEFINE row == openRows[Ending]
<1>2. row \in {None} \cup DOMAIN events
  BY <1>1 DEF Types, RowTypes
<1>3. events' = IF row = None THEN events ELSE [events EXCEPT ![row].closed = grid.gen]
  BY DEF ReplayEnd
<1>4. events = [r \in DOMAIN events |-> events[r]]
  BY LenProperties DEF Types, RowTypes
<1> HIDE DEF row
<1>5. events' = ClosedIn({row} \ {None})
  <2>1. CASE row = None
    BY <1>3, <1>4, <2>1 DEF ClosedIn
  <2>2. CASE row # None
    BY <1>2, <1>3, <1>4, <2>2 DEF ClosedIn
  <2> QED
    BY <2>1, <2>2
<1> QED
  BY <1>1, <1>5 DEF row

LEMMA ReplayTypes ==
  ASSUME Types, Replay, UNCHANGED may
  PROVE  Types'
<1>1. /\ UNCHANGED <<may, engineVars>>
      /\ UNCHANGED <<pc, running, visits, center, grid, windowId, logWindow, worker, results,
                     status, windows, ended>>
  BY DEF Replay, ReplayStart, ReplayDue, ReplayLast, ReplayEnd, ReplayUnchanged
<1>2. EngineTypes'
  BY <1>1, SameEngineTypes DEF Types
<1>3. SUFFICES /\ line' \in Unreplayed
               /\ events' \in Seq(EventRow)
               /\ openRows' \in [Channels -> {None} \cup DOMAIN events']
               /\ jobs' \in Seq(Jobs) /\ Len(jobs') <= AnalysisDepth
  BY <1>1, <1>2 DEF Types, LoopTypes, RowTypes
<1>4. /\ line \in Unreplayed /\ events \in Seq(EventRow)
      /\ openRows \in [Channels -> {None} \cup DOMAIN events]
      /\ jobs \in Seq(Jobs) /\ Len(jobs) <= AnalysisDepth
  BY DEF Types, LoopTypes, RowTypes
<1>5. CASE ReplayStart
  <2> DEFINE ch == MinOf(line.s)
  <2>1. ch \in Channels
    BY <1>4, <1>5, LineHas, MinOfChannels DEF ReplayStart
  <2>2. /\ events' = Started(ch) /\ openRows' = [openRows EXCEPT ![ch] = Len(events) + 1]
        /\ line' = Rest([line EXCEPT !.s = @ \ {ch}]) /\ jobs' = jobs
    BY <1>5 DEF ReplayStart, Started
  <2> HIDE DEF ch
  <2>3. events' \in Seq(EventRow) /\ DOMAIN events' = DOMAIN events \cup {Len(events) + 1}
    BY <2>1, <2>2, StartedTypes
  <2>4. line' \in Unreplayed
    BY <1>4, <2>2, LineLess, RestFields
  <2> QED
    BY <1>4, <2>1, <2>2, <2>3, <2>4
<1>6. CASE ReplayDue
  <2>1. PICK d \in line.due : Decide(d) /\ line' = Rest([line EXCEPT !.due = @ \ {d}])
    BY <1>6 DEF ReplayDue
  <2>2. d \in Decisions /\ openRows' = openRows
    BY <1>4, <1>6, LineHas DEF ReplayDue
  <2>3. line' \in Unreplayed
    BY <1>4, <2>1, LineLess, RestFields
  <2> QED
    BY <1>4, <2>1, <2>2, <2>3, DecideTypes
<1>7. CASE ReplayLast
  <2>1. PICK d \in line.fin : Decide(d) /\ line' = Rest([line EXCEPT !.fin = @ \ {d}])
    BY <1>7 DEF ReplayLast
  <2>2. d \in Decisions /\ openRows' = openRows
    BY <1>4, <1>7, LineHas DEF ReplayLast
  <2>3. line' \in Unreplayed
    BY <1>4, <2>1, LineLess, RestFields
  <2> QED
    BY <1>4, <2>1, <2>2, <2>3, DecideTypes
<1>8. CASE ReplayEnd
  <2> DEFINE row == openRows[Ending]
  <2>1. Ending \in Channels
    BY <1>4, <1>8, LineHas, MinOfChannels DEF ReplayEnd, Ending
  <2>2. row \in {None} \cup DOMAIN events
    BY <1>4, <2>1
  <2>3. events' = ClosedIn({row} \ {None})
    BY <1>8, EndIsClosed
  <2>4. events' \in Seq(EventRow) /\ DOMAIN events' = DOMAIN events
    BY <2>3, ClosedInTypes
  <2>5. line' \in Unreplayed /\ jobs' = jobs /\ openRows' = [openRows EXCEPT ![Ending] = None]
    BY <1>4, <1>8, LineLess, RestFields DEF ReplayEnd
  <2> QED
    BY <1>4, <2>1, <2>4, <2>5
<1> QED
  BY <1>5, <1>6, <1>7, <1>8 DEF Replay

(* coverage_windows: the row open now is written. *)
LEMMA WindowRowTypes ==
  ASSUME Types
  PROVE  /\ windows \in Seq(WindowRow) /\ DOMAIN windows = 1 .. Len(windows) /\ Len(windows) \in Nat
         /\ \A w \in DOMAIN windows : windows[w] \in WindowRow
         /\ WindowsClosed \in Seq(WindowRow) /\ DOMAIN WindowsClosed = DOMAIN windows
         /\ Len(WindowsClosed) = Len(windows)
         /\ \A w \in DOMAIN windows :
              /\ WindowsClosed[w].center = windows[w].center
              /\ WindowsClosed[w].linear = windows[w].linear
              /\ WindowsClosed[w].closed = (windows[w].closed \/ w = windowId)
<1>1. /\ windows \in Seq(WindowRow) /\ DOMAIN windows = 1 .. Len(windows) /\ Len(windows) \in Nat
      /\ \A w \in DOMAIN windows : windows[w] \in WindowRow
      /\ windowId \in {None} \cup DOMAIN windows
  BY ElementOfSeq, LenProperties DEF Types, LoopTypes
<1>2. WindowsClosed = [w \in DOMAIN windows |-> WindowsClosed[w]]
  <2>1. windows = [w \in DOMAIN windows |-> windows[w]]
    BY <1>1
  <2> QED
    BY <1>1, <2>1 DEF WindowsClosed
<1>3. None \notin DOMAIN windows
  BY <1>1 DEF None
<1>4. \A w \in DOMAIN windows :
         /\ WindowsClosed[w] \in WindowRow
         /\ WindowsClosed[w].center = windows[w].center
         /\ WindowsClosed[w].linear = windows[w].linear
         /\ WindowsClosed[w].closed = (windows[w].closed \/ w = windowId)
  BY <1>1, <1>3 DEF WindowsClosed, WindowRow
<1>5. /\ WindowsClosed \in Seq(WindowRow) /\ DOMAIN WindowsClosed = DOMAIN windows
      /\ Len(WindowsClosed) = Len(windows)
  BY <1>1, <1>2, <1>4, WindowsWritten
<1> QED
  BY <1>1, <1>4, <1>5

(* The lines that are not a frame's. *)
LEMMA HandleTypes ==
  ASSUME Types, Handle, UNCHANGED may
  PROVE  Types'
<1> USE DEF Types, LoopTypes, RowTypes
<1>1. CASE OnTuned
  <2>1. Takes("tuned") /\ UNCHANGED <<running, visits, grid, openRows, line, status, events, ended>>
        /\ UNCHANGED analysisVars /\ center' = Head(out).center
    BY <1>1 DEF OnTuned
  <2>2. EngineTypes' /\ center' \in Nat
    BY <2>1, TakesTypes, LineFields
  <2>3. CASE pc = "tuned"
    <3> DEFINE row == [center |-> center', closed |-> FALSE, linear |-> None]
    <3>1. row \in WindowRow
      BY <2>2 DEF WindowRow
    <3>2. /\ windows' = Append(windows, row) /\ windowId' = Len(windows') /\ logWindow' = Len(windows')
          /\ pc' = "window"
      BY <1>1, <2>3 DEF OnTuned
    <3> HIDE DEF row
    <3>3. windows' \in Seq(WindowRow) /\ Len(windows') = Len(windows) + 1 /\ Len(windows) \in Nat
      BY <3>1, <3>2, AppendProperties, LenProperties
    <3>4. Len(windows') \in DOMAIN windows'
      BY <3>3, LenProperties
    <3> QED
      BY <2>1, <2>2, <3>2, <3>3, <3>4 DEF analysisVars, Looping
  <2>4. CASE pc # "tuned"
    <3>1. UNCHANGED <<windows, windowId, logWindow, pc>>
      BY <1>1, <2>4 DEF OnTuned
    <3> QED
      BY <2>1, <2>2, <3>1 DEF analysisVars
  <2> QED
    BY <2>3, <2>4
<1>2. CASE OnLinearity
  <2>1. Takes("linearity") /\ UNCHANGED <<loopVars, analysisVars, events, ended>>
        /\ windows' = IF windowId = None THEN windows
                ELSE [windows EXCEPT ![windowId].linear = Head(out).center]
    BY <1>2 DEF OnLinearity
  <2>2. EngineTypes' /\ Head(out).center \in Nat
    BY <2>1, TakesTypes, LineFields
  <2>3. windows' \in Seq(WindowRow) /\ DOMAIN windows' = DOMAIN windows
    <3>1. CASE windowId = None
      BY <2>1, <3>1
    <3>2. CASE windowId # None
      <4>1. windowId \in DOMAIN windows /\ \A w \in DOMAIN windows : windows[w] \in WindowRow
        BY <3>2, WindowRowTypes
      <4>2. \A w \in DOMAIN windows : windows'[w] \in WindowRow
        BY <2>1, <2>2, <3>2, <4>1 DEF WindowRow
      <4>3. windows' = [w \in DOMAIN windows |-> windows'[w]]
        BY <2>1, <3>2
      <4> QED
        BY <4>2, <4>3, WindowsWritten
    <3> QED
      BY <3>1, <3>2
  <2> QED
    BY <2>1, <2>2, <2>3 DEF loopVars, analysisVars
<1>3. CASE OnWindow
  <2>1. Takes("window") /\ grid' = GridOf(Head(out)) /\ pc' = (IF pc = "window" THEN "pump" ELSE pc)
        /\ UNCHANGED <<running, visits, center, windowId, logWindow, openRows, line, status>>
        /\ UNCHANGED <<analysisVars, dbVars>>
    BY <1>3 DEF OnWindow
  <2>2. EngineTypes' /\ grid' \in [gen : {None} \cup Nat, center : {None} \cup Nat]
    BY <2>1, TakesTypes, LineFields DEF GridOf
  <2> QED
    BY <2>1, <2>2 DEF analysisVars, dbVars, Looping
<1>4. CASE OnFrame
  <2>1. Takes("f")
        /\ line' = [heard |-> Head(out).heard, s |-> Head(out).s, due |-> Head(out).due,
                     fin |-> Head(out).fin, e |-> Head(out).e]
        /\ UNCHANGED <<pc, running, visits, center, grid, windowId, logWindow, openRows, status>>
        /\ UNCHANGED <<analysisVars, dbVars>>
    BY <1>4 DEF OnFrame
  <2>2. EngineTypes' /\ line' \in Unreplayed
    BY <2>1, TakesTypes, LineFields DEF Unreplayed
  <2> QED
    BY <2>1, <2>2 DEF analysisVars, dbVars
<1>5. CASE OnClose
  <2> DEFINE S == {r \in DOMAIN events : \E c \in Channels : openRows[c] = r}
  <2>1. Takes("close") /\ openRows' = NoRows /\ windows' = WindowsClosed /\ windowId' = None
        /\ UNCHANGED <<pc, running, visits, center, grid, logWindow, line, status, ended>>
        /\ UNCHANGED analysisVars
    BY <1>5 DEF OnClose
  <2>2. EngineTypes'
    BY <2>1, TakesTypes
  <2>3. events' = ClosedIn(S)
    BY <1>5 DEF OnClose, ClosedIn
  <2>4. events' \in Seq(EventRow) /\ windows' \in Seq(WindowRow)
    BY <2>1, <2>3, ClosedInTypes, WindowRowTypes
  <2> QED
    BY <2>1, <2>2, <2>4 DEF analysisVars, NoRows
<1>6. ASSUME NEW t, EngineEnds(t) PROVE Types'
  <2>1. EngineTypes'
    BY <1>6, TakesTypes DEF EngineEnds
  <2>2. status' \in {0, 1}
    BY <1>6 DEF EngineEnds, GoneStatus
  <2> QED
    BY <1>6, <2>1, <2>2 DEF EngineEnds, Goes, analysisVars, dbVars
<1> QED
  BY <1>1, <1>2, <1>3, <1>4, <1>5, <1>6 DEF Handle

LEMMA FailsTypes ==
  ASSUME Types, StatementFails, UNCHANGED may
  PROVE  Types'
<1> USE DEF Types, LoopTypes, RowTypes
<1>1. ASSUME Fails
      PROVE  /\ pc' \in {"finish", "died"} /\ status' = 1
             /\ worker' \in [state : {"idle", "copying", "exited", "dead", "terminated"}, job : Jobs]
             /\ UNCHANGED <<running, visits, grid, windowId, logWindow, jobs, ended>>
  BY <1>1 DEF Fails, Jobs
<1>2. CASE FrameFails
  <2>1. Fails /\ line' = NoLine /\ UNCHANGED <<engineVars, center, results, windows, events>>
    BY <1>2 DEF FrameFails
  <2>2. EngineTypes'
    BY <2>1, SameEngineTypes
  <2>3. NoLine \in Unreplayed
    BY DEF NoLine, Unreplayed
  <2>4. openRows' \in [Channels -> {None} \cup DOMAIN events]
    BY <1>2 DEF FrameFails
  <2> QED
    BY <1>1, <2>1, <2>2, <2>3, <2>4
<1>3. CASE CloseFails
  <2>1. Fails /\ Takes("close") /\ UNCHANGED <<center, line, results, windows>>
    BY <1>3 DEF CloseFails
  <2>2. EngineTypes'
    BY <2>1, TakesTypes
  <2>3. PICK done \in SUBSET {c \in Channels : openRows[c] # None}, lost \in Channels \cup {None} :
       /\ events' = [r \in DOMAIN events |->
                       IF \E c \in done : openRows[c] = r
                         THEN [events[r] EXCEPT !.closed = grid.gen] ELSE events[r]]
       /\ openRows' = [c \in Channels |-> IF c \in done \cup {lost} THEN None ELSE openRows[c]]
    BY <1>3 DEF CloseFails
  <2> DEFINE S == {r \in DOMAIN events : \E c \in done : openRows[c] = r}
  <2>4. events' = ClosedIn(S)
    BY <2>3 DEF ClosedIn
  <2>5. events' \in Seq(EventRow) /\ DOMAIN events' = DOMAIN events
    BY <2>4, ClosedInTypes
  <2>6. openRows' \in [Channels -> {None} \cup DOMAIN events]
    BY <2>3
  <2> QED
    BY <1>1, <2>1, <2>2, <2>5, <2>6
<1>4. CASE WindowFails
  <2>1. Fails /\ UNCHANGED <<line, openRows, results, windows, events>>
    BY <1>4 DEF WindowFails
  <2>2. EngineTypes' /\ center' \in {None} \cup Nat
    <3>1. CASE Takes("tuned") /\ center' = Head(out).center
      BY <3>1, TakesTypes, LineFields
    <3>2. CASE Takes("linearity") /\ UNCHANGED center
      BY <3>2, TakesTypes
    <3>3. CASE UNCHANGED <<engineVars, center>>
      BY <3>3, SameEngineTypes
    <3> QED
      BY <1>4, <3>1, <3>2, <3>3 DEF WindowFails
  <2> QED
    BY <1>1, <2>1, <2>2
<1>5. CASE CollectFails
  <2>1. Fails /\ results' = Tail(results) /\ results # <<>>
        /\ UNCHANGED <<engineVars, center, line, openRows, windows, events>>
    BY <1>5 DEF CollectFails
  <2>2. EngineTypes' /\ results' \in Seq(Answers)
    BY <2>1, SameEngineTypes, QueueTail
  <2> QED
    BY <1>1, <2>1, <2>2
<1> QED
  BY <1>2, <1>3, <1>4, <1>5 DEF StatementFails

LEMMA GoesTypes ==
  ASSUME Types, EngineTypes', UNCHANGED may, NEW from, NEW to \in Looping \cup Closing \cup {"finish", "drain"},
         Goes(from, to), status' \in {0, 1}
  PROVE  Types'
BY DEF Types, LoopTypes, RowTypes, Goes, analysisVars, dbVars

LEMMA FinishTypes ==
  ASSUME Types, Finish, UNCHANGED may
  PROVE  Types'
<1>1. EngineTypes /\ status \in {0, 1}
  BY DEF Types, LoopTypes
<1>2. CASE SendStop
  <2>1. EngineTypes'
    BY <1>1, <1>2, CommandTypes, CommandsAre DEF SendStop
  <2> QED
    BY <1>1, <1>2, <2>1, GoesTypes DEF SendStop
<1>3. CASE DrainSkips
  <2>1. EngineTypes'
    BY <1>1, <1>3, TakesTypes DEF DrainSkips
  <2> QED
    BY <1>3, <2>1 DEF DrainSkips, Types, LoopTypes, RowTypes, loopVars, analysisVars, dbVars
<1>4. CASE DrainEnds
  <2>1. EngineTypes'
    <3>1. CASE Takes("__eof__")
      BY <1>1, <3>1, TakesTypes
    <3>2. CASE ~Takes("__eof__")
      BY <1>1, <1>4, <3>2, CommandTypes, CommandsAre DEF DrainEnds
    <3> QED
      BY <3>1, <3>2
  <2>2. Goes("drain", "reap") /\ status' \in {0, 1}
    BY <1>1, <1>4 DEF DrainEnds
  <2> QED
    BY <2>1, <2>2, GoesTypes DEF Closing
<1>5. CASE Reap
  <2>1. EngineTypes'
    BY <1>1, <1>5 DEF Reap, EngineTypes
  <2> QED
    BY <1>1, <1>5, <2>1, GoesTypes DEF Reap, Closing
<1>6. CASE PutNone
  <2>1. EngineTypes'
    BY <1>1, <1>6, SameEngineTypes DEF PutNone
  <2>2. jobs \in Seq(Jobs) /\ Len(jobs) \in Nat /\ AnalysisDepth \in Nat /\ NoJob \in Jobs
    BY LenProperties, LoopConstants DEF Types, RowTypes, Jobs
  <2>3. jobs' \in Seq(Jobs) /\ Len(jobs') <= AnalysisDepth
    BY <1>6, <2>2, AppendProperties DEF PutNone
  <2> QED
    BY <1>6, <2>1, <2>3 DEF PutNone, Types, LoopTypes, RowTypes, dbVars, Closing
<1>7. CASE CollectLast
  <2>1. EngineTypes'
    BY <1>1, <1>7, SameEngineTypes DEF CollectLast
  <2>2. events' \in Seq(EventRow) /\ DOMAIN events' = DOMAIN events /\ results' = <<>>
    BY <1>7, CollectTypes DEF CollectLast
  <2> QED
    BY <1>7, <2>1, <2>2 DEF CollectLast, Types, LoopTypes, RowTypes, Closing
<1>8. CASE EndRun
  <2>1. EngineTypes'
    BY <1>1, <1>8, SameEngineTypes DEF EndRun
  <2>2. windows' \in Seq(WindowRow)
    BY <1>8, WindowRowTypes DEF EndRun
  <2>3. worker' \in [state : {"idle", "copying", "exited", "dead", "terminated"}, job : Jobs]
    BY <1>8 DEF EndRun, Types, RowTypes, Jobs
  <2> QED
    BY <1>8, <2>1, <2>2, <2>3 DEF EndRun, Types, LoopTypes, RowTypes, Closing
<1> QED
  BY <1>2, <1>3, <1>4, <1>5, <1>6, <1>7, <1>8 DEF Finish

LEMMA OrchestratorTypes ==
  ASSUME Types, Orchestrator
  PROVE  Types'
<1>1. EngineTypes /\ status \in {0, 1} /\ UNCHANGED may
  BY DEF Types, LoopTypes, Orchestrator
<1>2. CASE OpenWindow
  <2>1. visits \in Nat
    BY DEF Types, LoopTypes
  <2> DEFINE m == CmdOpen(Windows[(visits % Len(Windows)) + 1])
  <2>2. m \in Commands
    BY <2>1, WindowIsCentre, CommandsAre
  <2>3. cmds' = IF engine = "gone" THEN cmds ELSE Append(cmds, m)
    BY <1>2 DEF OpenWindow
  <2> HIDE DEF m
  <2>4. EngineTypes'
    BY <1>1, <1>2, <2>2, <2>3, CommandTypes DEF OpenWindow
  <2> QED
    BY <1>2, <2>1, <2>4 DEF OpenWindow, Types, LoopTypes, RowTypes, analysisVars, dbVars, Looping
<1>3. CASE Pumped
  <2>1. EngineTypes'
    BY <1>1, <1>3, SameEngineTypes DEF Pumped
  <2>2. events' \in Seq(EventRow) /\ DOMAIN events' = DOMAIN events /\ results' = <<>>
    BY <1>3, CollectTypes DEF Pumped
  <2> QED
    BY <1>3, <2>1, <2>2 DEF Pumped, Types, LoopTypes, RowTypes, Looping
<1>4. CASE PumpOn \/ DwellOver \/ StopSeen \/ WaitTimesOut
  <2>1. EngineTypes'
    BY <1>1, <1>4, SameEngineTypes DEF PumpOn, DwellOver, StopSeen, WaitTimesOut
  <2>2. status' \in {0, 1}
    BY <1>1, <1>4 DEF PumpOn, DwellOver, StopSeen, WaitTimesOut
  <2>3. PICK from, to \in Looping \cup {"finish"} : Goes(from, to)
    BY <1>4 DEF PumpOn, DwellOver, StopSeen, WaitTimesOut, Looping
  <2> QED
    BY <1>1, <2>1, <2>2, <2>3, GoesTypes
<1> QED
  BY <1>1, <1>2, <1>3, <1>4, HandleTypes, ReplayTypes, FailsTypes, FinishTypes DEF Orchestrator

LEMMA TakeJobCases ==
  ASSUME Types, TakeJob
  PROVE  /\ worker.state = "idle" /\ jobs # <<>> /\ jobs' = Tail(jobs)
         /\ Head(jobs) \in Jobs /\ jobs' \in Seq(Jobs)
         /\ \/ /\ Head(jobs) = NoJob /\ results' = results
               /\ worker' = [worker EXCEPT !.state = "exited"]
            \/ /\ Head(jobs) # NoJob /\ results' = results
               /\ worker' = [state |-> "copying", job |-> Head(jobs)]
            \/ /\ Head(jobs) # NoJob /\ worker' = worker
               /\ results' = Append(results, Result(Head(jobs), "aged"))
<1>1. worker.state = "idle" /\ jobs # <<>> /\ jobs' = Tail(jobs)
  BY DEF TakeJob
<1>2. Head(jobs) \in Jobs /\ jobs' \in Seq(Jobs)
  BY <1>1, QueueTail DEF Types, RowTypes
<1> DEFINE head == Head(jobs)
           aged == Append(results, Result(head, "aged"))
<1>3. IF head = NoJob
        THEN worker' = [worker EXCEPT !.state = "exited"] /\ UNCHANGED results
        ELSE IF Held(head)
          THEN worker' = [state |-> "copying", job |-> head] /\ UNCHANGED results
        ELSE results' = aged /\ UNCHANGED worker
  BY DEF TakeJob
<1> HIDE DEF head, aged
<1>4. \/ head = NoJob /\ results' = results /\ worker' = [worker EXCEPT !.state = "exited"]
      \/ head # NoJob /\ results' = results /\ worker' = [state |-> "copying", job |-> head]
      \/ head # NoJob /\ worker' = worker /\ results' = aged
  BY <1>3
<1> QED
  BY <1>1, <1>2, <1>4 DEF head, aged

LEMMA WorkerTypes ==
  ASSUME Types, Worker \/ WorkerDies
  PROVE  Types'
<1>1. WorkerUnchanged
  BY DEF Worker, TakeJob, FinishJob, WorkerDies
<1>2. EngineTypes'
  BY <1>1, SameEngineTypes DEF WorkerUnchanged, Types
<1>3. /\ worker \in [state : {"idle", "copying", "exited", "dead", "terminated"}, job : Jobs]
      /\ jobs \in Seq(Jobs) /\ Len(jobs) <= AnalysisDepth /\ Len(jobs) \in Nat
      /\ results \in Seq(Answers) /\ AnalysisDepth \in Nat /\ NoJob \in Jobs
  BY LenProperties, LoopConstants DEF Types, RowTypes, Jobs
<1>4. SUFFICES /\ worker' \in [state : {"idle", "copying", "exited", "dead", "terminated"}, job : Jobs]
               /\ jobs' \in Seq(Jobs) /\ Len(jobs') <= AnalysisDepth
               /\ results' \in Seq(Answers)
  BY <1>1, <1>2 DEF WorkerUnchanged, Types, LoopTypes, RowTypes, loopVars, dbVars
<1>5. \A j \in Jobs, why \in {"ok", "failed", "aged"} : Result(j, why) \in Answers
  BY DEF Jobs, NoJob, Result, Answers
<1>6. CASE TakeJob
  <2>1. jobs # <<>> /\ jobs' = Tail(jobs)
    BY <1>6 DEF TakeJob
  <2>2. Head(jobs) \in Jobs /\ jobs' \in Seq(Jobs) /\ Len(jobs') < Len(jobs) /\ Len(jobs') \in Nat
    BY <1>3, <2>1, QueueTail
  <2>3. Append(results, Result(Head(jobs), "aged")) \in Seq(Answers)
    BY <1>3, <1>5, <2>2, AppendProperties
  <2>4. /\ worker' \in [state : {"idle", "copying", "exited", "dead", "terminated"}, job : Jobs]
        /\ results' \in Seq(Answers)
    <3>1. CASE results' = results /\ worker' = [worker EXCEPT !.state = "exited"]
      BY <1>3, <3>1
    <3>2. CASE results' = results /\ worker' = [state |-> "copying", job |-> Head(jobs)]
      <4>1. worker' \in [state : {"idle", "copying", "exited", "dead", "terminated"}, job : Jobs]
        BY <2>2, <3>2
      <4> QED
        BY <1>3, <3>2, <4>1
    <3>3. CASE worker' = worker /\ results' = Append(results, Result(Head(jobs), "aged"))
      BY <1>3, <2>3, <3>3
    <3> QED
      BY <1>6, <3>1, <3>2, <3>3, TakeJobCases
  <2> QED
    BY <1>3, <2>2, <2>4
<1>7. CASE FinishJob
  <2>1. PICK why \in {"ok", "failed"} :
          results' = Append(results, Result(worker.job, IF Held(worker.job) THEN why ELSE "aged"))
    BY <1>7 DEF FinishJob
  <2>2. results' \in Seq(Answers)
    BY <1>3, <1>5, <2>1, AppendProperties
  <2>3. worker' = IdleWorker /\ jobs' = jobs
    BY <1>7 DEF FinishJob
  <2> QED
    BY <1>3, <2>2, <2>3 DEF IdleWorker
<1>8. CASE WorkerDies
  BY <1>3, <1>8 DEF WorkerDies
<1> QED
  BY <1>6, <1>7, <1>8 DEF Worker

LEMMA InitTypes == Init => Types
<1> SUFFICES ASSUME Init PROVE Types
  OBVIOUS
<1>1. <<>> \in Seq(Messages) /\ <<>> \in Seq(Commands) /\ <<>> \in Seq(Lines)
      /\ <<>> \in Seq(Jobs) /\ <<>> \in Seq(Answers) /\ <<>> \in Seq(EventRow)
      /\ <<>> \in Seq(WindowRow) /\ Len(<<>>) = 0
  BY EmptySeq
<1>2. DspQueue \in Nat /\ AnalysisDepth \in Nat
  BY EngineConstants, LoopConstants
<1>3. EngineTypes
  BY <1>1, <1>2 DEF Init, EngineInit, EngineTypes, NonePending
<1>4. LoopTypes
  BY <1>1 DEF Init, LoopTypes, Looping, NoLine, Unreplayed
<1>5. RowTypes
  BY <1>1, <1>2 DEF Init, RowTypes, NoRows, IdleWorker, Jobs
<1> QED
  BY <1>3, <1>4, <1>5 DEF Types

LEMMA NextTypes == Types /\ [Next]_vars => Types'
<1> SUFFICES ASSUME Types, [Next]_vars PROVE Types'
  OBVIOUS
<1>1. CASE Engine
  <2>1. EngineTypes'
    BY <1>1, EngineNextTypes DEF Engine, Types
  <2> QED
    BY <1>1, <2>1 DEF Engine, Types, LoopTypes, RowTypes, loopVars, analysisVars, dbVars
<1>2. CASE Sigint
  <2>1. EngineTypes'
    BY <1>2, SameEngineTypes DEF Sigint, Types
  <2> QED
    BY <1>2, <2>1 DEF Sigint, Types, LoopTypes, RowTypes, analysisVars, dbVars
<1>3. CASE UNCHANGED vars
  <2>1. EngineTypes'
    BY <1>3, SameEngineTypes DEF vars, Types
  <2> QED
    BY <1>3, <2>1 DEF vars, Types, LoopTypes, RowTypes, loopVars, analysisVars, dbVars
<1> QED
  BY <1>1, <1>2, <1>3, OrchestratorTypes, WorkerTypes DEF Next, Stopped

(* Every variable has the form the code gives it, for any grid, windows,   *)
(* bounds and failures: the two bounded queues never hold more than their  *)
(* bound, and a row that is named is there.                                *)
THEOREM TypeCorrect == Spec => []TypeOK
<1>1. Types => TypeOK
  BY DEF Types, EngineTypes, LoopTypes, RowTypes, TypeOK
<1> QED
  BY <1>1, InitTypes, NextTypes, PTL DEF Spec

-----------------------------------------------------------------------------
(* The exit status. *)

ExitInv ==
  /\ ended => pc = "done"
  /\ pc \in Closing \cup {"finish", "drain"} => status = 1 \/ ~running \/ FromFile

LEMMA ExitNext == ExitInv /\ [Next]_vars => ExitInv'
<1> SUFFICES ASSUME ExitInv, [Next]_vars PROVE ExitInv'
  OBVIOUS
<1> USE DEF ExitInv, Closing, FromFile
<1>1. CASE Engine \/ Worker \/ WorkerDies \/ UNCHANGED vars
  BY <1>1 DEF Engine, Worker, TakeJob, FinishJob, WorkerDies, WorkerUnchanged, vars, loopVars, dbVars
<1>2. CASE Sigint
  BY <1>2 DEF Sigint, dbVars
<1>3. CASE Orchestrator
  <2>1. UNCHANGED may
    BY <1>3 DEF Orchestrator
  <2>2. CASE OpenWindow
    BY <2>1, <2>2 DEF OpenWindow, dbVars
  <2>3. CASE Handle
    <3>1. CASE OnTuned \/ OnLinearity \/ OnWindow \/ OnFrame \/ OnClose
      BY <2>1, <3>1 DEF OnTuned, OnLinearity, OnWindow, OnFrame, OnClose, Handling, loopVars, dbVars
    <3>2. ASSUME NEW t, EngineEnds(t) PROVE ExitInv'
      BY <2>1, <3>2 DEF EngineEnds, Goes, GoneStatus, dbVars
    <3> QED
      BY <2>3, <3>1, <3>2 DEF Handle
  <2>4. CASE Replay
    BY <2>1, <2>4 DEF Replay, ReplayStart, ReplayDue, ReplayLast, ReplayEnd, ReplayUnchanged
  <2>5. CASE Pumped \/ PumpOn \/ DwellOver \/ StopSeen \/ WaitTimesOut
    BY <2>1, <2>5 DEF Pumped, PumpOn, DwellOver, StopSeen, WaitTimesOut, Goes, dbVars
  <2>6. CASE StatementFails
    BY <2>1, <2>6 DEF StatementFails, FrameFails, CloseFails, WindowFails, CollectFails, Fails
  <2>7. CASE Finish
    BY <2>1, <2>7 DEF Finish, SendStop, DrainSkips, DrainEnds, Reap, PutNone, CollectLast, EndRun,
                      Goes, loopVars, dbVars
  <2> QED
    BY <1>3, <2>2, <2>3, <2>4, <2>5, <2>6, <2>7 DEF Orchestrator
<1> QED
  BY <1>1, <1>2, <1>3 DEF Next, Stopped

(* A run over a device that ends of itself -- a stall, a crash, a deadline *)
(* that passes, a statement that fails -- exits non-zero, whatever else    *)
(* happens on the way out.                                                 *)
THEOREM FailureIsReported == Spec => []FailureExitsNonzero
<1>1. Init => ExitInv
  BY DEF Init, ExitInv, Closing
<1>2. ExitInv => FailureExitsNonzero
  BY DEF ExitInv, FailureExitsNonzero, Closing
<1> QED
  BY <1>1, <1>2, ExitNext, PTL DEF Spec

-----------------------------------------------------------------------------
(* The analysis process. *)

Sent == {"collect", "end", "done"}

NoNone(q)   == \A i \in DOMAIN q : q[i] # NoJob
NoneLast(q) == \A i \in DOMAIN q : q[i] = NoJob => i = Len(q)

LEMMA JobQueue ==
  ASSUME NEW q \in Seq(Jobs)
  PROVE  /\ NoNone(q) => NoneLast(Append(q, NoJob))
         /\ NoNone(q) => \A j \in Jobs \ {NoJob} : NoNone(Append(q, j))
         /\ NoNone(q) /\ q # <<>> => NoNone(Tail(q)) /\ Head(q) # NoJob
         /\ NoneLast(q) /\ q # <<>> => NoneLast(Tail(q))
         /\ NoneLast(q) /\ q # <<>> /\ Head(q) = NoJob => Tail(q) = <<>>
<1>1. /\ Len(q) \in Nat /\ DOMAIN q = 1 .. Len(q) /\ q = <<>> <=> Len(q) = 0
      /\ NoJob \in Jobs
  BY LenProperties, EmptySeq DEF Jobs
<1>2. ASSUME NEW j \in Jobs
      PROVE  /\ DOMAIN Append(q, j) = 1 .. Len(q) + 1 /\ Len(Append(q, j)) = Len(q) + 1
             /\ \A i \in 1 .. Len(q) : Append(q, j)[i] = q[i]
             /\ Append(q, j)[Len(q) + 1] = j
  BY AppendProperties, LenProperties
<1>3. q # <<>> => /\ DOMAIN Tail(q) = 1 .. Len(q) - 1 /\ Len(Tail(q)) = Len(q) - 1
                  /\ Head(q) = q[1] /\ \A i \in 1 .. Len(q) - 1 : Tail(q)[i] = q[i+1]
                  /\ Tail(q) \in Seq(Jobs)
  BY HeadTailProperties, LenProperties
<1>4. NoNone(q) => NoneLast(Append(q, NoJob))
  <2> DEFINE w == Append(q, NoJob)
  <2>1. /\ DOMAIN w = 1 .. Len(q) + 1 /\ Len(w) = Len(q) + 1
        /\ \A i \in 1 .. Len(q) : w[i] = q[i]
    BY <1>1, <1>2
  <2> HIDE DEF w
  <2>2. NoNone(q) => NoneLast(w)
    BY <1>1, <2>1 DEF NoNone, NoneLast
  <2> QED
    BY <2>2 DEF w
<1>5. ASSUME NEW j \in Jobs \ {NoJob}, NoNone(q) PROVE NoNone(Append(q, j))
  <2> DEFINE w == Append(q, j)
  <2>1. /\ DOMAIN w = 1 .. Len(q) + 1 /\ w[Len(q) + 1] = j
        /\ \A i \in 1 .. Len(q) : w[i] = q[i]
    BY <1>1, <1>2
  <2> HIDE DEF w
  <2>2. NoNone(w)
    BY <1>1, <1>5, <2>1 DEF NoNone
  <2> QED
    BY <2>2 DEF w
<1> DEFINE r == Tail(q)
<1>6. q # <<>> => /\ DOMAIN r = 1 .. Len(q) - 1 /\ Len(r) = Len(q) - 1
                  /\ Head(q) = q[1] /\ \A i \in 1 .. Len(q) - 1 : r[i] = q[i+1]
                  /\ r \in Seq(Jobs)
  BY <1>3
<1> HIDE DEF r
<1>7. NoNone(q) /\ q # <<>> => NoNone(r) /\ Head(q) # NoJob
  BY <1>1, <1>6 DEF NoNone
<1>8. NoneLast(q) /\ q # <<>> => NoneLast(r)
  BY <1>1, <1>6 DEF NoneLast
<1>9. NoneLast(q) /\ q # <<>> /\ Head(q) = NoJob => r = <<>>
  <2>1. NoneLast(q) /\ q # <<>> /\ Head(q) = NoJob => Len(r) = 0
    BY <1>1, <1>6 DEF NoneLast
  <2> QED
    BY <1>6, <2>1, EmptySeq
<1> QED
  BY <1>4, <1>5, <1>7, <1>8, <1>9 DEF r

(* None is the last thing in the job queue, and is there only once it has  *)
(* been put; the process exits on it, having answered every job before it. *)
AppliedInv ==
  /\ ended => pc = "done"
  /\ pc \in Closing \cup {"died"} => line = NoLine
  /\ worker.state \in {"idle", "exited"} => worker.job = NoJob
  /\ worker.state = "copying" => worker.job # NoJob
  /\ worker.state = "dead" => "worker" \in may \/ pc = "died"
  /\ worker.state = "terminated" => ended /\ Overdue /\ worker.job = NoJob
  /\ pc = "died" => worker.state = "dead"
  /\ worker.state = "exited" => jobs = <<>> /\ pc \in Sent
  /\ pc \notin Sent \cup {"died"} => NoNone(jobs)
  /\ pc \in Sent => NoneLast(jobs)
  /\ pc \in {"end", "done"} => Overdue \/ (WorkerGone /\ results = <<>>)
  /\ pc = "done" => worker.state \in {"exited", "dead", "terminated"}

(* A decision is replayed only while no None has been put. *)
LEMMA ReplayApplied ==
  ASSUME Types, AppliedInv, Replay, UNCHANGED may
  PROVE  AppliedInv'
<1>1. line \in Unreplayed /\ jobs \in Seq(Jobs)
  BY DEF Types, LoopTypes, RowTypes
<1>2. line # NoLine
  BY <1>1, LineHas DEF Replay, ReplayStart, ReplayDue, ReplayLast, ReplayEnd
<1>3. pc \notin Closing \cup {"died"}
  BY <1>2 DEF AppliedInv
<1>4. UNCHANGED <<pc, worker, results, ended>>
  BY DEF Replay, ReplayStart, ReplayDue, ReplayLast, ReplayEnd, ReplayUnchanged
<1>5. pc \notin Sent \cup {"died"} /\ NoNone(jobs)
  BY <1>3 DEF AppliedInv, Closing, Sent
<1>6. NoNone(jobs')
  <2>1. CASE jobs' = jobs
    BY <1>5, <2>1
  <2>2. CASE jobs' # jobs
    <3>1. PICK d \in line.due \cup line.fin : Decide(d)
      BY <2>2 DEF Replay, ReplayStart, ReplayDue, ReplayLast, ReplayEnd
    <3>2. d \in Decisions
      BY <1>1, <3>1, LineHas
    <3>3. d.k = "a" /\ openRows[d.ch] # None /\ jobs' = Append(jobs, JobOf(d))
      BY <2>2, <3>1, <3>2, DecideCases
    <3>4. JobOf(d) \in Jobs \ {NoJob}
      BY <3>2, <3>3, JobOfTypes
    <3> QED
      BY <1>1, <1>5, <3>3, <3>4, JobQueue
  <2> QED
    BY <2>1, <2>2
<1> QED
  BY <1>3, <1>4, <1>5, <1>6 DEF AppliedInv, Closing, Sent

LEMMA WorkerApplied ==
  ASSUME Types, AppliedInv, Worker \/ WorkerDies
  PROVE  AppliedInv'
<1>1. UNCHANGED <<may, pc, line, ended>>
  BY DEF Worker, TakeJob, FinishJob, WorkerDies, WorkerUnchanged, loopVars, dbVars
<1>2. jobs \in Seq(Jobs)
  BY DEF Types, RowTypes
<1>3. worker.state \in {"idle", "copying"} /\ pc \notin {"died", "done"} /\ (pc = "end" => Overdue)
  BY DEF Worker, TakeJob, FinishJob, WorkerDies, AppliedInv, WorkerGone
<1>7. Overdue' = Overdue
  BY <1>1 DEF Overdue
<1>4. CASE TakeJob
  <2>1. worker.state = "idle" /\ jobs # <<>> /\ jobs' = Tail(jobs)
    BY <1>4 DEF TakeJob
  <2>2. /\ pc \notin Sent \cup {"died"} => NoNone(jobs') /\ Head(jobs) # NoJob
        /\ pc \in Sent => NoneLast(jobs') /\ (Head(jobs) = NoJob => jobs' = <<>>)
    BY <1>2, <2>1, JobQueue DEF AppliedInv
  <2>3. CASE /\ Head(jobs) = NoJob /\ results' = results
             /\ worker' = [worker EXCEPT !.state = "exited"]
    <3>1. worker'.state = "exited" /\ worker'.job = worker.job
      BY <2>3 DEF Types, RowTypes
    <3> QED
      BY <1>1, <1>3, <1>7, <2>1, <2>2, <2>3, <3>1 DEF AppliedInv
  <2>4. CASE /\ Head(jobs) # NoJob /\ results' = results
             /\ worker' = [state |-> "copying", job |-> Head(jobs)]
    BY <1>1, <1>3, <1>7, <2>1, <2>2, <2>4 DEF AppliedInv
  <2>5. CASE /\ Head(jobs) # NoJob /\ worker' = worker
             /\ results' = Append(results, Result(Head(jobs), "aged"))
    BY <1>1, <1>3, <1>7, <2>1, <2>2, <2>5 DEF AppliedInv
  <2> QED
    BY <1>4, <2>3, <2>4, <2>5, TakeJobCases
<1>5. CASE FinishJob
  BY <1>1, <1>3, <1>5, <1>7 DEF AppliedInv, FinishJob, IdleWorker
<1>6. CASE WorkerDies
  BY <1>1, <1>3, <1>6, <1>7 DEF AppliedInv, WorkerDies
<1> QED
  BY <1>4, <1>5, <1>6 DEF Worker

LEMMA AppliedNext == Types /\ AppliedInv /\ [Next]_vars => AppliedInv'
<1> SUFFICES ASSUME Types, AppliedInv, [Next]_vars PROVE AppliedInv'
  OBVIOUS
<1> USE DEF AppliedInv, Closing, Sent, Overdue, WorkerGone
<1>1. CASE Engine \/ UNCHANGED vars
  BY <1>1 DEF Engine, vars, loopVars, dbVars, analysisVars
<1>2. CASE Sigint
  BY <1>2 DEF Sigint, dbVars, analysisVars
<1>3. CASE Orchestrator
  <2>1. UNCHANGED may /\ jobs \in Seq(Jobs)
    BY <1>3 DEF Orchestrator, Types, RowTypes
  <2>2. CASE OpenWindow
    BY <2>1, <2>2 DEF OpenWindow, dbVars, analysisVars
  <2>3. CASE Handle
    <3>1. CASE OnTuned \/ OnLinearity \/ OnWindow \/ OnFrame \/ OnClose
      BY <2>1, <3>1 DEF OnTuned, OnLinearity, OnWindow, OnFrame, OnClose, Handling, loopVars,
                        dbVars, analysisVars
    <3>2. ASSUME NEW t, EngineEnds(t) PROVE AppliedInv'
      BY <2>1, <3>2 DEF EngineEnds, Goes, dbVars, analysisVars
    <3> QED
      BY <2>3, <3>1, <3>2 DEF Handle
  <2>4. CASE Replay
    BY <2>1, <2>4, ReplayApplied
  <2>5. CASE Pumped
    BY <2>1, <2>5 DEF Pumped
  <2>6. CASE PumpOn \/ DwellOver \/ StopSeen \/ WaitTimesOut
    BY <2>1, <2>6 DEF PumpOn, DwellOver, StopSeen, WaitTimesOut, Goes, dbVars, analysisVars
  <2>7. CASE FrameFails
    BY <2>1, <2>7 DEF FrameFails, Fails
  <2>8. CASE CloseFails
    BY <2>1, <2>8 DEF CloseFails, Fails, Takes
  <2>9. CASE WindowFails
    BY <2>1, <2>9 DEF WindowFails, Fails, Takes
  <2>10. CASE CollectFails
    BY <2>1, <2>10 DEF CollectFails, Fails
  <2>11. CASE PutNone
    <3>1. NoNone(jobs) /\ jobs' = Append(jobs, NoJob)
      BY <2>11 DEF PutNone
    <3>2. NoneLast(jobs')
      BY <2>1, <3>1, JobQueue
    <3> QED
      BY <2>1, <2>11, <3>2 DEF PutNone, dbVars
  <2>12. CASE CollectLast
    BY <2>1, <2>12 DEF CollectLast, Collect
  <2>13. CASE SendStop \/ DrainSkips \/ DrainEnds \/ Reap
    BY <2>1, <2>13 DEF SendStop, DrainSkips, DrainEnds, Reap, Takes, Goes, loopVars, dbVars,
                       analysisVars
  <2>14. CASE EndRun
    BY <2>1, <2>14 DEF EndRun
  <2> QED
    BY <1>3, <2>2, <2>3, <2>4, <2>5, <2>6, <2>7, <2>8, <2>9, <2>10, <2>11, <2>12, <2>13, <2>14
       DEF Orchestrator, StatementFails, Finish
<1> QED
  BY <1>1, <1>2, <1>3, WorkerApplied DEF Next, Stopped

(* Unless it was killed, the analysis process has left when the run is     *)
(* over: with every analysis that was queued done and its result applied,  *)
(* or terminated by finish(), which had waited 30 s for it in vain.        *)
THEOREM QueuedIsApplied == Spec => []("worker" \notin may => AnalysesApplied)
<1>1. Init => AppliedInv
  BY LenProperties DEF Init, AppliedInv, Closing, Sent, IdleWorker, NoNone, NoneLast
<1>2. Types /\ AppliedInv => ("worker" \notin may => AnalysesApplied)
  <2> SUFFICES ASSUME Types, AppliedInv, "worker" \notin may, ended
               PROVE  /\ worker.state \in {"exited", "terminated"} /\ worker.job = NoJob
                      /\ worker.state = "exited" => jobs = <<>>
                      /\ Overdue \/ (worker.state = "exited" /\ results = <<>>)
    BY DEF AnalysesApplied
  <2>1. pc = "done" /\ worker.state \in {"exited", "terminated"}
    BY DEF AppliedInv
  <2> QED
    BY <2>1 DEF AppliedInv, WorkerGone
<1> QED
  BY <1>1, <1>2, InitTypes, NextTypes, AppliedNext, PTL DEF Spec

-----------------------------------------------------------------------------
(* Steps of the automata. *)

LEMMA LineNextIs ==
  ASSUME NEW x \in Heard, NEW m \in Lines
  PROVE  LET y == LineNext(x, m)
         IN /\ m.t = "tuned" => /\ y.at = "tuned" /\ y.center = m.center /\ y.tunes = x.tunes + 1
                                /\ y.open = x.open /\ y.pend = x.pend
            /\ m.t # "tuned" => y.center = x.center /\ y.tunes = x.tunes
            /\ m.t = "linearity" => y.at = "probed" /\ y.open = x.open /\ y.pend = x.pend
            /\ m.t = "window" => y.at = "open" /\ y.open = x.open /\ y.pend = x.pend
            /\ m.t = "f" => /\ y.at = x.at /\ y.open = (x.open \cup m.s) \ m.e
                            /\ y.pend = (x.pend \cup m.s) \ (m.e \cup Decided(m.due))
            /\ m.t = "close" => y.at = "none" /\ y.open = {} /\ y.pend = {}
            /\ m.t \in {"stall", "eof", "__eof__"} => y.at = "left" /\ y.open = {} /\ y.pend = {}
BY LineFields DEF LineNext, Heard, Places

LEMMA SaysStep ==
  ASSUME NEW k, NEW x \in Heard, NEW m \in Lines, LineFits(k, x, m)
  PROVE  <<x, m, LineNext(x, m)>> \in Says(k)
<1>1. x \in Places /\ (x.at # "open" => x.open = {} /\ x.pend = {})
  BY DEF Heard
<1>2. LineNext(x, m) \in Places
  <2>1. CASE m.t = "tuned"
    <3> DEFINE c == m.center
               n == x.tunes + 1
    <3>1. c \in Nat /\ n \in Nat
      BY <1>1, <2>1, LineFields DEF Places
    <3>2. LineNext(x, m) = [x EXCEPT !.at = "tuned", !.center = c, !.tunes = n]
      BY <2>1 DEF LineNext
    <3> HIDE DEF c, n
    <3>3. [x EXCEPT !.at = "tuned", !.center = c, !.tunes = n] \in Places
      BY <1>1, <3>1 DEF Places
    <3> QED
      BY <3>2, <3>3
  <2>2. CASE m.t \in {"linearity", "window"}
    BY <1>1, <2>2, LineFields DEF Places, LineNext
  <2>3. CASE m.t = "f"
    BY <1>1, <2>3, LineFields DEF Places, LineNext
  <2>4. CASE m.t \in {"close", "stall", "eof", "__eof__"}
    BY <1>1, <2>4, LineFields DEF Places, LineNext
  <2> QED
    BY <2>1, <2>2, <2>3, <2>4, LineFields
<1>3. LineNext(x, m).at # "open" => LineNext(x, m).open = {} /\ LineNext(x, m).pend = {}
  BY <1>1, LineNextIs, LineFields DEF LineFits
<1>4. LineNext(x, m) \in Heard
  BY <1>2, <1>3 DEF Heard
<1> QED
  BY <1>4 DEF Says

LEMMA SaysIs ==
  ASSUME NEW k, NEW x, NEW m, NEW y, <<x, m, y>> \in Says(k)
  PROVE  x \in Heard /\ m \in Lines /\ y \in Heard /\ LineFits(k, x, m) /\ y = LineNext(x, m)
BY DEF Says

LEMMA MsgNextIs ==
  ASSUME NEW x \in Told, NEW m \in Messages
  PROVE  LET y == MsgNext(x, m)
         IN /\ y \in Told
            /\ m.k = "tuned" => y.at = "tuned" /\ y.center = m.center /\ y.tunes = x.tunes + 1
            /\ m.k # "tuned" => y.center = x.center /\ y.tunes = x.tunes
            /\ m.k = "window" => y.at = "open"
            /\ m.k = "close" => y.at = "none"
            /\ m.k \in {"frame", "overflow"} => y = x
            /\ m.k \in {"stop", "stall", "eof"} => y.at = "left"
<1>1. CASE m.k = "tuned"
  <2> DEFINE c == m.center
             n == x.tunes + 1
             y == [x EXCEPT !.at = "tuned", !.center = c, !.tunes = n]
  <2>1. c \in Nat /\ n \in Nat
    BY <1>1, MessageFields DEF Told
  <2>2. MsgNext(x, m) = y
    BY <1>1 DEF MsgNext
  <2> HIDE DEF c, n
  <2>3. y \in Told /\ y.at = "tuned" /\ y.center = c /\ y.tunes = n
    BY <2>1 DEF Told
  <2> HIDE DEF y
  <2> QED
    BY <1>1, <2>2, <2>3 DEF c, n
<1>2. CASE m.k = "window"
  BY <1>2, MessageFields DEF MsgNext, Told
<1>3. CASE m.k = "close"
  BY <1>3, MessageFields DEF MsgNext, Told
<1>4. CASE m.k \in {"frame", "overflow"}
  BY <1>4, MessageFields DEF MsgNext, Told
<1>5. CASE m.k \in {"stop", "stall", "eof"}
  BY <1>5, MessageFields DEF MsgNext, Told
<1> QED
  BY <1>1, <1>2, <1>3, <1>4, <1>5, MessageFields

LEMMA TellsStep ==
  ASSUME NEW k, NEW x \in Told, NEW m \in Messages, MsgFits(k, x, m)
  PROVE  <<x, m, MsgNext(x, m)>> \in Tells(k)
BY MsgNextIs DEF Tells

LEMMA TellsIs ==
  ASSUME NEW k, NEW x, NEW m, NEW y, <<x, m, y>> \in Tells(k)
  PROVE  x \in Told /\ m \in Messages /\ y \in Told /\ MsgFits(k, x, m) /\ y = MsgNext(x, m)
BY DEF Tells

LEMMA SeenIs ==
  ASSUME NEW x \in Heard
  PROVE  /\ Seen(x) \in Told \/ x.at = "probed"
         /\ Seen(x).at = x.at /\ Seen(x).center = x.center /\ Seen(x).tunes = x.tunes
         /\ \A y \in Told : y.at = x.at /\ y.center = x.center /\ y.tunes = x.tunes => Seen(x) = y
BY DEF Seen, Heard, Places, Told

(* Who speaks never counts a window less. *)
LEMMA SaysGrow ==
  ASSUME NEW k, NEW a \in Heard, NEW b, NEW q, Len(q) \in Nat, Leads(Says(k), a, q, b)
  PROVE  b \in Heard /\ a.tunes <= b.tunes /\ a.tunes \in Nat /\ b.tunes \in Nat
<1> DEFINE I == {x \in Heard : a.tunes <= x.tunes}
<1>1. a.tunes \in Nat /\ \A x \in Heard : x.tunes \in Nat
  BY DEF Heard, Places
<1>2. ASSUME NEW x \in I, NEW m, NEW y, <<x, m, y>> \in Says(k) PROVE y \in I
  <2>1. m \in Lines /\ y \in Heard /\ y = LineNext(x, m)
    BY <1>2, SaysIs
  <2>2. y.tunes = x.tunes + 1 \/ y.tunes = x.tunes
    BY <2>1, LineNextIs, LineFields
  <2> QED
    BY <1>1, <2>1, <2>2
<1>3. a \in I
  BY <1>1
<1> HIDE DEF I
<1>4. b \in I
  BY <1>2, <1>3, LeadsKeeps
<1> QED
  BY <1>1, <1>4 DEF I

LEMMA TellsGrow ==
  ASSUME NEW k, NEW a \in Told, NEW b, NEW q, Len(q) \in Nat, Leads(Tells(k), a, q, b)
  PROVE  /\ b \in Told /\ a.tunes <= b.tunes /\ a.tunes \in Nat /\ b.tunes \in Nat
         /\ a.at = "left" => b = a
<1> DEFINE I == {x \in Told : a.tunes <= x.tunes /\ (a.at = "left" => x = a)}
<1>1. a.tunes \in Nat /\ \A x \in Told : x.tunes \in Nat
  BY DEF Told
<1>2. ASSUME NEW x \in I, NEW m, NEW y, <<x, m, y>> \in Tells(k) PROVE y \in I
  <2>1. x \in Told /\ m \in Messages /\ y \in Told /\ y = MsgNext(x, m) /\ MsgFits(k, x, m)
    BY <1>2, TellsIs
  <2>2. y.tunes = x.tunes + 1 \/ y.tunes = x.tunes
    BY <2>1, MsgNextIs, MessageFields
  <2>3. x.at # "left"
    BY <2>1, MessageFields DEF MsgFits
  <2> QED
    BY <1>1, <2>1, <2>2, <2>3
<1>3. a \in I
  BY <1>1
<1> HIDE DEF I
<1>4. b \in I
  BY <1>2, <1>3, LeadsKeeps
<1> QED
  BY <1>1, <1>4 DEF I

LEMMA OrdersGrow ==
  ASSUME NEW n \in Nat, NEW v, NEW q, Len(q) \in Nat, Leads(Orders, n, q, v)
  PROVE  v \in Nat /\ n <= v
<1> DEFINE I == {x \in Nat : n <= x}
<1>1. ASSUME NEW x \in I, NEW m, NEW y, <<x, m, y>> \in Orders PROVE y \in I
  BY <1>1 DEF Orders, CmdNext
<1>2. n \in I
  OBVIOUS
<1> HIDE DEF I
<1>3. v \in I
  BY <1>1, <1>2, LeadsKeeps
<1> QED
  BY <1>3 DEF I
-----------------------------------------------------------------------------
(* The chain from the orchestrator to the engine and back. *)

LEMMA CmdNextIs ==
  ASSUME NEW n, NEW q \in Seq(Commands), q # <<>>, NEW v, Leads(Orders, n, q, v)
  PROVE  /\ n \in Nat
         /\ Head(q).cmd = "open" => Leads(Orders, n + 1, Tail(q), v)
<1>1. PICK c : <<n, Head(q), c>> \in Orders /\ Leads(Orders, c, Tail(q), v)
  BY LeadsHead
<1> QED
  BY <1>1 DEF Orders, CmdNext

LEMMA LeaveLeads ==
  ASSUME NEW k, NEW t \in Told, t.at \in {"none", "open"},
         NEW why \in {"stop", "stall", "eof"}, why = "eof" => "file" \in k
  PROVE  \E u \in Told : /\ Leads(Tells(k), t, <<Plain("close"), Plain(why)>>, u)
                         /\ u.tunes = t.tunes /\ u.at = "left"
<1> DEFINE m == Plain("close")
           n == Plain(why)
<1>1. m \in Messages /\ n \in Messages /\ m.k = "close" /\ n.k = why
  BY MadeOfMessages DEF Plain, ToDsp
<1> HIDE DEF m, n
<1> DEFINE c == MsgNext(t, m)
           u == MsgNext(c, n)
<1>2. c \in Told /\ c.at = "none" /\ c.tunes = t.tunes /\ <<t, m, c>> \in Tells(k)
  BY <1>1, MsgNextIs, TellsStep DEF MsgFits
<1> HIDE DEF c
<1>3. u \in Told /\ u.at = "left" /\ u.tunes = c.tunes /\ <<c, n, u>> \in Tells(k)
  <2>1. MsgFits(k, c, n)
    BY <1>1, <1>2 DEF MsgFits
  <2> QED
    BY <1>1, <1>2, <2>1, MsgNextIs, TellsStep
<1> HIDE DEF u
<1>4. Leads(Tells(k), t, <<m, n>>, u)
  BY <1>2, <1>3, LeadsTwo
<1> QED
  BY <1>2, <1>3, <1>4 DEF m, n

LEMMA OpenLeads ==
  ASSUME NEW k, NEW t \in Told, t.at \in {"none", "open"}, NEW tuned \in Nat
  PROVE  \E u \in Told : /\ Leads(Tells(k), t, OpenMessages(tuned), u)
                         /\ u.tunes = t.tunes + 1 /\ u.at = "open"
<1> DEFINE m == Plain("close")
           n == ToDsp("tuned", tuned)
           o == ToDsp("window", tuned)
<1>1. /\ m \in Messages /\ n \in Messages /\ o \in Messages
      /\ m.k = "close" /\ n.k = "tuned" /\ o.k = "window"
      /\ n.center = tuned /\ o.center = tuned
      /\ OpenMessages(tuned) = <<m, n, o>>
  BY MadeOfMessages DEF Plain, ToDsp, OpenMessages
<1> HIDE DEF m, n, o
<1> DEFINE c == MsgNext(t, m)
           d == MsgNext(c, n)
           u == MsgNext(d, o)
<1>2. c \in Told /\ c.at = "none" /\ c.tunes = t.tunes /\ <<t, m, c>> \in Tells(k)
  BY <1>1, MsgNextIs, TellsStep DEF MsgFits
<1> HIDE DEF c
<1>3. /\ d \in Told /\ d.at = "tuned" /\ d.tunes = c.tunes + 1 /\ d.center = tuned
      /\ <<c, n, d>> \in Tells(k)
  BY <1>1, <1>2, MsgNextIs, TellsStep DEF MsgFits
<1> HIDE DEF d
<1>4. u \in Told /\ u.at = "open" /\ u.tunes = d.tunes /\ <<d, o, u>> \in Tells(k)
  <2>1. MsgFits(k, d, o)
    BY <1>1, <1>3 DEF MsgFits
  <2> QED
    BY <1>1, <1>3, <2>1, MsgNextIs, TellsStep
<1> HIDE DEF u
<1> QED
  BY <1>1, <1>2, <1>3, <1>4, LeadsThree

(* A step of the reader, which decides on more to send or sends it. *)
LEMMA ReaderChain ==
  ASSUME EngineTypes, NEW b, NEW t, NEW u, ReaderHas(b, t, u), Reader, UNCHANGED <<may, visits>>
  PROVE  \E t1, u1 : ReaderHas(b, t1, u1)'
<1>1. /\ cmds \in Seq(Commands) /\ todo \in Seq(Messages) /\ toDsp \in Seq(Messages)
  BY DEF EngineTypes
<1>2. /\ t \in Told /\ u \in Told
      /\ Leads(Tells(may), Seen(b), toDsp, t) /\ Leads(Tells(may), t, todo, u)
      /\ u.tunes <= visits
      /\ reader \in {"idle", "reading"} =>
           u.at \in {"none", "open"} /\ Leads(Orders, u.tunes, cmds, visits)
      /\ reader = "hung" => u.at = "none"
  BY DEF ReaderHas
<1>3. UNCHANGED <<may, visits>>
  OBVIOUS
<1>4. CASE Send
  <2>1. /\ todo # <<>> /\ toDsp' = Append(toDsp, Head(todo)) /\ todo' = Tail(todo)
        /\ UNCHANGED <<cmds, reader>>
    BY <1>4 DEF Send
  <2>2. PICK c : <<t, Head(todo), c>> \in Tells(may) /\ Leads(Tells(may), c, Tail(todo), u)
    BY <1>1, <1>2, <2>1, LeadsHead
  <2>3. c \in Told /\ Head(todo) \in Messages
    BY <2>2, TellsIs
  <2>4. Leads(Tells(may), Seen(b), Append(toDsp, Head(todo)), c)
    BY <1>1, <1>2, <2>2, <2>3, LeadsAppend
  <2>5. ReaderHas(b, c, u)'
    BY <1>2, <1>3, <2>1, <2>2, <2>3, <2>4 DEF ReaderHas
  <2> QED
    BY <2>5
<1>5. ASSUME todo = <<>>
      PROVE  t = u
  BY <1>2, <1>5, LeadsEmpty
<1>6. CASE CommandOpen
  <2>1. /\ reader \in {"idle", "reading"} /\ todo = <<>> /\ cmds # <<>> /\ Head(cmds).cmd = "open"
        /\ todo' = OpenMessages(Head(cmds).center) /\ cmds' = Tail(cmds) /\ reader' = "reading"
        /\ toDsp' = toDsp
    BY <1>6 DEF CommandOpen, AtCommands
  <2>2. Head(cmds) \in Commands /\ Tail(cmds) \in Seq(Commands)
    BY <1>1, <2>1, QueueTail
  <2>3. Head(cmds).center \in Nat
    BY <2>1, <2>2, CommandFields
  <2>4. PICK v \in Told : /\ Leads(Tells(may), t, OpenMessages(Head(cmds).center), v)
                          /\ v.tunes = t.tunes + 1 /\ v.at = "open"
    BY <1>2, <1>5, <2>1, <2>3, OpenLeads
  <2>5. Leads(Orders, v.tunes, cmds', visits)
    BY <1>1, <1>2, <1>5, <2>1, <2>4, CmdNextIs
  <2>6. v.tunes <= visits
    <3>1. v.tunes \in Nat /\ Len(cmds') \in Nat
      BY <2>1, <2>2, LenProperties DEF Told
    <3> QED
      BY <2>5, <3>1, OrdersGrow
  <2>7. ReaderHas(b, t, v)'
    BY <1>2, <1>3, <2>1, <2>4, <2>5, <2>6 DEF ReaderHas
  <2> QED
    BY <2>7
<1>7. CASE CommandOpenFails
  <2>1. /\ reader \in {"idle", "reading"} /\ todo = <<>> /\ cmds' = Tail(cmds)
        /\ todo' = <<Plain("close")>> /\ reader' = "hung" /\ toDsp' = toDsp
    BY <1>7 DEF CommandOpenFails, AtCommands
  <2> DEFINE v == MsgNext(t, Plain("close"))
  <2>2. Plain("close") \in Messages /\ Plain("close").k = "close"
    BY MadeOfMessages DEF Plain, ToDsp
  <2>3. v \in Told /\ v.at = "none" /\ v.tunes = t.tunes /\ <<t, Plain("close"), v>> \in Tells(may)
    BY <1>2, <1>5, <2>1, <2>2, MsgNextIs, TellsStep DEF MsgFits
  <2> HIDE DEF v
  <2>4. Leads(Tells(may), t, <<Plain("close")>>, v)
    BY <2>3, LeadsOne
  <2>5. ReaderHas(b, t, v)'
    BY <1>2, <1>3, <1>5, <2>1, <2>3, <2>4 DEF ReaderHas
  <2> QED
    BY <2>5
<1>8. ASSUME NEW why \in {"stop", "stall", "eof"}, Leave(why), why = "eof" => FromFile,
             reader \in {"idle", "reading"}, todo = <<>>, toDsp' = toDsp
      PROVE  \E t1, u1 : ReaderHas(b, t1, u1)'
  <2>1. todo' = <<Plain("close"), Plain(why)>> /\ reader' = "gone"
    BY <1>8 DEF Leave
  <2>2. PICK v \in Told : /\ Leads(Tells(may), t, <<Plain("close"), Plain(why)>>, v)
                          /\ v.tunes = t.tunes /\ v.at = "left"
    BY <1>2, <1>5, <1>8, LeaveLeads DEF FromFile
  <2>3. ReaderHas(b, t, v)'
    BY <1>2, <1>3, <1>5, <1>8, <2>1, <2>2 DEF ReaderHas
  <2> QED
    BY <2>3
<1>9. CASE CommandStop
  BY <1>8, <1>9 DEF CommandStop, AtCommands
<1>10. CASE ReadSamples \/ ReadOverflow
  <2>1. PICK k \in {"frame", "overflow"} :
          /\ reader \in {"idle", "reading"} /\ todo = <<>>
          /\ todo' = <<Plain(k)>> /\ UNCHANGED <<cmds, reader, toDsp>>
    BY <1>10 DEF ReadSamples, ReadOverflow, AtRead, AtCommands
  <2>2. Plain(k) \in Messages /\ Plain(k).k = k
    BY MadeOfMessages DEF Plain, ToDsp
  <2>3. MsgNext(t, Plain(k)) = t /\ <<t, Plain(k), MsgNext(t, Plain(k))>> \in Tells(may)
    BY <1>2, <1>5, <2>1, <2>2, MsgNextIs, TellsStep DEF MsgFits
  <2>4. Leads(Tells(may), t, <<Plain(k)>>, t)
    BY <2>3, LeadsOne
  <2>5. ReaderHas(b, t, t)'
    BY <1>2, <1>3, <1>5, <2>1, <2>4 DEF ReaderHas
  <2> QED
    BY <2>5
<1>11. CASE ReadNothing
  <2>1. /\ reader \in {"idle", "reading"} /\ todo = <<>> /\ UNCHANGED <<cmds, toDsp>>
        /\ Leave("stall") \/ UNCHANGED <<todo, reader>>
    BY <1>11 DEF ReadNothing, AtRead, AtCommands
  <2>2. CASE UNCHANGED <<todo, reader>>
    <3>1. ReaderHas(b, t, u)'
      BY <1>2, <1>3, <2>1, <2>2 DEF ReaderHas
    <3> QED
      BY <3>1
  <2> QED
    BY <1>8, <2>1, <2>2
<1>12. CASE ReadEof
  BY <1>8, <1>12 DEF ReadEof, AtRead, AtCommands
<1> QED
  BY <1>4, <1>6, <1>7, <1>9, <1>10, <1>11, <1>12 DEF Reader
LEMMA SaidMore ==
  ASSUME NEW k, NEW a, NEW b \in Heard, NEW q \in Seq(Lines), Leads(Says(k), a, q, b),
         NEW m \in Lines, LineFits(k, b, m)
  PROVE  /\ Append(q, m) \in Seq(Lines)
         /\ LineNext(b, m) \in Heard
         /\ Leads(Says(k), a, Append(q, m), LineNext(b, m))
<1>1. <<b, m, LineNext(b, m)>> \in Says(k)
  BY SaysStep
<1>2. LineNext(b, m) \in Heard
  BY <1>1, SaysIs
<1>3. Leads(Says(k), a, Append(q, m), LineNext(b, m))
  BY <1>1, LeadsAppend
<1> QED
  BY <1>2, <1>3, AppendProperties

(* What the next message does to who has received it. *)
LEMMA ReceivedChain ==
  ASSUME EngineTypes, NEW b \in Heard, NEW t, NEW u, ReaderHas(b, t, u), NEW kind,
         Receives(kind), visits \in Nat, UNCHANGED <<may, visits, cmds, reader, todo>>,
         NEW c, c = MsgNext(Seen(b), Head(toDsp)), b.at # "probed"
  PROVE  /\ Head(toDsp) \in Messages /\ Head(toDsp).k = kind
         /\ Seen(b) \in Told /\ MsgFits(may, Seen(b), Head(toDsp))
         /\ c \in Told /\ c.tunes <= visits
         /\ c.at = "left" => reader = "gone"
         /\ \A b1 : Seen(b1) = c => ReaderHas(b1, t, u)'
<1>1. /\ toDsp \in Seq(Messages) /\ toDsp # <<>> /\ toDsp' = Tail(toDsp)
      /\ todo \in Seq(Messages) /\ Head(toDsp).k = kind
      /\ reader \in {"idle", "reading", "hung", "gone"} /\ visits = visits'
  BY DEF EngineTypes, Receives
<1>2. /\ t \in Told /\ u \in Told
      /\ Leads(Tells(may), Seen(b), toDsp, t) /\ Leads(Tells(may), t, todo, u)
      /\ u.tunes <= visits
      /\ reader \in {"idle", "reading"} =>
           u.at \in {"none", "open"} /\ Leads(Orders, u.tunes, cmds, visits)
      /\ reader = "hung" => u.at = "none"
  BY DEF ReaderHas
<1>3. PICK d : <<Seen(b), Head(toDsp), d>> \in Tells(may) /\ Leads(Tells(may), d, Tail(toDsp), t)
  BY <1>1, <1>2, LeadsHead
<1>4. /\ Seen(b) \in Told /\ Head(toDsp) \in Messages /\ d \in Told
      /\ MsgFits(may, Seen(b), Head(toDsp)) /\ d = c
  BY <1>3, TellsIs
<1>5. Tail(toDsp) \in Seq(Messages) /\ Len(Tail(toDsp)) \in Nat /\ Len(todo) \in Nat
  BY <1>1, QueueTail, LenProperties
<1>6. /\ c.tunes <= t.tunes /\ t.tunes <= u.tunes /\ c.tunes \in Nat /\ t.tunes \in Nat
      /\ u.tunes \in Nat
      /\ c.at = "left" => t = c /\ u = c
  BY <1>2, <1>3, <1>4, <1>5, TellsGrow
<1>7. c.tunes <= visits
  BY <1>2, <1>6
<1>8. c.at = "left" => reader = "gone"
  BY <1>1, <1>2, <1>6
<1>9. ASSUME NEW b1, Seen(b1) = c PROVE ReaderHas(b1, t, u)'
  <2>1. Leads(Tells(may), Seen(b1), Tail(toDsp), t)
    BY <1>3, <1>4, <1>9
  <2> QED
    BY <1>1, <1>2, <2>1 DEF ReaderHas
<1> QED
  BY <1>1, <1>4, <1>7, <1>8, <1>9
(* A step of the dsp thread, which does what its next message says and     *)
(* tells the orchestrator.                                                 *)
LEMMA DspChain ==
  ASSUME EngineTypes, visits \in Nat, NEW a, NEW b, NEW t, NEW u, Chain(a, b, t, u),
         Dsp, UNCHANGED <<may, visits>>
  PROVE  \E b1 : Chain(a, b1, t, u)'
<1>1. engine = "up" /\ UNCHANGED <<may, visits, cmds, reader, todo>>
  BY DEF Dsp, DspTuned, DspWindow, DspClose, DspFrame, DspFrameUnheard, DspOverflow, DspStop,
         DspStall, DspEof, DspReturns, Receives, ReaderUnchanged
<1>2. /\ a \in Heard /\ b \in Heard /\ Leads(Says(may), a, out, b) /\ b.tunes <= visits
      /\ DspHas(b) /\ ReaderHas(b, t, u) /\ open = b.open /\ out \in Seq(Lines)
      /\ ring.gen \in Nat /\ b.tunes \in Nat
  BY <1>1 DEF Chain, Spoken, EngineTypes, Heard, Places
<1>3. /\ b.at \in {"none", "tuned", "open"}
      /\ b.at # "none" => b.center \in Nat
      /\ det = IF b.at = "open" THEN b.center ELSE None
      /\ ring.gen = IF b.at = "tuned" THEN b.tunes - 1 ELSE b.tunes
      /\ \A i \in Channels : pending[i] # None => i \in b.pend
      /\ b.at # "open" => b.open = {} /\ b.pend = {}
      /\ Seen(b).at = b.at /\ Seen(b).center = b.center /\ Seen(b).tunes = b.tunes
      /\ det = None => b.at # "open"
  BY <1>2, SeenIs DEF DspHas, Heard, None
<1> DEFINE msg == Head(toDsp)
           c == MsgNext(Seen(b), msg)
<1>4. ASSUME NEW kind, Receives(kind)
      PROVE  /\ msg \in Messages /\ msg.k = kind
             /\ Seen(b) \in Told /\ MsgFits(may, Seen(b), msg)
             /\ c \in Told /\ c.tunes <= visits
             /\ c.at = "left" => reader = "gone"
             /\ \A b1 : Seen(b1) = c => ReaderHas(b1, t, u)'
  BY <1>1, <1>2, <1>3, <1>4, ReceivedChain
<1> HIDE DEF c, msg
<1>5. ASSUME NEW b1 \in Heard, Leads(Says(may), a, out', b1), Seen(b1) = c, c.tunes <= visits,
             ReaderHas(b1, t, u)', engine' = "up", DspHas(b1)', open' = b1.open
      PROVE  Chain(a, b1, t, u)'
  BY <1>1, <1>2, <1>5, SeenIs DEF Chain, Spoken
<1>6. CASE DspTuned
  <2> DEFINE m == Tuned(msg.center)
  <2>0. PICK b1 : b1 = LineNext(b, m)
    OBVIOUS
  <2>1. Receives("tuned") /\ out' = Append(out, m) /\ UNCHANGED <<det, ring, open, pending, engine>>
    BY <1>6 DEF DspTuned, msg
  <2>2. msg \in Messages /\ msg.k = "tuned" /\ Seen(b) \in Told /\ MsgFits(may, Seen(b), msg)
        /\ c \in Told /\ c.tunes <= visits /\ (\A x : Seen(x) = c => ReaderHas(x, t, u)')
    BY <1>4, <2>1
  <2>3. msg.center \in Nat /\ b.at = "none"
    BY <1>3, <2>2, MessageFields DEF MsgFits
  <2>4. m \in Lines /\ m.t = "tuned" /\ m.center = msg.center
    BY <2>3, MadeOfLines DEF Tuned
  <2> HIDE DEF m
  <2>5. LineFits(may, b, m)
    BY <2>3, <2>4 DEF LineFits
  <2>6. /\ b1 \in Heard /\ Leads(Says(may), a, out', b1)
        /\ b1.at = "tuned" /\ b1.center = msg.center /\ b1.tunes = b.tunes + 1
        /\ b1.open = b.open /\ b1.pend = b.pend
    BY <1>2, <2>0, <2>1, <2>4, <2>5, SaidMore, LineNextIs
  <2>7. c.at = "tuned" /\ c.center = msg.center /\ c.tunes = b.tunes + 1
    BY <1>3, <2>2, MsgNextIs DEF c
  <2>8. Seen(b1) = c
    BY <2>2, <2>6, <2>7, SeenIs
  <2>9. DspHas(b1)'
    BY <1>2, <1>3, <2>1, <2>3, <2>6 DEF DspHas
  <2> QED
    BY <1>1, <1>2, <1>5, <2>1, <2>2, <2>6, <2>8, <2>9
<1>7. CASE DspWindow
  <2> DEFINE m == Linearity(msg.center)
             n == Window(msg.center, ring.gen + 1)
             first == IF FromFile THEN out ELSE Append(out, m)
             b0 == IF FromFile THEN b ELSE LineNext(b, m)
  <2>0. PICK b1 : b1 = LineNext(b0, n)
    OBVIOUS
  <2>1. /\ Receives("window") /\ out' = first \o <<n>> /\ UNCHANGED engine
        /\ ring' = [gen |-> ring.gen + 1, center |-> msg.center, written |-> 0]
        /\ det' = msg.center /\ open' = {} /\ pending' = NonePending
    BY <1>7 DEF DspWindow, msg
  <2>2. msg \in Messages /\ msg.k = "window" /\ Seen(b) \in Told /\ MsgFits(may, Seen(b), msg)
        /\ c \in Told /\ c.tunes <= visits /\ (\A x : Seen(x) = c => ReaderHas(x, t, u)')
    BY <1>4, <2>1
  <2>3. msg.center \in Nat /\ b.at = "tuned" /\ msg.center = b.center
    BY <1>3, <2>2, MessageFields DEF MsgFits
  <2>4. /\ m \in Lines /\ m.t = "linearity" /\ m.center = msg.center
        /\ n \in Lines /\ n.t = "window" /\ n.center = msg.center /\ n.gen = ring.gen + 1
    BY <1>2, <2>3, MadeOfLines DEF Linearity, Window
  <2> HIDE DEF m, n
  <2>5. /\ first \in Seq(Lines) /\ b0 \in Heard /\ Leads(Says(may), a, first, b0)
        /\ b0.at = IF "file" \in may THEN "tuned" ELSE "probed"
        /\ b0.center = b.center /\ b0.tunes = b.tunes
        /\ b0.open = b.open /\ b0.pend = b.pend
    <3>1. CASE FromFile
      BY <1>2, <2>3, <3>1 DEF FromFile
    <3>2. CASE ~FromFile
      <4>1. LineFits(may, b, m)
        BY <2>3, <2>4, <3>2 DEF LineFits, FromFile
      <4> QED
        BY <1>2, <2>4, <3>2, <4>1, SaidMore, LineNextIs DEF FromFile
    <3> QED
      BY <3>1, <3>2
  <2> HIDE DEF first, b0
  <2>6. LineFits(may, b0, n)
    BY <1>2, <1>3, <2>3, <2>4, <2>5 DEF LineFits
  <2>7. out' = Append(first, n)
    BY <2>1, <2>4, <2>5, AppendIsConcat
  <2>8. /\ b1 \in Heard /\ Leads(Says(may), a, out', b1)
        /\ b1.at = "open" /\ b1.center = msg.center /\ b1.tunes = b.tunes
        /\ b1.open = {}
    BY <1>3, <2>0, <2>3, <2>4, <2>5, <2>6, <2>7, SaidMore, LineNextIs
  <2>9. c.at = "open" /\ c.center = msg.center /\ c.tunes = b.tunes
    BY <1>3, <2>2, <2>3, MsgNextIs DEF c
  <2>10. Seen(b1) = c
    BY <2>2, <2>8, <2>9, SeenIs
  <2>11. DspHas(b1)'
    BY <1>2, <1>3, <2>1, <2>3, <2>8 DEF DspHas, NonePending
  <2> QED
    BY <1>1, <1>2, <1>5, <2>1, <2>2, <2>8, <2>10, <2>11
<1>8. ASSUME c = Seen(b), UNCHANGED <<det, open, pending, out, engine>>, ring'.gen = ring.gen,
             NEW kind, Receives(kind)
      PROVE  Chain(a, b, t, u)'
  <2>1. c.tunes <= visits /\ ReaderHas(b, t, u)'
    BY <1>4, <1>8
  <2>2. DspHas(b)'
    BY <1>2, <1>8 DEF DspHas
  <2> QED
    BY <1>1, <1>2, <1>5, <1>8, <2>1, <2>2
<1>9. CASE DspClose
  <2>1. Receives("close") /\ UNCHANGED <<ring, engine>> /\ det' = None
        /\ (det = None => UNCHANGED <<out, open, pending>>)
        /\ (det # None => out' = Append(out, Line("close")) /\ open' = {} /\ pending' = NonePending)
    BY <1>9 DEF DspClose
  <2>2. msg \in Messages /\ msg.k = "close" /\ Seen(b) \in Told /\ MsgFits(may, Seen(b), msg)
        /\ c \in Told /\ c.tunes <= visits /\ (\A x : Seen(x) = c => ReaderHas(x, t, u)')
    BY <1>4, <2>1
  <2>3. c.at = "none" /\ c.center = b.center /\ c.tunes = b.tunes /\ b.at \in {"none", "open"}
    BY <1>3, <2>2, MsgNextIs DEF c, MsgFits
  <2>4. CASE det = None
    <3>1. b.at = "none"
      BY <1>3, <2>3, <2>4
    <3>2. c = Seen(b)
      BY <1>2, <2>2, <2>3, <3>1, SeenIs
    <3> QED
      BY <1>8, <2>1, <2>4, <3>2
  <2>5. CASE det # None
    <3> DEFINE m == Line("close")
    <3>0. PICK b1 : b1 = LineNext(b, m)
      OBVIOUS
    <3>1. m \in Lines /\ m.t = "close" /\ b.at = "open"
      BY <1>3, <2>5, MadeOfLines DEF Line
    <3>2. LineFits(may, b, m)
      BY <3>1 DEF LineFits
    <3>10. out' = Append(out, m)
      BY <2>1, <2>5
    <3> HIDE DEF m
    <3>3. /\ b1 \in Heard /\ Leads(Says(may), a, out', b1)
          /\ b1.at = "none" /\ b1.center = b.center /\ b1.tunes = b.tunes /\ b1.open = {}
      BY <1>2, <3>0, <3>1, <3>2, <3>10, SaidMore, LineNextIs
    <3>4. Seen(b1) = c
      BY <2>2, <2>3, <3>3, SeenIs
    <3>5. DspHas(b1)'
      BY <1>2, <1>3, <2>1, <2>5, <3>1, <3>3 DEF DspHas, NonePending
    <3> QED
      BY <1>1, <1>2, <1>5, <2>1, <2>2, <2>5, <3>3, <3>4, <3>5
  <2> QED
    BY <2>4, <2>5
<1>10. CASE DspFrameUnheard \/ DspOverflow
  <2>1. PICK kind \in {"frame", "overflow"} : Receives(kind)
    BY <1>10 DEF DspFrameUnheard, DspOverflow
  <2>2. UNCHANGED <<det, open, pending, out, engine>> /\ ring'.gen = ring.gen
    BY <1>10 DEF DspFrameUnheard, DspOverflow, EngineTypes
  <2>3. c = Seen(b)
    BY <1>4, <2>1, MsgNextIs DEF c
  <2> QED
    BY <1>8, <2>1, <2>2, <2>3
<1>11. CASE DspFrame
  <2>1. Receives("frame") /\ det # None /\ UNCHANGED <<det, engine>>
    BY <1>11 DEF DspFrame
  <2>2. ring'.gen = ring.gen
    BY <1>11, DspFrameSays DEF EngineTypes
  <2>3. PICK started, finished, due, fin : FrameSays(started, finished, due, fin)
    BY <1>11, DspFrameSays
  <2>4. msg \in Messages /\ c = Seen(b) /\ c \in Told /\ c.tunes <= visits
        /\ (\A x : Seen(x) = c => ReaderHas(x, t, u)')
    BY <1>4, <2>1, MsgNextIs DEF c
  <2>5. b.at = "open"
    BY <1>3, <2>1
  <2>6. /\ FrameMoves(started, finished, due) /\ FrameDecides(started, finished, due, fin)
        /\ out' = IF started \cup finished = {} /\ due = {} THEN out
                  ELSE Append(out, Frame(ring.gen, started, due, fin, finished))
    BY <2>3 DEF FrameSays
  <2>7. CASE started \cup finished = {} /\ due = {}
    <3>1. out' = out /\ open' = open
      BY <2>6, <2>7 DEF FrameMoves
    <3>2. DspHas(b)'
      BY <1>2, <1>3, <2>1, <2>2, <2>6, <2>7 DEF DspHas, FrameMoves
    <3> QED
      BY <1>1, <1>2, <1>5, <2>1, <2>4, <3>1, <3>2
  <2>8. CASE ~(started \cup finished = {} /\ due = {})
    <3> DEFINE m == Frame(ring.gen, started, due, fin, finished)
    <3>0. PICK b1 : b1 = LineNext(b, m)
      OBVIOUS
    <3>1. /\ m \in Lines /\ m.t = "f" /\ m.heard = ring.gen /\ m.s = started /\ m.due = due
          /\ m.fin = fin /\ m.e = finished
      <4>1. /\ started \in SUBSET Channels /\ finished \in SUBSET Channels
            /\ due \in SUBSET Decisions /\ fin \in SUBSET Decisions
        BY <2>6 DEF FrameMoves, FrameDecides, EngineTypes
      <4>2. m \in Lines
        BY <1>2, <4>1, MadeOfLines
      <4> QED
        BY <4>2 DEF Frame
    <3>2. out' = Append(out, m)
      BY <2>6, <2>8
    <3> HIDE DEF m
    <3>3. FrameFits(b, m)
      <4>1. /\ m.heard = b.tunes /\ m.s \cap b.open = {} /\ m.e \subseteq b.open
        BY <1>2, <1>3, <2>5, <2>6, <3>1 DEF FrameMoves
      <4>2. \A d \in m.due \cup m.fin : d.ch \in (b.pend \cup m.s) \cap (b.open \cup m.s)
        <5>1. SUFFICES ASSUME NEW d \in m.due \cup m.fin
                       PROVE d.ch \in (b.pend \cup m.s) \cap (b.open \cup m.s)
          OBVIOUS
        <5>2. d \in Decisions /\ d.ch \in open \cup started
              /\ (pending[d.ch] # None \/ d.ch \in started)
          BY <2>6, <3>1 DEF FrameDecides
        <5> QED
          BY <1>2, <1>3, <3>1, <5>2, DecisionFields
      <4>3. /\ \A d \in m.due \cup m.fin : d.k = "h" => d.parent \in (b.open \cup m.s) /\ d.parent # d.ch
            /\ \A d, f \in m.due \cup m.fin : d.ch = f.ch => d = f
            /\ \A d \in m.due, f \in m.fin : d.ch # f.ch
            /\ \A d \in m.fin : d.ch \in m.e
            /\ \A d \in m.fin : d.k = "h" /\ d.parent \in m.e => Earlier(d.ch, d.parent)
        BY <1>2, <2>6, <3>1 DEF FrameDecides
      <4> QED
        BY <4>1, <4>2, <4>3 DEF FrameFits
    <3>4. LineFits(may, b, m)
      BY <2>5, <3>1, <3>3 DEF LineFits
    <3>5. /\ b1 \in Heard /\ Leads(Says(may), a, out', b1)
          /\ b1.at = b.at /\ b1.center = b.center /\ b1.tunes = b.tunes
          /\ b1.open = (b.open \cup started) \ finished
          /\ b1.pend = (b.pend \cup started) \ (finished \cup Decided(due))
      BY <1>2, <3>0, <3>1, <3>2, <3>4, SaidMore, LineNextIs
    <3>6. Seen(b1) = c
      BY <1>2, <2>4, <3>5 DEF Seen
    <3>7. DspHas(b1)'
      BY <1>2, <1>3, <2>1, <2>2, <2>5, <2>6, <3>5 DEF DspHas, FrameMoves
    <3>8. open' = b1.open
      BY <1>2, <2>6, <3>5 DEF FrameMoves
    <3> QED
      BY <1>1, <1>2, <1>5, <2>1, <2>4, <3>5, <3>6, <3>7, <3>8
  <2> QED
    BY <2>7, <2>8
<1>12. ASSUME NEW b1 \in Heard, Leads(Says(may), a, out', b1), b1.at \in {"none", "left"},
              b1.tunes = b.tunes, open' = b1.open, engine' = "leaving", reader = "gone"
       PROVE  Chain(a, b1, t, u)'
  BY <1>1, <1>2, <1>12 DEF Chain, Spoken
<1>13. ASSUME NEW kind \in {"stop", "stall", "eof"}, Receives(kind)
       PROVE  b.at = "none" /\ b.open = {} /\ reader = "gone" /\ (kind = "eof" => "file" \in may)
  <2>1. msg \in Messages /\ msg.k = kind /\ Seen(b) \in Told /\ MsgFits(may, Seen(b), msg)
        /\ (c.at = "left" => reader = "gone")
    BY <1>4, <1>13
  <2> QED
    BY <1>3, <2>1, MsgNextIs DEF c, MsgFits
<1>14. CASE DspStop
  <2>1. Receives("stop") /\ out' = out \o <<>> /\ engine' = "leaving" /\ open' = open
    BY <1>14 DEF DspStop, DspReturns
  <2>2. out' = out
    BY <1>2, <2>1, ConcatEmptySeq
  <2> QED
    BY <1>2, <1>12, <1>13, <2>1, <2>2
<1>15. ASSUME NEW kind \in {"stall", "eof"}, DspReturns(kind, <<Line(kind)>>)
       PROVE  \E b1 : Chain(a, b1, t, u)'
  <2> DEFINE m == Line(kind)
  <2>0. PICK b1 : b1 = LineNext(b, m)
    OBVIOUS
  <2>1. Receives(kind) /\ out' = out \o <<m>> /\ engine' = "leaving" /\ open' = open
    BY <1>15 DEF DspReturns
  <2>2. m \in Lines /\ m.t = kind
    BY MadeOfLines DEF Line
  <2> HIDE DEF m
  <2>3. b.at = "none" /\ b.open = {} /\ reader = "gone" /\ (kind = "eof" => "file" \in may)
    BY <1>13, <2>1
  <2>4. LineFits(may, b, m)
    BY <2>2, <2>3 DEF LineFits
  <2>5. out' = Append(out, m)
    BY <1>2, <2>1, <2>2, AppendIsConcat
  <2>6. b1 \in Heard /\ Leads(Says(may), a, out', b1) /\ b1.at = "left" /\ b1.tunes = b.tunes
        /\ b1.open = {}
    BY <1>2, <2>0, <2>2, <2>4, <2>5, SaidMore, LineNextIs
  <2> QED
    BY <1>2, <1>12, <2>1, <2>3, <2>6
<1> QED
  BY <1>6, <1>7, <1>9, <1>10, <1>11, <1>14, <1>15 DEF Dsp, DspStall, DspEof
LEMMA EngineChain ==
  ASSUME EngineTypes, visits \in Nat, NEW a, NEW b, NEW t, NEW u, Chain(a, b, t, u),
         EngineNext, UNCHANGED <<may, visits>>
  PROVE  \E b1, t1, u1 : Chain(a, b1, t1, u1)'
<1>1. /\ a \in Heard /\ b \in Heard /\ Leads(Says(may), a, out, b) /\ b.tunes <= visits
      /\ engine # "up" => b.at \in {"none", "left"}
      /\ out \in Seq(Lines) /\ b.tunes \in Nat /\ a.tunes \in Nat
      /\ UNCHANGED <<may, visits>>
  BY DEF Chain, Spoken, EngineTypes, Heard, Places
<1>2. CASE Reader
  <2>1. engine = "up" /\ UNCHANGED <<det, ring, open, pending, out, engine>>
    BY <1>2 DEF Reader, Send, CommandOpen, CommandOpenFails, CommandStop, ReadSamples,
                ReadOverflow, ReadNothing, ReadEof, AtCommands, AtRead
  <2>2. DspHas(b) /\ ReaderHas(b, t, u) /\ open = b.open
    BY <2>1 DEF Chain
  <2>3. PICK t1, u1 : ReaderHas(b, t1, u1)'
    BY <1>1, <1>2, <2>2, ReaderChain
  <2>4. DspHas(b)'
    BY <2>1, <2>2 DEF DspHas
  <2>5. Chain(a, b, t1, u1)'
    BY <1>1, <2>1, <2>2, <2>3, <2>4 DEF Chain, Spoken
  <2> QED
    BY <2>5
<1>3. CASE Dsp
  BY <1>3, DspChain
<1>4. ASSUME NEW c \in Heard, NEW q \in Seq(Lines), Leads(Says(may), a, q, c),
             c.tunes <= visits, out' = Append(q, Line("__eof__")), engine' = "gone",
             c.at \in {"none", "left"} \/ "crash" \in may,
             "crash" \notin may => open' = {}
      PROVE  \E b1, t1, u1 : Chain(a, b1, t1, u1)'
  <2> DEFINE m == Line("__eof__")
  <2>1. PICK b1 : b1 = LineNext(c, m)
    OBVIOUS
  <2>2. m \in Lines /\ m.t = "__eof__"
    BY MadeOfLines DEF Line
  <2>3. out' = Append(q, m)
    BY <1>4
  <2> HIDE DEF m
  <2>4. LineFits(may, c, m)
    BY <1>4, <2>2 DEF LineFits
  <2>5. b1 \in Heard /\ Leads(Says(may), a, out', b1) /\ b1.at = "left" /\ b1.tunes = c.tunes
        /\ b1.open = {}
    BY <1>4, <2>1, <2>2, <2>3, <2>4, SaidMore, LineNextIs
  <2>6. Chain(a, b1, t, u)'
    BY <1>1, <1>4, <2>5 DEF Chain, Spoken
  <2> QED
    BY <2>6
<1>5. CASE Exit
  <2>1. engine = "leaving" /\ engine' = "gone" /\ open' = open
        /\ out' = Append(out, Line("__eof__"))
    BY <1>5 DEF Exit
  <2>2. "crash" \notin may => open = {}
    BY <1>1, <2>1 DEF Chain, Heard
  <2> QED
    BY <1>1, <1>4, <2>1, <2>2
<1>6. CASE Crash
  <2>1. "crash" \in may /\ engine' = "gone"
    BY <1>6 DEF Crash
  <2>2. PICK k \in 0 .. Len(out) : out' = Append(SubSeq(out, 1, k), Line("__eof__"))
    BY <1>6 DEF Crash
  <2>3. PICK c, r : /\ Leads(Says(may), a, SubSeq(out, 1, k), c)
                    /\ Len(r) \in Nat /\ Leads(Says(may), c, r, b)
    BY <1>1, LeadsPrefix
  <2>4. SubSeq(out, 1, k) \in Seq(Lines) /\ Len(SubSeq(out, 1, k)) \in Nat
    <3>1. \A i \in 1 .. k : out[i] \in Lines
      BY <1>1, ElementOfSeq, LenProperties
    <3> QED
      BY <1>1, <3>1, SubSeqProperties, LenProperties
  <2>5. c \in Heard
    BY <1>1, <2>3, <2>4, SaysGrow
  <2>6. c.tunes <= b.tunes /\ c.tunes \in Nat
    BY <2>3, <2>5, SaysGrow
  <2>7. c.tunes <= visits
    BY <1>1, <2>6
  <2> QED
    BY <1>4, <2>1, <2>2, <2>3, <2>4, <2>5, <2>7
<1> QED
  BY <1>2, <1>3, <1>5, <1>6 DEF EngineNext

(* The orchestrator takes a line: it is a line that fits what it knows.    *)
LEMMA TakesChain ==
  ASSUME EngineTypes, NEW a, NEW b, NEW t, NEW u, Chain(a, b, t, u), NEW kind, Takes(kind),
         UNCHANGED <<may, visits>>
  PROVE  /\ a \in Heard /\ Head(out) \in Lines /\ Head(out).t = kind
         /\ LineFits(may, a, Head(out)) /\ LineNext(a, Head(out)) \in Heard
         /\ \A a1 : a1 = LineNext(a, Head(out)) => Chain(a1, b, t, u)'
<1>1. /\ a \in Heard /\ b \in Heard /\ Leads(Says(may), a, out, b) /\ b.tunes <= visits
      /\ engine # "up" => b.at \in {"none", "left"}
      /\ out \in Seq(Lines)
      /\ UNCHANGED <<may, visits>>
  BY DEF Chain, Spoken, EngineTypes
<1>2. /\ out # <<>> /\ Head(out).t = kind /\ out' = Tail(out)
      /\ UNCHANGED <<cmds, reader, todo, stalled, reads, toDsp, det, ring, open, pending, engine>>
  BY DEF Takes
<1>3. PICK c : <<a, Head(out), c>> \in Says(may) /\ Leads(Says(may), c, Tail(out), b)
  BY <1>1, <1>2, LeadsHead
<1>4. Head(out) \in Lines /\ LineFits(may, a, Head(out)) /\ c \in Heard
      /\ c = LineNext(a, Head(out))
  BY <1>3, SaysIs
<1>5. /\ engine = "up" => DspHas(b)' /\ ReaderHas(b, t, u)'
      /\ engine = "leaving" => reader = "gone"
      /\ engine = "up" \/ "crash" \notin may => open = b.open
  BY <1>1, <1>2 DEF Chain, DspHas, ReaderHas
<1>6. Chain(c, b, t, u)'
  BY <1>1, <1>2, <1>3, <1>4, <1>5 DEF Chain, Spoken
<1> QED
  BY <1>1, <1>2, <1>4, <1>6

LEMMA SameChain ==
  ASSUME NEW a, NEW b, NEW t, NEW u, Chain(a, b, t, u), UNCHANGED <<may, visits, engineVars>>
  PROVE  Chain(a, b, t, u)'
BY DEF Chain, Spoken, DspHas, ReaderHas, engineVars

(* The orchestrator sends a command, or has counted a visit nobody hears. *)
LEMMA CommandChain ==
  ASSUME EngineTypes, visits \in Nat, NEW a, NEW b, NEW t, NEW u, Chain(a, b, t, u),
         NEW m \in Commands, visits' = CmdNext(visits, m),
         cmds' = (IF engine = "gone" THEN cmds ELSE Append(cmds, m)),
         UNCHANGED <<may, reader, todo, toDsp, det, ring, open, pending, out, engine>>
  PROVE  Chain(a, b, t, u)'
<1>1. visits' \in Nat /\ visits <= visits'
  BY DEF CmdNext
<1>2. b \in Heard /\ b.tunes <= visits /\ b.tunes \in Nat
  BY DEF Chain, Spoken, Heard, Places
<1>3. b.tunes <= visits'
  BY <1>1, <1>2
<1>4. CASE engine = "up"
  <2>1. DspHas(b) /\ ReaderHas(b, t, u) /\ cmds' = Append(cmds, m) /\ cmds \in Seq(Commands)
    BY <1>4 DEF Chain, EngineTypes
  <2>2. u \in Told /\ u.tunes <= visits /\ u.tunes \in Nat
    BY <2>1 DEF ReaderHas, Told
  <2>3. u.tunes <= visits'
    BY <1>1, <2>2
  <2>4. <<visits, m, visits'>> \in Orders
    BY <1>1 DEF Orders
  <2>5. Leads(Orders, u.tunes, cmds, visits) => Leads(Orders, u.tunes, cmds', visits')
    BY <2>1, <2>4, LeadsAppend
  <2>6. ReaderHas(b, t, u)'
    BY <2>1, <2>3, <2>5 DEF ReaderHas
  <2>7. DspHas(b)'
    BY <2>1 DEF DspHas
  <2> QED
    BY <1>3, <1>4, <2>6, <2>7 DEF Chain, Spoken
<1>5. CASE engine # "up"
  BY <1>3, <1>5 DEF Chain, Spoken
<1> QED
  BY <1>4, <1>5
(* An engine that hangs with nothing left to do is in no window, nor is    *)
(* one that has left.                                                      *)
LEMMA StuckOutside ==
  ASSUME NEW a, NEW b, NEW t, NEW u, Chain(a, b, t, u), EngineTypes, engine # "up" \/ Stuck
  PROVE  b.at \in {"none", "left"}
<1>1. b \in Heard /\ (engine # "up" => b.at \in {"none", "left"})
  BY DEF Chain, Spoken
<1>2. CASE engine = "up"
  <2>1. reader = "hung" /\ todo = <<>> /\ toDsp = <<>> /\ ReaderHas(b, t, u)
    BY <1>2 DEF Stuck, Chain
  <2>2. u.at = "none" /\ t = u /\ Seen(b) = t
    BY <2>1, LeadsEmpty DEF ReaderHas
  <2> QED
    BY <1>1, <2>2, SeenIs
<1> QED
  BY <1>1, <1>2

(* With everything it said handled, the orchestrator is where it is.       *)
LEMMA NothingLeft ==
  ASSUME NEW a, NEW b, NEW t, NEW u, Chain(a, b, t, u), EngineTypes, out = <<>>,
         engine # "up" \/ Stuck
  PROVE  a = b /\ b.at \in {"none", "left"}
<1>1. Leads(Says(may), a, out, b)
  BY DEF Chain, Spoken
<1>2. a = b
  BY <1>1, LeadsEmpty
<1> QED
  BY <1>2, StuckOutside

LEMMA ReapChain ==
  ASSUME EngineTypes, NEW a, NEW b, NEW t, NEW u, Chain(a, b, t, u), Reap,
         UNCHANGED <<may, visits>>
  PROVE  Chain(a, b, t, u)'
<1>1. engine' = "gone" /\ UNCHANGED <<out, open, may, visits>>
  BY DEF Reap
<1>2. CASE engine = "gone"
  BY <1>1, <1>2 DEF Chain, Spoken
<1>3. CASE Stuck /\ engine # "gone"
  <2>1. b.at \in {"none", "left"}
    BY <1>3, StuckOutside
  <2>2. engine = "up"
    BY <1>3 DEF Stuck, Chain, EngineTypes
  <2> QED
    BY <1>1, <2>1, <2>2 DEF Chain, Spoken
<1> QED
  BY <1>2, <1>3 DEF Reap

(* What a step of the orchestrator has heard. *)
Hears(a, a1) ==
  \/ out' = out /\ a1 = a
  \/ /\ out # <<>> /\ out' = Tail(out) /\ line = NoLine
     /\ Head(out) \in Lines /\ LineFits(may, a, Head(out))
     /\ a1 = LineNext(a, Head(out)) /\ a1 \in Heard

LEMMA OrchestratorChain ==
  ASSUME Types, NEW a, NEW b, NEW t, NEW u, Chain(a, b, t, u), Orchestrator
  PROVE  \E a1 : Hears(a, a1) /\ Chain(a1, b, t, u)'
<1>1. EngineTypes /\ visits \in Nat /\ UNCHANGED may
  BY DEF Types, LoopTypes, Orchestrator
<1>2. ASSUME UNCHANGED <<visits, engineVars>>
      PROVE  \E a1 : Hears(a, a1) /\ Chain(a1, b, t, u)'
  <2>1. out' = out
    BY <1>2 DEF engineVars
  <2> QED
    BY <1>1, <1>2, <2>1, SameChain DEF Hears
<1>3. ASSUME NEW k, Takes(k), UNCHANGED visits
      PROVE  \E a1 : Hears(a, a1) /\ Chain(a1, b, t, u)'
  <2>1. PICK a1 : a1 = LineNext(a, Head(out))
    OBVIOUS
  <2>2. out # <<>> /\ out' = Tail(out) /\ line = NoLine
    BY <1>3 DEF Takes
  <2> QED
    BY <1>1, <1>3, <2>1, <2>2, TakesChain DEF Hears
<1>4. ASSUME NEW m \in Commands, visits' = CmdNext(visits, m),
             cmds' = (IF engine = "gone" THEN cmds ELSE Append(cmds, m)),
             UNCHANGED <<reader, todo, toDsp, det, ring, open, pending, out, engine>>
      PROVE  \E a1 : Hears(a, a1) /\ Chain(a1, b, t, u)'
  BY <1>1, <1>4, CommandChain DEF Hears
<1>5. CASE OpenWindow
  <2> DEFINE m == CmdOpen(Windows[(visits % Len(Windows)) + 1])
  <2>1. m \in Commands
    BY <1>1, WindowIsCentre, CommandsAre
  <2>2. visits' = CmdNext(visits, m)
    BY <1>5 DEF OpenWindow, CmdNext, CmdOpen
  <2>3. /\ cmds' = (IF engine = "gone" THEN cmds ELSE Append(cmds, m))
        /\ UNCHANGED <<reader, todo, toDsp, det, ring, open, pending, out, engine>>
    BY <1>5 DEF OpenWindow
  <2> HIDE DEF m
  <2> QED
    BY <1>4, <2>1, <2>2, <2>3
<1>6. CASE Handle
  <2>1. UNCHANGED visits /\ \E k : Takes(k)
    BY <1>6 DEF Handle, OnTuned, OnLinearity, OnWindow, OnFrame, OnClose, EngineEnds, Goes, loopVars
  <2> QED
    BY <1>3, <2>1
<1>7. CASE Replay \/ Pumped \/ PumpOn \/ DwellOver \/ StopSeen \/ WaitTimesOut
  <2>1. UNCHANGED <<visits, engineVars>>
    BY <1>7 DEF Replay, ReplayStart, ReplayDue, ReplayLast, ReplayEnd, ReplayUnchanged, Pumped,
                PumpOn, DwellOver, StopSeen, WaitTimesOut, Goes
  <2> QED
    BY <1>2, <2>1
<1>8. CASE StatementFails
  <2>1. UNCHANGED visits
    BY <1>8 DEF StatementFails, FrameFails, CloseFails, WindowFails, CollectFails, Fails
  <2>2. UNCHANGED engineVars \/ \E k : Takes(k)
    BY <1>8 DEF StatementFails, FrameFails, CloseFails, WindowFails, CollectFails
  <2> QED
    BY <1>2, <1>3, <2>1, <2>2
<1>9. CASE Finish
  <2>1. UNCHANGED visits
    BY <1>9 DEF Finish, SendStop, DrainSkips, DrainEnds, Reap, PutNone, CollectLast, EndRun, Goes,
                loopVars
  <2>2. CASE PutNone \/ CollectLast \/ EndRun
    BY <1>2, <2>1, <2>2 DEF PutNone, CollectLast, EndRun
  <2>3. CASE DrainSkips \/ \E k : Takes(k)
    BY <1>3, <2>1, <2>3 DEF DrainSkips
  <2>4. CASE Reap
    <3>1. out' = out
      BY <2>4 DEF Reap
    <3> QED
      BY <1>1, <2>1, <2>4, <3>1, ReapChain DEF Hears
  <2>5. ASSUME cmds' = (IF engine = "gone" THEN cmds ELSE Append(cmds, CmdStop)),
               UNCHANGED <<reader, todo, toDsp, det, ring, open, pending, out, engine>>
        PROVE  \E a1 : Hears(a, a1) /\ Chain(a1, b, t, u)'
    <3>1. CmdStop \in Commands /\ visits' = CmdNext(visits, CmdStop)
      BY <2>1, CommandsAre DEF CmdNext, CmdStop
    <3> QED
      BY <1>4, <2>5, <3>1
  <2>6. CASE SendStop
    BY <2>5, <2>6 DEF SendStop
  <2>7. CASE DrainEnds
    BY <2>3, <2>5, <2>7 DEF DrainEnds
  <2> QED
    BY <1>9, <2>2, <2>3, <2>4, <2>6, <2>7 DEF Finish
<1> QED
  BY <1>5, <1>6, <1>7, <1>8, <1>9 DEF Orchestrator

LEMMA InitChain ==
  ASSUME Init
  PROVE  \E a, t : /\ Chain(a, a, t, t) /\ a \in Heard /\ a.at = "none" /\ a.tunes = 0
                   /\ a.open = {} /\ a.pend = {}
<1>1. PICK a : a = [at |-> "none", center |-> None, tunes |-> 0, open |-> {}, pend |-> {}]
  OBVIOUS
<1>2. PICK t : t = [at |-> "none", center |-> None, tunes |-> 0]
  OBVIOUS
<1>3. a \in Heard /\ t \in Told /\ Seen(a) = t
  BY <1>1, <1>2 DEF Heard, Places, Told, Seen
<1>4. Spoken(a, a)
  BY <1>1, <1>3, LeadsEmpty DEF Spoken, Init, EngineInit
<1>5. DspHas(a)
  BY <1>1 DEF DspHas, Init, EngineInit, NonePending
<1>6. ReaderHas(a, t, t)
  BY <1>2, <1>3, LeadsEmpty DEF ReaderHas, Init, EngineInit
<1>7. Chain(a, a, t, t)
  BY <1>1, <1>4, <1>5, <1>6 DEF Chain, Init, EngineInit
<1> QED
  BY <1>1, <1>3, <1>7

-----------------------------------------------------------------------------
(* The rows of the events. *)

(* No row is added or moved, no job made; results may have been folded in. *)
Fewer ==
  /\ DOMAIN events' = DOMAIN events
  /\ \A r \in DOMAIN events : /\ events'[r].ch = events[r].ch
                              /\ events'[r].gen = events[r].gen
                              /\ events'[r].window = events[r].window
                              /\ events'[r].parent = events[r].parent
  /\ \A r \in DOMAIN events :
       \/ events'[r].result = events[r].result
       \/ \E i \in DOMAIN results : results[i].row = r /\ events'[r].result = results[i].gen
  /\ Work' \subseteq Work \cup {NoJob}
  /\ \A i \in DOMAIN results' :
       \/ \E n \in DOMAIN results : results'[i].row = results[n].row /\ results'[i].gen = results[n].gen
       \/ \E j \in Work \ {NoJob} : results'[i].row = j.row /\ results'[i].gen = j.gen

LEMMA FewerSound ==
  ASSUME Types, Sound, Fewer
  PROVE  /\ Sound'
         /\ \A r \in DOMAIN events : Undecided(r) => Undecided(r)'
<1>1. \A r \in DOMAIN events : r # None
  BY LenProperties DEF Types, RowTypes, None
<1>2. NoJob.row = None
  BY DEF NoJob
<1>3. ASSUME NEW r \in DOMAIN events, r \notin RowsOf
      PROVE  r \notin RowsOf' /\ events'[r].result = events[r].result
  <2>1. \A j \in Work' : j.row # r
    BY <1>1, <1>2, <1>3 DEF Fewer, RowsOf
  <2>2. \A i \in DOMAIN results' : results'[i].row # r
    BY <1>3 DEF Fewer, RowsOf
  <2>3. \A i \in DOMAIN results : results[i].row # r
    BY <1>3 DEF RowsOf
  <2> QED
    BY <2>1, <2>2, <2>3 DEF Fewer, RowsOf
<1>4. \A r \in DOMAIN events : Undecided(r) => Undecided(r)'
  BY <1>3 DEF Fewer, Undecided
<1>5. \A j \in Work' \ {NoJob} : j.row \in DOMAIN events' /\ j.gen = events'[j.row].gen
  BY DEF Fewer, Sound
<1>6. \A i \in DOMAIN results' : /\ results'[i].row \in DOMAIN events'
                                 /\ results'[i].gen = events'[results'[i].row].gen
  <2>1. SUFFICES ASSUME NEW i \in DOMAIN results'
                 PROVE  /\ results'[i].row \in DOMAIN events
                        /\ results'[i].gen = events[results'[i].row].gen
    BY DEF Fewer
  <2>2. CASE \E n \in DOMAIN results : results'[i].row = results[n].row /\ results'[i].gen = results[n].gen
    BY <2>2 DEF Sound
  <2>3. CASE \E j \in Work \ {NoJob} : results'[i].row = j.row /\ results'[i].gen = j.gen
    BY <2>3 DEF Sound
  <2> QED
    BY <2>2, <2>3 DEF Fewer
<1>7. ASSUME NEW r \in DOMAIN events
      PROVE  /\ events'[r].result \in {None, events'[r].gen}
             /\ events'[r].parent # None => Harmonic(r)'
  <2>1. events'[r].result \in {None, events'[r].gen}
    BY DEF Fewer, Sound
  <2>2. ASSUME events'[r].parent # None PROVE Harmonic(r)'
    <3>1. events[r].parent # None /\ Harmonic(r)
      BY <2>2 DEF Fewer, Sound
    <3> QED
      BY <1>3, <3>1 DEF Fewer, Harmonic
  <2> QED
    BY <2>1, <2>2
<1> QED
  BY <1>4, <1>5, <1>6, <1>7 DEF Sound, Fewer

Footing(a) == Placed(a) /\ Deciding(a) /\ Rows(a)

LEMMA OpenRow ==
  ASSUME Types
  PROVE  \A c \in Channels : openRows[c] # None => openRows[c] \in DOMAIN events
BY DEF Types, RowTypes

LEMMA AwaitingRows ==
  ASSUME Types, NEW a \in Heard, Deciding(a)
  PROVE  /\ Now(a) \subseteq Channels
         /\ (a.pend \cup Wanted) \ line.s \subseteq Now(a)
<1>1. a.open \subseteq Channels
  BY DEF Heard, Places
<1>2. line.e \subseteq Channels
  BY LineHas DEF Types, LoopTypes
<1> QED
  BY <1>1, <1>2 DEF Now, Deciding

(* A step that moves none of what the rows are about. *)
LEMMA RestingFooting ==
  ASSUME Types, Sound, Fewer, NEW a \in Heard, Footing(a),
         UNCHANGED <<may, line, openRows, grid, logWindow>>,
         pc' \in Looping => pc \in Looping,
         pc' \in Closing => pc \in Closing \/ line = NoLine
  PROVE  Sound' /\ Footing(a)'
<1>1. Sound' /\ \A r \in DOMAIN events : Undecided(r) => Undecided(r)'
  BY FewerSound
<1>2. Placed(a)'
  BY DEF Footing, Placed
<1>3. Deciding(a)'
  BY DEF Footing, Deciding, Wanted
<1>4. Now(a)' = Now(a) /\ Wanted' = Wanted /\ StatementsSucceed' = StatementsSucceed
  BY DEF Now, Wanted, StatementsSucceed
<1>5. Now(a) \subseteq Channels /\ (a.pend \cup Wanted) \ line.s \subseteq Now(a)
  BY AwaitingRows DEF Footing
<1>6. \A c \in Now(a) : openRows[c] # None =>
       /\ events'[openRows[c]].ch = c
       /\ events'[openRows[c]].gen = grid.gen
       /\ events'[openRows[c]].window = logWindow
  BY <1>5, OpenRow DEF Footing, Rows, Fewer
<1>7. \A c \in (a.pend \cup Wanted) \ line.s : openRows[c] # None => Undecided(openRows[c])'
  <2> SUFFICES ASSUME NEW c \in (a.pend \cup Wanted) \ line.s, openRows[c] # None
               PROVE  Undecided(openRows[c])'
    OBVIOUS
  <2>1. PICK r \in DOMAIN events : r = openRows[c]
    BY <1>5, OpenRow
  <2>2. Undecided(r)'
    BY <1>1, <2>1 DEF Footing, Rows
  <2>3. openRows'[c] = r
    BY <2>1
  <2> QED
    BY <2>1, <2>2
<1>8. Rows(a)'
  BY <1>4, <1>6, <1>7 DEF Rows, Footing
<1> QED
  BY <1>1, <1>2, <1>3, <1>8 DEF Footing

(* A line is heard that is not a frame's: no row is of an event that is    *)
(* still being heard.                                                      *)
LEMMA HearingFooting ==
  ASSUME Types, Sound, Fewer, NEW a \in Heard, NEW a1 \in Heard, Footing(a),
         NEW m \in Lines, LineFits(may, a, m), a1 = LineNext(a, m), m.t # "f",
         line = NoLine, UNCHANGED <<may, line>>,
         grid' = grid \/ (m.t = "window" /\ grid' = GridOf(m)),
         m.t = "window" => grid' = GridOf(m),
         \/ openRows' = openRows /\ m.t # "close"
         \/ openRows' = NoRows
         \/ pc' \notin Looping /\ ~StatementsSucceed,
         pc' \in Looping => pc \in Looping,
         pc' \in Closing => m.t = "__eof__"
  PROVE  Sound' /\ Footing(a1)'
<1>1. Sound'
  BY FewerSound
<1>2. line.s = {} /\ line.e = {} /\ line.due = {} /\ line.fin = {} /\ line' = line
  BY LineHas DEF Types, LoopTypes
<1>3. /\ m.t \in {"tuned", "linearity", "window", "close", "stall", "eof", "__eof__"}
      /\ a.at # "open" => a.open = {} /\ a.pend = {}
  BY LineFields DEF Heard
<1>4. /\ m.t = "tuned" => a.at = "none" /\ a1.at = "tuned"
      /\ m.t = "linearity" => a.at = "tuned" /\ a1.at = "probed"
      /\ m.t = "window" => a.at \in {"tuned", "probed"} /\ a1.at = "open"
                           /\ m.center = a.center /\ m.gen = a.tunes
                           /\ a1.center = a.center /\ a1.tunes = a.tunes
      /\ m.t = "close" => a1.at = "none"
      /\ m.t \in {"stall", "eof", "__eof__"} => a1.at = "left"
  BY LineNextIs DEF LineFits
<1>5. a1.open = {} /\ a1.pend = {}
  BY <1>3, <1>4, LineNextIs
<1>6. Wanted' = {} /\ Now(a1)' = {}
  BY <1>2, <1>5 DEF Wanted, Now, Decided
<1>7. Placed(a1)'
  <2>1. a1.at = "open" => grid' = [gen |-> a1.tunes, center |-> a1.center]
    BY <1>3, <1>4 DEF GridOf
  <2> QED
    BY <1>2, <1>3, <1>4, <1>5, <2>1 DEF Placed
<1>8. Deciding(a1)'
  BY <1>2, <1>5, <1>6 DEF Deciding
<1>9. (pc' \in Looping \/ StatementsSucceed) /\ a1.at # "left" =>
        \A c \in Channels : openRows'[c] = None
  <2> SUFFICES ASSUME pc' \in Looping \/ StatementsSucceed, a1.at # "left", NEW c \in Channels
               PROVE  openRows'[c] = None
    OBVIOUS
  <2>1. CASE openRows' = openRows /\ m.t # "close"
    <3>1. a.at \in {"none", "tuned", "probed"} /\ c \notin Now(a)
      BY <1>2, <1>3, <1>4, <2>1 DEF Now
    <3> QED
      BY <2>1, <3>1 DEF Footing, Rows
  <2>2. CASE openRows' = NoRows
    BY <2>2 DEF NoRows
  <2> QED
    BY <2>1, <2>2
<1>10. Rows(a1)'
  BY <1>5, <1>6, <1>9 DEF Rows, StatementsSucceed
<1> QED
  BY <1>1, <1>7, <1>8, <1>10 DEF Footing

LEMMA SameRows ==
  ASSUME UNCHANGED <<events, jobs, results>>, worker'.job \in {worker.job, NoJob}
  PROVE  Fewer
BY DEF Fewer, Work

(* The line of a frame is taken: all of it is still to be replayed.        *)
LEMMA FrameFooting ==
  ASSUME Types, Sound, NEW a \in Heard, NEW a1 \in Heard, Footing(a), UNCHANGED may,
         LineFits(may, a, Head(out)), Head(out) \in Lines, a1 = LineNext(a, Head(out)), OnFrame
  PROVE  Sound' /\ Footing(a1)'
<1>1. PICK m : m = Head(out)
  OBVIOUS
<1>2. /\ m \in Lines /\ m.t = "f" /\ LineFits(may, a, m) /\ a1 = LineNext(a, m) /\ line = NoLine
      /\ line' = [heard |-> m.heard, s |-> m.s, due |-> m.due, fin |-> m.fin, e |-> m.e]
      /\ UNCHANGED <<pc, grid, logWindow, openRows, events, jobs, worker, results>>
      /\ pc \notin Closing
  BY <1>1 DEF OnFrame, Takes, Handling, Closing, analysisVars, dbVars
<1>3. line'.heard = m.heard /\ line'.s = m.s /\ line'.due = m.due /\ line'.fin = m.fin /\ line'.e = m.e
  BY <1>2
<1>4. a.at = "open" /\ FrameFits(a, m)
  BY <1>2 DEF LineFits
<1>5. /\ a1.at = a.at /\ a1.center = a.center /\ a1.tunes = a.tunes
      /\ a1.open = (a.open \cup m.s) \ m.e
      /\ a1.pend = (a.pend \cup m.s) \ (m.e \cup Decided(m.due))
  BY <1>2, LineNextIs
<1>6. line.s = {} /\ line.e = {} /\ line.due = {} /\ line.fin = {}
  BY <1>2, LineHas DEF Types, LoopTypes
<1>7. m.s \subseteq Channels /\ m.e \subseteq Channels /\ a.open \subseteq Channels
  BY <1>2, LineFields DEF Heard, Places
<1>8. /\ m.s \cap a.open = {} /\ m.e \subseteq a.open /\ m.heard = a.tunes
      /\ \A d \in m.due \cup m.fin : d.ch \in (a.pend \cup m.s) \cap (a.open \cup m.s)
      /\ \A d \in m.due \cup m.fin : d.k = "h" => d.parent \in (a.open \cup m.s) /\ d.parent # d.ch
      /\ \A d, f \in m.due \cup m.fin : d.ch = f.ch => d = f
      /\ \A d \in m.due, f \in m.fin : d.ch # f.ch
      /\ \A d \in m.fin : d.ch \in m.e
      /\ \A d \in m.fin : d.k = "h" /\ d.parent \in m.e => Earlier(d.ch, d.parent)
  BY <1>4 DEF FrameFits
<1>9. Sound'
  BY <1>2, SameRows, FewerSound
<1>10. Placed(a1)'
  BY <1>2, <1>3, <1>4, <1>5, <1>8 DEF Placed, Footing, Closing
<1>11. Wanted' = Decided(m.due \cup m.fin)
  BY <1>3 DEF Wanted
<1>12. Wanted' \subseteq (a.pend \cup m.s) \cap (a.open \cup m.s)
  BY <1>8, <1>11 DEF Decided
<1>13. a1.pend \cap Wanted' = {}
  BY <1>5, <1>8, <1>11 DEF Decided
<1>14. a1.open \cup m.e = a.open \cup m.s
  BY <1>5, <1>8
<1>15. a1.pend \subseteq a1.open
  BY <1>5, <1>8 DEF Footing, Deciding
<1>16. Deciding(a1)'
  BY <1>3, <1>8, <1>12, <1>13, <1>14, <1>15 DEF Deciding
<1>17. Now(a1)' = a.open /\ Now(a) = a.open
  BY <1>3, <1>5, <1>6, <1>8 DEF Now
<1>18. (a1.pend \cup Wanted') \ m.s \subseteq a.pend
  BY <1>5, <1>12
<1>19. Rows(a1)'
  <2>1. /\ \A c \in Now(a) : openRows[c] # None =>
             /\ events[openRows[c]].ch = c
             /\ events[openRows[c]].gen = grid.gen
             /\ events[openRows[c]].window = logWindow
        /\ (pc \in Looping \/ StatementsSucceed) /\ a.at # "left" =>
             \A c \in Channels \ Now(a) : openRows[c] = None
        /\ \A c \in a.pend : openRows[c] # None => Undecided(openRows[c])
    BY <1>6 DEF Footing, Rows
  <2>2. \A c \in (a1.pend \cup Wanted') \ m.s : openRows[c] # None => Undecided(openRows[c])'
    BY <1>2, <1>18, <2>1 DEF Undecided, RowsOf, Work
  <2> QED
    BY <1>2, <1>3, <1>5, <1>17, <2>1, <2>2 DEF Rows, StatementsSucceed
<1> QED
  BY <1>9, <1>10, <1>16, <1>19 DEF Footing

(* A row is given an end, or keeps the one it has. *)
LEMMA ClosedFewer ==
  ASSUME Types, NEW S, events' = ClosedIn(S), UNCHANGED <<jobs, results>>,
         worker'.job \in {worker.job, NoJob}
  PROVE  Fewer
<1>1. UNCHANGED results /\ Work' \subseteq Work \cup {NoJob}
  BY DEF Work
<1>2. /\ DOMAIN events' = DOMAIN events
      /\ \A r \in DOMAIN events :
           /\ events'[r].ch = events[r].ch /\ events'[r].gen = events[r].gen
           /\ events'[r].window = events[r].window /\ events'[r].parent = events[r].parent
           /\ events'[r].result = events[r].result
  BY ClosedInTypes
<1> QED
  BY <1>1, <1>2 DEF Fewer

LEMMA StartFooting ==
  ASSUME Types, Sound, NEW a \in Heard, Footing(a), UNCHANGED may, ReplayStart
  PROVE  Sound' /\ Footing(a)'
<1>1. PICK ch : ch = MinOf(line.s)
  OBVIOUS
<1>2. PICK n : n = Len(events) + 1
  OBVIOUS
<1>3. line \in Unreplayed /\ line.s # {}
  BY DEF Types, LoopTypes, ReplayStart
<1>4. ch \in line.s /\ ch \in Channels
  BY <1>1, <1>3, LineHas, MinOfChannels
<1>5. /\ events' = Started(ch) /\ openRows' = [openRows EXCEPT ![ch] = n]
      /\ line' = Rest([line EXCEPT !.s = @ \ {ch}])
      /\ UNCHANGED <<may, pc, grid, logWindow, jobs, worker, results>>
  BY <1>1, <1>2 DEF ReplayStart, Started, ReplayUnchanged
<1>6. /\ DOMAIN events' = DOMAIN events \cup {n} /\ n \notin DOMAIN events /\ n # None
      /\ \A r \in DOMAIN events : events'[r] = events[r]
      /\ events'[n].ch = ch /\ events'[n].window = logWindow /\ events'[n].gen = line.heard
      /\ events'[n].parent = None /\ events'[n].result = None
  <2>1. /\ DOMAIN Started(ch) = DOMAIN events \cup {n} /\ n \notin DOMAIN events
        /\ \A r \in DOMAIN events : Started(ch)[r] = events[r]
        /\ Started(ch)[n] = [ch |-> ch, window |-> logWindow, gen |-> line.heard,
                             center |-> grid.center, closed |-> None, parent |-> None,
                             result |-> None]
        /\ Len(events) \in Nat
    BY <1>2, <1>4, StartedTypes
  <2>2. n # None
    BY <1>2, <2>1 DEF None
  <2>3. /\ events'[n].ch = ch /\ events'[n].window = logWindow /\ events'[n].gen = line.heard
        /\ events'[n].parent = None /\ events'[n].result = None
    BY <1>5, <2>1
  <2> QED
    BY <1>5, <2>1, <2>2, <2>3
<1>7. /\ line'.s = line.s \ {ch} /\ line'.e = line.e /\ line'.due = line.due /\ line'.fin = line.fin
      /\ line' # NoLine => line'.heard = line.heard
  <2>1. PICK l : l = [line EXCEPT !.s = @ \ {ch}]
    OBVIOUS
  <2>2. l \in Unreplayed /\ l.s = line.s \ {ch} /\ l.e = line.e /\ l.due = line.due
        /\ l.fin = line.fin /\ l.heard = line.heard
    BY <1>3, <2>1, LineLess DEF Unreplayed
  <2> QED
    BY <1>5, <2>1, <2>2, RestFields
<1>8. line # NoLine /\ a.at = "open" /\ line.heard = a.tunes /\ grid.gen = a.tunes
      /\ line.s \subseteq a.open /\ line.e \cap a.open = {} /\ pc \notin Closing
  BY <1>3, LineHas DEF Footing, Placed
<1>9. openRows \in [Channels -> {None} \cup DOMAIN events]
  BY DEF Types, RowTypes
<1>10. openRows'[ch] = n /\ \A c \in Channels \ {ch} : openRows'[c] = openRows[c]
  BY <1>4, <1>5, <1>9
<1>11. RowsOf' = RowsOf /\ Work' = Work
  BY <1>5 DEF RowsOf, Work
<1>12. n \notin RowsOf
  <2>1. \A j \in Work : j.row # n
    BY <1>6 DEF Sound, NoJob
  <2>2. \A i \in DOMAIN results : results[i].row # n
    BY <1>6 DEF Sound
  <2> QED
    BY <2>1, <2>2 DEF RowsOf
<1>13. Sound'
  <2>1. \A j \in Work' \ {NoJob} : j.row \in DOMAIN events' /\ j.gen = events'[j.row].gen
    BY <1>6, <1>11 DEF Sound
  <2>2. \A i \in DOMAIN results' : results'[i].row \in DOMAIN events'
                                   /\ results'[i].gen = events'[results'[i].row].gen
    BY <1>5, <1>6 DEF Sound
  <2>3. ASSUME NEW r \in DOMAIN events'
        PROVE  /\ events'[r].result \in {None, events'[r].gen}
               /\ events'[r].parent # None => Harmonic(r)'
    <3>1. CASE r = n
      BY <1>6, <3>1
    <3>2. CASE r # n
      <4>1. r \in DOMAIN events /\ events'[r] = events[r]
        BY <1>6, <3>2
      <4>2. events[r].parent # None => Harmonic(r)
        BY <4>1 DEF Sound
      <4> QED
        BY <1>6, <1>11, <4>1, <4>2 DEF Sound, Harmonic
    <3> QED
      BY <3>1, <3>2
  <2> QED
    BY <2>1, <2>2, <2>3 DEF Sound
<1>14. Placed(a)'
  BY <1>5, <1>7, <1>8 DEF Placed, Footing
<1>15. Wanted' = Wanted
  BY <1>7 DEF Wanted
<1>16. Deciding(a)'
  BY <1>7, <1>15 DEF Footing, Deciding
<1>17. Now(a)' = Now(a) \cup {ch}
  BY <1>4, <1>7, <1>8 DEF Now
<1>18. Now(a) \subseteq Channels /\ (a.pend \cup Wanted) \ line.s \subseteq Now(a)
  BY AwaitingRows DEF Footing
<1>19. ASSUME NEW c \in Now(a)', openRows'[c] # None
       PROVE  /\ events'[openRows'[c]].ch = c
              /\ events'[openRows'[c]].gen = grid.gen
              /\ events'[openRows'[c]].window = logWindow
  <2>1. CASE c = ch
    BY <1>6, <1>8, <1>10, <2>1
  <2>2. CASE c # ch
    <3>1. c \in Now(a) /\ c \in Channels /\ openRows'[c] = openRows[c]
      BY <1>10, <1>17, <1>18, <2>2
    <3>2. openRows[c] \in DOMAIN events
      BY <1>9, <1>19, <3>1
    <3> QED
      BY <1>6, <1>19, <3>1, <3>2 DEF Footing, Rows
  <2> QED
    BY <2>1, <2>2
<1>20. (pc \in Looping \/ StatementsSucceed) /\ a.at # "left" =>
         \A c \in Channels \ Now(a)' : openRows'[c] = None
  BY <1>4, <1>10, <1>17 DEF Footing, Rows
<1>21. ASSUME NEW c \in (a.pend \cup Wanted) \ line'.s, openRows'[c] # None
       PROVE  Undecided(openRows[c])'
  <2>1. CASE c = ch
    <3>1. Undecided(n)'
      BY <1>6, <1>11, <1>12 DEF Undecided
    <3>2. openRows'[c] = n
      BY <1>10, <2>1
    <3> QED
      BY <3>1, <3>2
  <2>2. CASE c # ch
    <3>1. c \in (a.pend \cup Wanted) \ line.s /\ c \in Channels
      BY <1>7, <1>18, <2>2
    <3>2. PICK r \in DOMAIN events : r = openRows[c] /\ openRows'[c] = r
      BY <1>9, <1>10, <1>21, <2>2, <3>1
    <3>3. Undecided(r)
      BY <1>10, <1>21, <2>2, <3>1, <3>2 DEF Footing, Rows
    <3>4. Undecided(r)'
      BY <1>6, <1>11, <3>2, <3>3 DEF Undecided
    <3> QED
      BY <3>2, <3>4
  <2> QED
    BY <2>1, <2>2
<1>22. \A c \in ((a.pend \cup Wanted) \ line.s)' : openRows'[c] # None => Undecided(openRows[c])'
  BY <1>15, <1>21
<1>23. Rows(a)'
  BY <1>5, <1>15, <1>19, <1>20, <1>22 DEF Rows, StatementsSucceed
<1> QED
  BY <1>13, <1>14, <1>16, <1>23 DEF Footing

(* The row of a decision that is replayed is undecided, and no other       *)
(* channel's; so is, but for that, the row of its parent.                  *)
LEMMA DecidingRow ==
  ASSUME Types, NEW a \in Heard, Footing(a), line.s = {},
         NEW d \in line.due \cup line.fin, openRows[d.ch] # None
  PROVE  /\ d.ch \in Channels /\ openRows[d.ch] \in DOMAIN events /\ Undecided(openRows[d.ch])
         /\ events[openRows[d.ch]].gen = grid.gen /\ events[openRows[d.ch]].window = logWindow
         /\ \A c \in Now(a) \ {d.ch} : openRows[c] # openRows[d.ch]
         /\ d.k = "h" => d.parent \in Now(a) \ {d.ch}
<1>1. /\ Now(a) \subseteq Channels /\ (a.pend \cup Wanted) \subseteq Now(a)
      /\ Now(a) = a.open \cup line.e
  BY AwaitingRows DEF Footing, Now
<1>2. d.ch \in Wanted
  BY DEF Wanted, Decided
<1>3. d.ch \in Channels /\ openRows[d.ch] \in DOMAIN events
  BY <1>1, <1>2, OpenRow
<1>4. Undecided(openRows[d.ch])
  BY <1>2 DEF Footing, Rows
<1>5. \A c \in Now(a) : openRows[c] # None => events[openRows[c]].ch = c
  BY DEF Footing, Rows
<1>6. /\ events[openRows[d.ch]].gen = grid.gen /\ events[openRows[d.ch]].window = logWindow
  BY <1>1, <1>2 DEF Footing, Rows
<1>7. \A c \in Now(a) \ {d.ch} : openRows[c] # openRows[d.ch]
  BY <1>1, <1>2, <1>5
<1>8. d.k = "h" => d.parent \in Now(a) \ {d.ch}
  BY <1>1 DEF Footing, Deciding
<1> QED
  BY <1>3, <1>4, <1>6, <1>7, <1>8

(* The decision is carried out, whatever the row of which it is one. *)
LEMMA DecideSound ==
  ASSUME Types, Sound, NEW a \in Heard, Footing(a), line.s = {},
         NEW d \in line.due \cup line.fin, Decide(d), UNCHANGED <<worker, results, openRows>>
  PROVE  /\ Sound'
         /\ DOMAIN events' = DOMAIN events
         /\ \A r \in DOMAIN events : /\ events'[r].ch = events[r].ch
                                     /\ events'[r].gen = events[r].gen
                                     /\ events'[r].window = events[r].window
                                     /\ r # openRows[d.ch] /\ Undecided(r) => Undecided(r)'
<1>1. d \in Decisions
  BY LineHas DEF Types, LoopTypes
<1>2. CASE UNCHANGED <<jobs, events>>
  <2>1. Fewer
    BY <1>2, SameRows
  <2> QED
    BY <1>2, <2>1, FewerSound
<1>3. CASE /\ d.k = "a" /\ openRows[d.ch] # None
           /\ jobs' = Append(jobs, JobOf(d)) /\ UNCHANGED events
  <2>1. PICK r0 : r0 = openRows[d.ch]
    OBVIOUS
  <2>2. r0 \in DOMAIN events /\ Undecided(r0) /\ events[r0].gen = grid.gen
    BY <1>3, <2>1, DecidingRow
  <2>3. PICK j0 : j0 = JobOf(d)
    OBVIOUS
  <2>4. j0 \in Jobs /\ j0.row = r0 /\ j0.gen = grid.gen
    BY <1>1, <1>3, <2>1, <2>3, JobOfTypes
  <2>5. Work' = Work \cup {j0}
    <3>1. jobs \in Seq(Jobs) /\ Len(jobs) \in Nat /\ DOMAIN jobs = 1 .. Len(jobs)
      BY LenProperties DEF Types, RowTypes
    <3>2. PICK w : w = Append(jobs, j0)
      OBVIOUS
    <3>3. w \in Seq(Jobs) /\ Len(w) = Len(jobs) + 1 /\ w[Len(jobs) + 1] = j0
          /\ \A i \in 1 .. Len(jobs) : w[i] = jobs[i]
      BY <2>4, <3>1, <3>2, AppendProperties
    <3>4. DOMAIN w = 1 .. (Len(jobs) + 1)
      BY <3>3, LenProperties
    <3>5. {w[i] : i \in DOMAIN w} = {jobs[i] : i \in DOMAIN jobs} \cup {j0}
      BY <3>1, <3>3, <3>4
    <3>6. jobs' = w /\ worker' = worker
      BY <1>3, <2>3, <3>2
    <3> QED
      BY <3>5, <3>6 DEF Work
  <2>6. RowsOf' = RowsOf \cup {r0}
    BY <2>4, <2>5 DEF RowsOf
  <2>7. \A r \in DOMAIN events : r # r0 /\ Undecided(r) => Undecided(r)'
    BY <1>3, <2>6 DEF Undecided
  <2>8. \A j \in Work' \ {NoJob} : j.row \in DOMAIN events /\ j.gen = events[j.row].gen
    BY <2>2, <2>4, <2>5 DEF Sound
  <2>9. \A r \in DOMAIN events : events[r].parent # None => Harmonic(r)'
    <3> SUFFICES ASSUME NEW r \in DOMAIN events, events[r].parent # None PROVE Harmonic(r)'
      OBVIOUS
    <3>1. Harmonic(r) /\ r # r0
      BY <2>2 DEF Sound, Undecided
    <3> QED
      BY <1>3, <2>6, <3>1 DEF Harmonic
  <2>10. Sound'
    BY <1>3, <2>8, <2>9 DEF Sound
  <2> QED
    BY <1>3, <2>1, <2>7, <2>10
<1>4. CASE /\ d.k = "h" /\ openRows[d.ch] # None /\ openRows[d.parent] # None
           /\ openRows[d.ch] \in DOMAIN events /\ openRows[d.parent] \in DOMAIN events
           /\ events' = Marked(openRows[d.ch], openRows[d.parent])
           /\ UNCHANGED jobs
  <2>1. PICK r0 : r0 = openRows[d.ch]
    OBVIOUS
  <2>2. PICK p0 : p0 = openRows[d.parent]
    OBVIOUS
  <2>3. /\ r0 \in DOMAIN events /\ Undecided(r0) /\ events[r0].window = logWindow
        /\ d.parent \in Now(a) \ {d.ch} /\ p0 # r0 /\ p0 \in DOMAIN events /\ p0 # None
    BY <1>4, <2>1, <2>2, DecidingRow
  <2>4. events[p0].window = logWindow
    BY <2>2, <2>3 DEF Footing, Rows
  <2>5. /\ DOMAIN events' = DOMAIN events
        /\ \A r \in DOMAIN events :
             /\ events'[r].ch = events[r].ch /\ events'[r].gen = events[r].gen
             /\ events'[r].window = events[r].window /\ events'[r].result = events[r].result
             /\ events'[r].parent = IF r = r0 THEN p0 ELSE events[r].parent
    BY <1>4, <2>1, <2>2, <2>3, MarkedTypes
  <2>6. RowsOf' = RowsOf /\ Work' = Work
    BY <1>4 DEF RowsOf, Work
  <2>7. \A r \in DOMAIN events : r # r0 /\ Undecided(r) => Undecided(r)'
    BY <2>5, <2>6 DEF Undecided
  <2>8. ASSUME NEW r \in DOMAIN events, events'[r].parent # None PROVE Harmonic(r)'
    <3>1. CASE r = r0
      <4>1. events'[r].parent = p0 /\ events'[p0].window = events'[r].window
        BY <2>3, <2>4, <2>5, <3>1
      <4>2. events'[r].result = None /\ r \notin RowsOf'
        BY <2>3, <2>5, <2>6, <3>1 DEF Undecided
      <4> QED
        BY <2>3, <2>5, <3>1, <4>1, <4>2 DEF Harmonic
    <3>2. CASE r # r0
      <4>1. events'[r].parent = events[r].parent /\ Harmonic(r)
        BY <2>5, <2>8, <3>2 DEF Sound
      <4> QED
        BY <2>5, <2>6, <4>1 DEF Harmonic
    <3> QED
      BY <3>1, <3>2
  <2>9. Sound'
    <3>1. \A j \in Work' \ {NoJob} : j.row \in DOMAIN events' /\ j.gen = events'[j.row].gen
      BY <2>5, <2>6 DEF Sound
    <3>2. \A i \in DOMAIN results' : results'[i].row \in DOMAIN events'
                                     /\ results'[i].gen = events'[results'[i].row].gen
      BY <2>5 DEF Sound
    <3>3. \A r \in DOMAIN events' : events'[r].result \in {None, events'[r].gen}
      BY <2>5 DEF Sound
    <3> QED
      BY <2>5, <2>8, <3>1, <3>2, <3>3 DEF Sound
  <2> QED
    BY <2>1, <2>5, <2>7, <2>9
<1> QED
  BY <1>1, <1>2, <1>3, <1>4, DecideCases

LEMMA DecideFooting ==
  ASSUME Types, Sound, NEW a \in Heard, Footing(a), UNCHANGED may, ReplayDue \/ ReplayLast
  PROVE  Sound' /\ Footing(a)'
<1>1. /\ line.s = {} /\ line \in Unreplayed
      /\ UNCHANGED <<may, pc, grid, logWindow, openRows, worker, results>>
  BY DEF ReplayDue, ReplayLast, ReplayUnchanged, Types, LoopTypes
<1>2. PICK d \in line.due \cup line.fin :
        /\ Decide(d)
        /\ line'.s = {} /\ line'.e = line.e
        /\ line' # NoLine => line'.heard = line.heard
        /\ \/ d \in line.due /\ line'.due = line.due \ {d} /\ line'.fin = line.fin
           \/ d \in line.fin /\ line'.fin = line.fin \ {d} /\ line'.due = line.due
  <2>1. CASE ReplayDue
    <3>1. PICK d \in line.due : Decide(d) /\ line' = Rest([line EXCEPT !.due = @ \ {d}])
      BY <2>1 DEF ReplayDue
    <3>2. PICK l : l = [line EXCEPT !.due = @ \ {d}]
      OBVIOUS
    <3>3. l \in Unreplayed /\ l.s = line.s /\ l.e = line.e /\ l.due = line.due \ {d}
          /\ l.fin = line.fin /\ l.heard = line.heard
      BY <1>1, <3>2, LineLess DEF Unreplayed
    <3> QED
      BY <1>1, <3>1, <3>2, <3>3, RestFields
  <2>2. CASE ReplayLast
    <3>1. PICK d \in line.fin : Decide(d) /\ line' = Rest([line EXCEPT !.fin = @ \ {d}])
      BY <2>2 DEF ReplayLast
    <3>2. PICK l : l = [line EXCEPT !.fin = @ \ {d}]
      OBVIOUS
    <3>3. l \in Unreplayed /\ l.s = line.s /\ l.e = line.e /\ l.due = line.due
          /\ l.fin = line.fin \ {d} /\ l.heard = line.heard
      BY <1>1, <3>2, LineLess DEF Unreplayed
    <3> QED
      BY <1>1, <3>1, <3>2, <3>3, RestFields
  <2> QED
    BY <2>1, <2>2
<1>3. /\ Sound'
      /\ DOMAIN events' = DOMAIN events
      /\ \A r \in DOMAIN events : /\ events'[r].ch = events[r].ch
                                  /\ events'[r].gen = events[r].gen
                                  /\ events'[r].window = events[r].window
                                  /\ r # openRows[d.ch] /\ Undecided(r) => Undecided(r)'
  BY <1>1, <1>2, DecideSound
<1>4. line # NoLine /\ pc \notin Closing
  BY <1>2, LineHas DEF Types, LoopTypes, Footing, Placed
<1>5. Placed(a)'
  BY <1>1, <1>2, <1>4 DEF Placed, Footing
<1>6. /\ line'.due \subseteq line.due /\ line'.fin \subseteq line.fin
      /\ d \notin line'.due \cup line'.fin
  <2>1. ~(d \in line.due /\ d \in line.fin)
    BY DEF Footing, Deciding
  <2> QED
    BY <1>2, <2>1
<1>7. d.ch \notin Wanted' /\ Wanted' \subseteq Wanted /\ d.ch \in Wanted
  BY <1>6 DEF Wanted, Decided, Footing, Deciding
<1>8. Deciding(a)'
  BY <1>2, <1>6, <1>7 DEF Footing, Deciding
<1>9. Now(a)' = Now(a)
  BY <1>1, <1>2 DEF Now
<1>10. Now(a) \subseteq Channels /\ (a.pend \cup Wanted) \subseteq Now(a)
  BY <1>1, AwaitingRows DEF Footing
<1>11. ASSUME NEW c \in a.pend \cup Wanted', openRows[c] # None
       PROVE  Undecided(openRows[c])'
  <2>1. c \in Now(a) /\ c # d.ch /\ c \in (a.pend \cup Wanted) \ line.s
    BY <1>1, <1>7, <1>10 DEF Footing, Deciding
  <2>2. PICK r \in DOMAIN events : r = openRows[c]
    BY <1>10, <1>11, <2>1, OpenRow
  <2>3. Undecided(r)
    BY <1>11, <2>1, <2>2 DEF Footing, Rows
  <2>4. r # openRows[d.ch]
    <3>1. CASE openRows[d.ch] = None
      BY <1>11, <2>2, <3>1
    <3>2. CASE openRows[d.ch] # None
      BY <1>1, <2>1, <2>2, <3>2, DecidingRow
    <3> QED
      BY <3>1, <3>2
  <2>5. Undecided(r)'
    BY <1>3, <2>3, <2>4
  <2>6. openRows'[c] = r
    BY <1>1, <2>2
  <2> QED
    BY <2>2, <2>5, <2>6
<1>12. \A c \in Now(a) : openRows[c] # None =>
         /\ events'[openRows[c]].ch = c
         /\ events'[openRows[c]].gen = grid.gen
         /\ events'[openRows[c]].window = logWindow
  BY <1>3, <1>10, OpenRow DEF Footing, Rows
<1>13. Rows(a)'
  BY <1>1, <1>2, <1>9, <1>11, <1>12 DEF Rows, Footing, StatementsSucceed
<1> QED
  BY <1>3, <1>5, <1>8, <1>13 DEF Footing

LEMMA EndFooting ==
  ASSUME Types, Sound, NEW a \in Heard, Footing(a), UNCHANGED may, ReplayEnd
  PROVE  Sound' /\ Footing(a)'
<1>1. PICK ch : ch = Ending
  OBVIOUS
<1>2. /\ line.s = {} /\ line.due = {} /\ line.e # {} /\ \A d \in line.fin : d.ch # ch
      /\ openRows' = [openRows EXCEPT ![ch] = None]
      /\ line' = Rest([line EXCEPT !.e = @ \ {ch}])
      /\ UNCHANGED <<may, pc, grid, logWindow, jobs, worker, results>>
      /\ line \in Unreplayed
  BY <1>1 DEF ReplayEnd, ReplayUnchanged, Types, LoopTypes
<1>3. ch \in line.e /\ ch \in Channels /\ \A c \in line.e : ch <= c
  BY <1>1, EndIsClosed
<1>4. Fewer
  BY <1>2, EndIsClosed, ClosedFewer
<1>5. Sound' /\ \A r \in DOMAIN events : Undecided(r) => Undecided(r)'
  BY <1>4, FewerSound
<1>6. /\ line'.s = {} /\ line'.e = line.e \ {ch} /\ line'.due = {} /\ line'.fin = line.fin
      /\ line' # NoLine => line'.heard = line.heard
  <2>1. PICK l : l = [line EXCEPT !.e = @ \ {ch}]
    OBVIOUS
  <2>2. l \in Unreplayed /\ l.s = line.s /\ l.e = line.e \ {ch} /\ l.due = line.due
        /\ l.fin = line.fin /\ l.heard = line.heard
    BY <1>2, <2>1, LineLess DEF Unreplayed
  <2> QED
    BY <1>2, <2>1, <2>2, RestFields
<1>7. line # NoLine /\ pc \notin Closing /\ ch \notin a.open
  BY <1>2, <1>3, LineHas DEF Footing, Placed
<1>8. Placed(a)'
  BY <1>2, <1>6, <1>7 DEF Placed, Footing
<1>9. Wanted' = Wanted /\ ch \notin Wanted
  BY <1>2, <1>6 DEF Wanted, Decided
<1>10. \A d \in line.fin : d.k = "h" => d.parent # ch
  <2> SUFFICES ASSUME NEW d \in line.fin, d.k = "h", d.parent = ch PROVE FALSE
    OBVIOUS
  <2>1. d.ch \in line.e /\ Earlier(d.ch, ch)
    BY <1>3 DEF Footing, Deciding
  <2>2. ch <= d.ch /\ d.ch < ch
    BY <1>3, <2>1 DEF Earlier
  <2>3. ch \in Nat /\ d.ch \in Nat
    BY <1>2, <1>3, <2>1, LineHas DEF Channels
  <2> QED
    BY <2>2, <2>3
<1>11. Deciding(a)'
  <2>1. a.pend \subseteq a.open /\ Wanted' \subseteq a.open \cup line'.e /\ a.pend \cap Wanted' = {}
    BY <1>6, <1>9 DEF Footing, Deciding
  <2>2. /\ \A d, f \in line'.due \cup line'.fin : d.ch = f.ch => d = f
        /\ \A d \in line'.due, f \in line'.fin : d.ch # f.ch
        /\ \A d \in line'.fin : d.ch \in line'.e
    BY <1>2, <1>6 DEF Footing, Deciding
  <2>3. \A d \in line'.due \cup line'.fin : d.k = "h" => d.parent \in a.open \cup line'.e /\ d.parent # d.ch
    BY <1>6, <1>10 DEF Footing, Deciding
  <2>4. \A d \in line'.fin : d.k = "h" /\ d.parent \in line'.e => Earlier(d.ch, d.parent)
    BY <1>6 DEF Footing, Deciding
  <2> QED
    BY <2>1, <2>2, <2>3, <2>4 DEF Deciding
<1>12. Now(a)' = Now(a) \ {ch} /\ Now(a) \subseteq Channels
       /\ (a.pend \cup Wanted) \subseteq Now(a) \ {ch}
  <2>1. Now(a) \subseteq Channels /\ (a.pend \cup Wanted) \subseteq Now(a)
    BY <1>2, AwaitingRows DEF Footing
  <2> QED
    BY <1>2, <1>6, <1>7, <1>9, <2>1 DEF Now, Footing, Deciding
<1>13. openRows'[ch] = None /\ \A c \in Channels \ {ch} : openRows'[c] = openRows[c]
  BY <1>2, <1>3 DEF Types, RowTypes
<1>14. \A c \in Now(a) \ {ch} : openRows'[c] # None =>
         /\ events'[openRows'[c]].ch = c
         /\ events'[openRows'[c]].gen = grid.gen
         /\ events'[openRows'[c]].window = logWindow
  <2> SUFFICES ASSUME NEW c \in Now(a) \ {ch}, openRows'[c] # None
               PROVE  /\ events'[openRows'[c]].ch = c
                      /\ events'[openRows'[c]].gen = grid.gen
                      /\ events'[openRows'[c]].window = logWindow
    OBVIOUS
  <2>1. openRows'[c] = openRows[c] /\ openRows[c] \in DOMAIN events
    BY <1>12, <1>13, OpenRow
  <2> QED
    BY <1>4, <2>1 DEF Footing, Rows, Fewer
<1>15. ASSUME NEW c \in a.pend \cup Wanted, openRows'[c] # None
       PROVE  Undecided(openRows[c])'
  <2>1. c \in Channels /\ c # ch /\ c \in (a.pend \cup Wanted) \ line.s
    BY <1>2, <1>12
  <2>2. openRows[c] # None
    BY <1>13, <1>15, <2>1
  <2>3. PICK r \in DOMAIN events : r = openRows[c] /\ r = openRows'[c]
    BY <1>13, <1>15, <2>1, <2>2, OpenRow
  <2>4. Undecided(r)
    BY <2>1, <2>2, <2>3 DEF Footing, Rows
  <2>5. Undecided(r)'
    BY <1>5, <2>4
  <2> QED
    BY <2>3, <2>5
<1>16. Rows(a)'
  BY <1>2, <1>6, <1>9, <1>12, <1>13, <1>14, <1>15 DEF Rows, Footing, StatementsSucceed
<1> QED
  BY <1>5, <1>8, <1>11, <1>16 DEF Footing

LEMMA CollectFewer ==
  ASSUME Types, Collect, UNCHANGED <<jobs, worker>>
  PROVE  Fewer
<1>1. results' = <<>> /\ Work' = Work /\ DOMAIN results' = {}
  BY CollectTypes DEF Work
<1> QED
  BY <1>1, CollectTypes DEF Fewer

(* A statement fails in the middle of a frame: what is left of it is lost. *)
LEMMA LostFooting ==
  ASSUME Types, Sound, NEW a \in Heard, Footing(a), UNCHANGED may, FrameFails, pc' # "died"
  PROVE  Sound' /\ Footing(a)'
<1>1. /\ line # NoLine /\ line' = NoLine /\ ~StatementsSucceed
      /\ pc \in Looping /\ pc' = "finish"
      /\ UNCHANGED <<may, grid, logWindow, jobs, worker, results, events>>
      /\ openRows' = openRows \/ (line.e # {} /\ openRows' = [openRows EXCEPT ![Ending] = None])
      /\ line \in Unreplayed
  BY DEF FrameFails, Fails, StatementsSucceed, Looping, Types, LoopTypes
<1>2. line'.s = {} /\ line'.e = {} /\ line'.due = {} /\ line'.fin = {}
  BY <1>1 DEF NoLine
<1>3. a.open \subseteq Channels /\ a.at = "open"
  BY <1>1 DEF Heard, Places, Footing, Placed
<1>4. \A c \in Channels : openRows'[c] # None => openRows'[c] = openRows[c]
  BY <1>1 DEF Types, RowTypes
<1>5. Sound'
  BY <1>1, SameRows, FewerSound
<1>6. Placed(a)'
  BY <1>1, <1>2 DEF Placed, Footing, Closing
<1>7. Wanted' = {}
  BY <1>2 DEF Wanted, Decided
<1>8. Deciding(a)'
  BY <1>2, <1>7 DEF Deciding, Footing
<1>9. Now(a)' = a.open
  BY <1>2 DEF Now
<1>10. \A c \in a.open : openRows[c] # None => c \in Now(a) /\ c \notin line.s
  BY <1>1, <1>3 DEF Footing, Rows, Now
<1>11. \A c \in a.open : openRows'[c] # None =>
         /\ events[openRows'[c]].ch = c
         /\ events[openRows'[c]].gen = grid.gen
         /\ events[openRows'[c]].window = logWindow
  BY <1>3, <1>4, <1>10 DEF Footing, Rows
<1>12. ASSUME NEW c \in a.pend, openRows'[c] # None PROVE Undecided(openRows[c])'
  <2>1. c \in a.open /\ openRows'[c] = openRows[c]
    BY <1>3, <1>4, <1>12 DEF Footing, Deciding
  <2>2. PICK r : r = openRows[c] /\ r = openRows'[c]
    BY <2>1
  <2>3. Undecided(r)
    BY <1>10, <1>12, <2>1, <2>2 DEF Footing, Rows
  <2>4. Undecided(r)'
    BY <1>1, <2>3 DEF Undecided, RowsOf, Work
  <2> QED
    BY <2>2, <2>4
<1>13. Rows(a)'
  BY <1>1, <1>2, <1>7, <1>9, <1>11, <1>12 DEF Rows, StatementsSucceed, Looping
<1> QED
  BY <1>5, <1>6, <1>8, <1>13 DEF Footing

(* The line that is taken off the inbox. *)
LEMMA TakenIs ==
  ASSUME Types, NEW a, NEW a1, Hears(a, a1), NEW kind, Takes(kind)
  PROVE  \E m \in Lines : /\ m = Head(out) /\ m.t = kind /\ LineFits(may, a, m)
                          /\ a1 = LineNext(a, m) /\ a1 \in Heard /\ line = NoLine
<1>1. out # <<>> /\ out' = Tail(out) /\ Head(out).t = kind /\ out \in Seq(Lines)
  BY DEF Takes, Types, EngineTypes
<1>2. Len(out') < Len(out) /\ Len(out) \in Nat
  BY <1>1, QueueTail, LenProperties
<1>3. out' # out
  BY <1>2
<1> QED
  BY <1>1, <1>3 DEF Hears

LEMMA SaysNothing ==
  ASSUME Types, NEW a, NEW a1, Hears(a, a1), out' = out
  PROVE  a1 = a
<1>1. out # <<>> => Len(Tail(out)) < Len(out) /\ Len(out) \in Nat
  BY QueueTail, LenProperties DEF Types, EngineTypes
<1>2. ~(out # <<>> /\ out' = Tail(out))
  BY <1>1
<1> QED
  BY <1>2 DEF Hears

(* Handling a line that is not a frame's. *)
LEMMA HandleFooting ==
  ASSUME Types, Sound, NEW a \in Heard, Footing(a), NEW a1, Hears(a, a1), UNCHANGED may,
         \/ OnTuned \/ OnLinearity \/ OnWindow \/ OnClose
         \/ \E k \in {"stall", "eof", "__eof__"} : EngineEnds(k)
  PROVE  Sound' /\ Footing(a1)'
<1>1. CASE OnTuned
  <2>1. PICK m \in Lines : /\ m.t = "tuned" /\ LineFits(may, a, m) /\ a1 = LineNext(a, m)
                           /\ a1 \in Heard /\ line = NoLine
    BY <1>1, TakenIs DEF OnTuned
  <2>2. UNCHANGED <<grid, openRows, line, events, jobs, worker, results>>
        /\ (pc' = pc \/ (pc' = "window" /\ pc = "tuned")) /\ pc \in Handling
    BY <1>1 DEF OnTuned, analysisVars
  <2>3. (pc' \in Looping => pc \in Looping) /\ pc' \notin Closing
    BY <2>2 DEF Looping, Closing, Handling
  <2>4. Fewer
    BY <2>2, SameRows
  <2> QED
    BY <2>1, <2>2, <2>3, <2>4, HearingFooting
<1>2. CASE OnLinearity
  <2>1. PICK m \in Lines : /\ m.t = "linearity" /\ LineFits(may, a, m) /\ a1 = LineNext(a, m)
                           /\ a1 \in Heard /\ line = NoLine
    BY <1>2, TakenIs DEF OnLinearity
  <2>2. UNCHANGED <<pc, grid, openRows, line, events, jobs, worker, results>> /\ pc \in Handling
    BY <1>2 DEF OnLinearity, analysisVars, loopVars
  <2>3. (pc' \in Looping => pc \in Looping) /\ pc' \notin Closing
    BY <2>2 DEF Looping, Closing, Handling
  <2>4. Fewer
    BY <2>2, SameRows
  <2> QED
    BY <2>1, <2>2, <2>3, <2>4, HearingFooting
<1>3. CASE OnWindow
  <2>1. PICK m \in Lines : /\ m = Head(out) /\ m.t = "window" /\ LineFits(may, a, m)
                           /\ a1 = LineNext(a, m) /\ a1 \in Heard /\ line = NoLine
    BY <1>3, TakenIs DEF OnWindow
  <2>2. UNCHANGED <<openRows, line, events, jobs, worker, results>>
        /\ grid' = GridOf(m)
        /\ (pc' = pc \/ (pc' = "pump" /\ pc = "window")) /\ pc \in Handling
    BY <1>3, <2>1 DEF OnWindow, analysisVars, dbVars
  <2>3. (pc' \in Looping => pc \in Looping) /\ pc' \notin Closing
    BY <2>2 DEF Looping, Closing, Handling
  <2>4. Fewer
    BY <2>2, SameRows
  <2> QED
    BY <2>1, <2>2, <2>3, <2>4, HearingFooting
<1>4. CASE OnClose
  <2>1. PICK m \in Lines : /\ m.t = "close" /\ LineFits(may, a, m) /\ a1 = LineNext(a, m)
                           /\ a1 \in Heard /\ line = NoLine
    BY <1>4, TakenIs DEF OnClose
  <2>2. UNCHANGED <<pc, grid, line, jobs, worker, results>> /\ openRows' = NoRows
        /\ pc \in Handling
    BY <1>4 DEF OnClose, analysisVars
  <2>3. (pc' \in Looping => pc \in Looping) /\ pc' \notin Closing
    BY <2>2 DEF Looping, Closing, Handling
  <2>4. events' = ClosedIn({openRows[c] : c \in Channels})
    BY <1>4 DEF OnClose, ClosedIn
  <2>5. Fewer
    BY <2>2, <2>4, ClosedFewer
  <2> QED
    BY <2>1, <2>2, <2>3, <2>5, HearingFooting
<1>5. ASSUME NEW k \in {"stall", "eof", "__eof__"}, EngineEnds(k)
      PROVE  Sound' /\ Footing(a1)'
  <2>1. PICK m \in Lines : /\ m.t = k /\ LineFits(may, a, m) /\ a1 = LineNext(a, m)
                           /\ a1 \in Heard /\ line = NoLine
    BY <1>5, TakenIs DEF EngineEnds
  <2>2. UNCHANGED <<grid, openRows, line, events, jobs, worker, results>> /\ pc' = "finish"
    BY <1>5 DEF EngineEnds, Goes, analysisVars, dbVars
  <2>3. (pc' \in Looping => pc \in Looping) /\ pc' \notin Closing
    BY <2>2 DEF Looping, Closing
  <2>4. Fewer
    BY <2>2, SameRows
  <2>5. m.t # "f" /\ m.t # "window" /\ m.t # "close"
    BY <1>5, <2>1
  <2> QED
    BY <2>1, <2>2, <2>3, <2>4, <2>5, HearingFooting
<1> QED
  BY <1>1, <1>2, <1>3, <1>4, <1>5

LEMMA FailsFooting ==
  ASSUME Types, Sound, NEW a \in Heard, Footing(a), NEW a1, Hears(a, a1), UNCHANGED may,
         StatementFails
  PROVE  Sound' /\ (pc' # "died" => Footing(a1)')
<1>1. /\ pc' \in {"finish", "died"} /\ ~StatementsSucceed
      /\ (pc' \in Looping => pc \in Looping) /\ pc' \notin Closing
      /\ UNCHANGED <<may, grid, logWindow, jobs>> /\ worker'.job \in {worker.job, NoJob}
  BY DEF StatementFails, FrameFails, CloseFails, WindowFails, CollectFails, Fails, Looping, Closing,
         StatementsSucceed
<1>2. CASE FrameFails
  <2>1. a1 = a
    BY <1>2, SaysNothing DEF FrameFails, engineVars
  <2>2. Fewer
    BY <1>1, <1>2, SameRows DEF FrameFails
  <2> QED
    BY <1>2, <2>1, <2>2, FewerSound, LostFooting
<1>3. CASE CloseFails
  <2>1. PICK m \in Lines : /\ m.t = "close" /\ LineFits(may, a, m) /\ a1 = LineNext(a, m)
                           /\ a1 \in Heard /\ line = NoLine
    BY <1>3, TakenIs DEF CloseFails
  <2>2. PICK done \in SUBSET {c \in Channels : openRows[c] # None} :
          events' = [r \in DOMAIN events |->
                       IF \E c \in done : openRows[c] = r
                         THEN [events[r] EXCEPT !.closed = grid.gen] ELSE events[r]]
    BY <1>3 DEF CloseFails
  <2>3. events' = ClosedIn({openRows[c] : c \in done})
    BY <2>2 DEF ClosedIn
  <2>4. Fewer
    BY <1>1, <1>3, <2>3, ClosedFewer DEF CloseFails
  <2>5. pc' \notin Looping /\ UNCHANGED line
    BY <1>1, <1>3 DEF Looping, CloseFails
  <2> QED
    BY <1>1, <2>1, <2>4, <2>5, HearingFooting
<1>4. CASE WindowFails
  <2>1. Fewer
    BY <1>1, <1>4, SameRows DEF WindowFails
  <2>2. CASE pc' = "died"
    BY <2>1, <2>2, FewerSound
  <2>3. CASE pc' # "died"
    <3>1. Takes("tuned") \/ Takes("linearity")
      BY <1>4, <2>3 DEF WindowFails, Fails
    <3>2. PICK m \in Lines : /\ m.t \in {"tuned", "linearity"} /\ LineFits(may, a, m)
                             /\ a1 = LineNext(a, m) /\ a1 \in Heard /\ line = NoLine
      BY <3>1, TakenIs
    <3>3. UNCHANGED <<line, openRows>>
      BY <1>4 DEF WindowFails
    <3> QED
      BY <1>1, <2>1, <3>2, <3>3, HearingFooting
  <2> QED
    BY <2>2, <2>3
<1>5. CASE CollectFails
  <2>1. a1 = a
    BY <1>5, SaysNothing DEF CollectFails, engineVars
  <2>2. results \in Seq(Answers) /\ results # <<>> /\ results' = Tail(results)
        /\ UNCHANGED <<events, line, openRows>>
    BY <1>5 DEF CollectFails, Types, RowTypes
  <2>3. /\ Len(results) \in Nat /\ DOMAIN results = 1 .. Len(results)
        /\ DOMAIN results' = 1 .. Len(results) - 1
        /\ \A i \in 1 .. Len(results) - 1 : results'[i] = results[i+1]
    BY <2>2, HeadTailProperties, LenProperties
  <2>4. \A i \in DOMAIN results' : i + 1 \in DOMAIN results /\ results'[i] = results[i+1]
    BY <2>3
  <2>5. Work' \subseteq Work \cup {NoJob}
    BY <1>1 DEF Work
  <2>6. Fewer
    BY <2>2, <2>4, <2>5 DEF Fewer
  <2> QED
    BY <1>1, <2>1, <2>2, <2>6, RestingFooting
<1> QED
  BY <1>2, <1>3, <1>4, <1>5 DEF StatementFails

LEMMA FinishFooting ==
  ASSUME Types, Sound, NEW a \in Heard, NEW b, NEW t, NEW u, Chain(a, b, t, u), Footing(a),
         NEW a1, Hears(a, a1), UNCHANGED may, Finish
  PROVE  Sound' /\ Footing(a1)'
<1>1. UNCHANGED <<may, line, grid, logWindow, openRows>>
      /\ (pc' \in Looping => pc \in Looping)
  BY DEF Finish, SendStop, DrainSkips, DrainEnds, Reap, PutNone, CollectLast, EndRun, Goes, loopVars,
         Looping
<1>2. CASE SendStop \/ Reap
  <2>1. out' = out
    BY <1>2 DEF SendStop, Reap
  <2>2. UNCHANGED <<events, jobs, results, worker>>
    BY <1>2 DEF SendStop, Reap, Goes, dbVars, analysisVars
  <2>3. pc' \in Closing => pc \in Closing
    BY <1>2 DEF SendStop, Reap, Goes, Closing
  <2>4. Fewer
    BY <2>2, SameRows
  <2> QED
    BY <1>1, <2>1, <2>3, <2>4, SaysNothing, RestingFooting
<1>7. CASE EndRun
  <2>1. out' = out /\ UNCHANGED <<events, jobs, results>> /\ pc \in Closing
        /\ worker'.job \in {worker.job, NoJob}
    BY <1>7 DEF EndRun, engineVars, Closing
  <2>2. Fewer
    BY <2>1 DEF Fewer, Work
  <2> QED
    BY <1>1, <2>1, <2>2, SaysNothing, RestingFooting
<1>3. CASE CollectLast
  <2>1. out' = out /\ Collect /\ UNCHANGED <<jobs, worker>> /\ pc \in Closing
    BY <1>3 DEF CollectLast, engineVars, Closing
  <2> QED
    BY <1>1, <2>1, SaysNothing, CollectFewer, RestingFooting
<1>4. CASE PutNone
  <2>1. out' = out /\ jobs' = Append(jobs, NoJob) /\ UNCHANGED <<worker, results, events>>
        /\ pc \in Closing /\ jobs \in Seq(Jobs) /\ NoJob \in Jobs
    BY <1>4 DEF PutNone, engineVars, Closing, dbVars, Types, RowTypes, Jobs
  <2>2. Work' \subseteq Work \cup {NoJob}
    <3>1. PICK w : w = Append(jobs, NoJob)
      OBVIOUS
    <3>2. DOMAIN w = 1 .. Len(jobs) + 1 /\ w[Len(jobs) + 1] = NoJob /\ Len(jobs) \in Nat
          /\ DOMAIN jobs = 1 .. Len(jobs) /\ \A i \in 1 .. Len(jobs) : w[i] = jobs[i]
      BY <2>1, <3>1, AppendProperties, LenProperties
    <3>3. {w[i] : i \in DOMAIN w} \subseteq {jobs[i] : i \in DOMAIN jobs} \cup {NoJob}
      BY <3>2
    <3> QED
      BY <2>1, <3>1, <3>3 DEF Work
  <2>3. Fewer
    BY <2>1, <2>2 DEF Fewer
  <2> QED
    BY <1>1, <2>1, <2>3, SaysNothing, RestingFooting
<1>5. CASE DrainSkips
  <2>1. Takes("stall") \/ Takes("eof")
    BY <1>5 DEF DrainSkips
  <2>2. PICK m \in Lines : /\ m.t \in {"stall", "eof"} /\ LineFits(may, a, m)
                           /\ a1 = LineNext(a, m) /\ a1 \in Heard /\ line = NoLine
    BY <2>1, TakenIs
  <2>3. UNCHANGED <<events, jobs, results, worker, pc>> /\ pc \notin Closing
    BY <1>5 DEF DrainSkips, dbVars, analysisVars, loopVars, Closing
  <2>4. Fewer
    BY <2>3, SameRows
  <2> QED
    BY <1>1, <2>2, <2>3, <2>4, HearingFooting
<1>6. CASE DrainEnds
  <2>1. UNCHANGED <<events, jobs, results, worker>> /\ pc' = "reap"
    BY <1>6 DEF DrainEnds, Goes, dbVars, analysisVars
  <2>2. Fewer
    BY <2>1, SameRows
  <2>3. CASE Takes("__eof__")
    <3>1. PICK m \in Lines : /\ m.t = "__eof__" /\ LineFits(may, a, m)
                             /\ a1 = LineNext(a, m) /\ a1 \in Heard /\ line = NoLine
      BY <2>3, TakenIs
    <3> QED
      BY <1>1, <2>2, <3>1, HearingFooting
  <2>4. CASE line = NoLine /\ out' = out
    BY <1>1, <2>2, <2>4, SaysNothing, RestingFooting
  <2> QED
    BY <1>6, <2>3, <2>4 DEF DrainEnds
<1> QED
  BY <1>2, <1>3, <1>4, <1>5, <1>6, <1>7 DEF Finish

LEMMA OrchestratorFooting ==
  ASSUME Types, Sound, NEW a \in Heard, NEW b, NEW t, NEW u, Chain(a, b, t, u), Footing(a),
         NEW a1, Hears(a, a1), Orchestrator
  PROVE  Sound' /\ (pc' # "died" => Footing(a1)')
<1>1. UNCHANGED may
  BY DEF Orchestrator
<1>2. CASE OpenWindow \/ PumpOn \/ DwellOver \/ StopSeen \/ WaitTimesOut
  <2>1. out' = out /\ UNCHANGED <<line, grid, logWindow, openRows, events, jobs, results, worker>>
    BY <1>2 DEF OpenWindow, PumpOn, DwellOver, StopSeen, WaitTimesOut, Goes, engineVars, dbVars,
                analysisVars
  <2>2. (pc' \in Looping => pc \in Looping) /\ pc' \notin Closing
    BY <1>2 DEF OpenWindow, PumpOn, DwellOver, StopSeen, WaitTimesOut, Goes, Looping, Closing
  <2>3. Fewer
    BY <2>1, SameRows
  <2> QED
    BY <1>1, <2>1, <2>2, <2>3, SaysNothing, RestingFooting
<1>3. CASE Pumped
  <2>1. out' = out /\ Collect /\ UNCHANGED <<jobs, worker, line, grid, logWindow, openRows>>
        /\ pc \in Looping /\ pc' \notin Closing
    BY <1>3 DEF Pumped, engineVars, Closing, Looping
  <2> QED
    BY <1>1, <2>1, SaysNothing, CollectFewer, RestingFooting
<1>4. CASE Handle
  <2>1. CASE OnFrame
    <3>1. Takes("f")
      BY <2>1 DEF OnFrame
    <3> QED
      BY <1>1, <2>1, <3>1, TakenIs, FrameFooting
  <2> QED
    BY <1>1, <1>4, <2>1, HandleFooting DEF Handle
<1>5. CASE Replay
  <2>1. out' = out
    BY <1>5 DEF Replay, ReplayStart, ReplayDue, ReplayLast, ReplayEnd, ReplayUnchanged, engineVars
  <2> QED
    BY <1>1, <1>5, <2>1, SaysNothing, StartFooting, DecideFooting, EndFooting DEF Replay
<1> QED
  BY <1>1, <1>2, <1>3, <1>4, <1>5, FailsFooting, FinishFooting DEF Orchestrator

LEMMA WorkerFewer ==
  ASSUME Types, AppliedInv, Worker \/ WorkerDies
  PROVE  Fewer /\ UNCHANGED <<may, engineVars, loopVars>>
<1>1. UNCHANGED <<may, engineVars, loopVars, events>>
  BY DEF Worker, TakeJob, FinishJob, WorkerDies, WorkerUnchanged, dbVars
<1>2. jobs \in Seq(Jobs) /\ results \in Seq(Answers) /\ DOMAIN results = 1 .. Len(results)
      /\ Len(results) \in Nat /\ worker.job \in Jobs
  BY LenProperties DEF Types, RowTypes
<1>3. ASSUME NEW j \in (Work \ {NoJob}) \cap Jobs, NEW why \in {"ok", "failed", "aged"},
             results' = Append(results, Result(j, why))
      PROVE  \A i \in DOMAIN results' :
               \/ \E n \in DOMAIN results : results'[i].row = results[n].row /\ results'[i].gen = results[n].gen
               \/ \E k \in Work \ {NoJob} : results'[i].row = k.row /\ results'[i].gen = k.gen
  <2>1. PICK x : x = Result(j, why)
    OBVIOUS
  <2>2. x.row = j.row /\ x.gen = j.gen /\ x \in Answers
    BY <1>3, <2>1 DEF Result, Answers, Jobs, NoJob
  <2>3. /\ DOMAIN results' = 1 .. Len(results) + 1 /\ results'[Len(results) + 1] = x
        /\ \A i \in 1 .. Len(results) : results'[i] = results[i]
    BY <1>2, <1>3, <2>1, <2>2, AppendProperties, LenProperties
  <2> QED
    BY <1>2, <2>2, <2>3
<1>4. CASE TakeJob
  <2>1. PICK head : head = Head(jobs)
    OBVIOUS
  <2>2. /\ head \in Jobs /\ \E i \in DOMAIN jobs : jobs[i] = head
        /\ \A i \in DOMAIN jobs' : \E n \in DOMAIN jobs : jobs'[i] = jobs[n]
    <3>1. jobs # <<>> /\ jobs' = Tail(jobs) /\ Len(jobs) \in Nat /\ DOMAIN jobs = 1 .. Len(jobs)
      BY <1>2, <1>4, LenProperties DEF TakeJob
    <3>2. head \in Jobs /\ head = jobs[1] /\ Len(jobs) # 0
          /\ DOMAIN jobs' = 1 .. Len(jobs) - 1
          /\ \A i \in 1 .. Len(jobs) - 1 : jobs'[i] = jobs[i+1]
      BY <1>2, <2>1, <3>1, HeadTailProperties, LenProperties, EmptySeq, ElementOfSeq
    <3> QED
      BY <3>1, <3>2
  <2>3. head \in Work /\ {jobs'[i] : i \in DOMAIN jobs'} \subseteq Work
    BY <2>2 DEF Work
  <2>4. CASE /\ head = NoJob /\ results' = results
             /\ worker' = [worker EXCEPT !.state = "exited"]
    <3>1. worker'.job = worker.job
      BY <2>4 DEF Types, RowTypes
    <3>2. Work' \subseteq Work
      BY <2>3, <3>1 DEF Work
    <3> QED
      BY <1>1, <2>4, <3>2 DEF Fewer
  <2>5. CASE /\ head # NoJob /\ results' = results
             /\ worker' = [state |-> "copying", job |-> head]
    <3>1. worker'.job = head
      BY <2>5
    <3>2. Work' \subseteq Work
      BY <2>3, <3>1 DEF Work
    <3> QED
      BY <1>1, <2>5, <3>2 DEF Fewer
  <2>6. CASE /\ head # NoJob /\ worker' = worker
             /\ results' = Append(results, Result(head, "aged"))
    <3>1. Work' \subseteq Work
      BY <2>3, <2>6 DEF Work
    <3>2. head \in (Work \ {NoJob}) \cap Jobs
      BY <2>2, <2>3, <2>6
    <3> QED
      BY <1>1, <1>3, <2>6, <3>1, <3>2 DEF Fewer
  <2> QED
    BY <1>4, <2>1, <2>4, <2>5, <2>6, TakeJobCases
<1>5. CASE FinishJob
  <2>1. PICK why \in {"ok", "failed", "aged"} : results' = Append(results, Result(worker.job, why))
    BY <1>5 DEF FinishJob
  <2>2. worker.job # NoJob /\ worker'.job = NoJob /\ jobs' = jobs
    BY <1>5 DEF FinishJob, AppliedInv, IdleWorker
  <2>3. Work' \subseteq Work \cup {NoJob} /\ worker.job \in Work
    BY <2>2 DEF Work
  <2> QED
    BY <1>1, <1>2, <1>3, <2>1, <2>2, <2>3 DEF Fewer
<1>6. CASE WorkerDies
  <2>1. UNCHANGED <<jobs, results>> /\ worker'.job = NoJob
    BY <1>6 DEF WorkerDies
  <2> QED
    BY <1>1, <2>1, SameRows
<1> QED
  BY <1>1, <1>4, <1>5, <1>6 DEF Worker

-----------------------------------------------------------------------------
(* Waiting for the window asked for last. *)

LEMMA SilentGone ==
  ASSUME Types, Silent, EngineNext, UNCHANGED may
  PROVE  Silent'
<1>1. out \in Seq(Lines) /\ Len(out) \in Nat /\ DOMAIN out = 1 .. Len(out)
  BY LenProperties DEF Types, EngineTypes
<1>2. reader = "hung" /\ todo = <<>> /\ toDsp = <<>> /\ \A i \in DOMAIN out : out[i].t = "__eof__"
  BY DEF Silent
<1>3. ~Reader
  BY <1>2 DEF Reader, Send, AtCommands, CommandOpen, CommandOpenFails, CommandStop, AtRead,
              ReadSamples, ReadOverflow, ReadNothing, ReadEof
<1>4. ~Dsp
  BY <1>2 DEF Dsp, Receives, DspTuned, DspWindow, DspClose, DspFrame, DspFrameUnheard, DspOverflow,
              DspReturns, DspStop, DspStall, DspEof
<1>5. PICK m : m = Line("__eof__")
  OBVIOUS
<1>6. m.t = "__eof__" /\ m \in Lines
  BY <1>5 DEF Line, Lines
<1>7. CASE Exit
  <2>1. out' = Append(out, m) /\ UNCHANGED <<reader, todo, toDsp>>
    BY <1>5, <1>7 DEF Exit
  <2>2. DOMAIN out' = 1 .. Len(out) + 1 /\ out'[Len(out) + 1] = m
        /\ \A i \in 1 .. Len(out) : out'[i] = out[i]
    BY <1>1, <1>6, <2>1, AppendProperties, LenProperties
  <2>3. \A i \in DOMAIN out' : out'[i].t = "__eof__"
    BY <1>1, <1>2, <1>6, <2>2
  <2> QED
    BY <1>2, <2>1, <2>3 DEF Silent
<1>8. CASE Crash
  <2>1. PICK k \in 0 .. Len(out) : out' = Append(SubSeq(out, 1, k), m)
    BY <1>5, <1>8 DEF Crash
  <2>2. PICK q : q = SubSeq(out, 1, k)
    OBVIOUS
  <2>3. q \in Seq(Lines) /\ Len(q) = k /\ \A i \in 1 .. k : q[i] = out[i]
    BY <1>1, <2>1, <2>2, SubSeqProperties
  <2>4. DOMAIN out' = 1 .. k + 1 /\ out'[k + 1] = m /\ \A i \in 1 .. k : out'[i] = q[i]
    BY <1>6, <2>1, <2>2, <2>3, AppendProperties, LenProperties
  <2>5. \A i \in DOMAIN out' : out'[i].t = "__eof__"
    BY <1>1, <1>2, <1>6, <2>1, <2>3, <2>4
  <2>6. UNCHANGED <<reader, todo, toDsp>>
    BY <1>8 DEF Crash
  <2> QED
    BY <1>2, <2>5, <2>6 DEF Silent
<1> QED
  BY <1>3, <1>4, <1>7, <1>8 DEF EngineNext

LEMMA EngineAwaited ==
  ASSUME Types, NEW a, Awaited(a), EngineNext, UNCHANGED <<may, pc, visits>>
  PROVE  Awaited(a)'
<1>1. engine # "gone"
  BY DEF EngineNext, Reader, Send, AtCommands, CommandOpen, CommandOpenFails, CommandStop, AtRead,
         ReadSamples, ReadOverflow, ReadNothing, ReadEof,
         Dsp, Receives, DspTuned, DspWindow, DspClose, DspFrame, DspFrameUnheard, DspOverflow,
         DspReturns, DspStop, DspStall, DspEof, Exit, Crash
<1> QED
  BY <1>1, SilentGone DEF Awaited, StatementsSucceed

(* The windows the orchestrator has been told of were asked for. *)
LEMMA ToldOfAsked ==
  ASSUME Types, NEW a, NEW b, NEW t, NEW u, Chain(a, b, t, u), NEW a1, Hears(a, a1),
         ~(out' = out)
  PROVE  a1.tunes <= visits
<1>1. out # <<>> /\ a1 = LineNext(a, Head(out)) /\ out \in Seq(Lines) /\ visits \in Nat
  BY DEF Hears, Types, EngineTypes, LoopTypes
<1>2. Leads(Says(may), a, out, b) /\ b.tunes <= visits
  BY DEF Chain, Spoken
<1>3. PICK c : <<a, Head(out), c>> \in Says(may) /\ Leads(Says(may), c, Tail(out), b)
  BY <1>1, <1>2, LeadsHead
<1>4. c = a1 /\ c \in Heard
  BY <1>1, <1>3, SaysIs
<1>5. Len(Tail(out)) \in Nat
  BY <1>1, HeadTailProperties, LenProperties
<1>6. a1.tunes <= b.tunes /\ a1.tunes \in Nat /\ b.tunes \in Nat
  BY <1>3, <1>4, <1>5, SaysGrow
<1> QED
  BY <1>1, <1>2, <1>6

(* Only while it waits is the orchestrator told of a window; then it is    *)
(* the one it has asked for.                                               *)
LEMMA TunedAwaited ==
  ASSUME Types, NEW a \in Heard, NEW b, NEW t, NEW u, Chain(a, b, t, u), Awaited(a),
         StatementsSucceed, NEW a1, Hears(a, a1), Takes("tuned")
  PROVE  pc = "tuned" /\ visits <= a1.tunes
<1>1. PICK m \in Lines : /\ m = Head(out) /\ m.t = "tuned" /\ LineFits(may, a, m)
                         /\ a1 = LineNext(a, m) /\ a1 \in Heard
  BY TakenIs
<1>2. a.at = "none" /\ a1.tunes = a.tunes + 1 /\ a.tunes \in Nat /\ visits \in Nat
  BY <1>1, LineNextIs DEF LineFits, Heard, Places, Types, LoopTypes
<1>3. out # <<>> /\ out \in Seq(Lines) /\ out' = Tail(out)
  BY DEF Takes, Types, EngineTypes
<1>4. ~Silent
  <2>1. 1 \in DOMAIN out /\ out[1] = m
    BY <1>1, <1>3, HeadTailProperties, LenProperties, EmptySeq
  <2> QED
    BY <1>1, <2>1 DEF Silent
<1>5. a1.tunes <= visits
  <2>1. ~(out' = out)
    BY <1>3, QueueTail, LenProperties
  <2> QED
    BY <2>1, ToldOfAsked
<1> QED
  BY <1>2, <1>3, <1>4, <1>5 DEF Awaited

(* What a step of the orchestrator does to the engine and to its waiting. *)
LEMMA OrchestratorSteps ==
  ASSUME Orchestrator
  PROVE  /\ UNCHANGED <<may, reader, todo, toDsp>> /\ engine' \in {engine, "gone"}
         /\ OpenWindow \/ visits' = visits
         /\ OpenWindow => out' = out /\ pc = "open" /\ pc' = "tuned"
         /\ pc = "tuned" => \/ pc' = "tuned" \/ WaitTimesOut \/ ~StatementsSucceed
                            \/ Takes("tuned") \/ Takes("stall") \/ Takes("eof") \/ Takes("__eof__")
<1>1. UNCHANGED may
  BY DEF Orchestrator
<1>2. CASE OpenWindow
  BY <1>1, <1>2 DEF OpenWindow
<1>3. ASSUME UNCHANGED engineVars \/ (\E k : Takes(k)), UNCHANGED visits,
             pc = "tuned" => \/ pc' = "tuned" \/ WaitTimesOut \/ ~StatementsSucceed
                             \/ Takes("tuned") \/ Takes("stall") \/ Takes("eof") \/ Takes("__eof__"),
             ~OpenWindow
      PROVE  /\ UNCHANGED <<may, reader, todo, toDsp>> /\ engine' \in {engine, "gone"}
             /\ OpenWindow \/ visits' = visits
             /\ OpenWindow => out' = out /\ pc = "open" /\ pc' = "tuned"
             /\ pc = "tuned" => \/ pc' = "tuned" \/ WaitTimesOut \/ ~StatementsSucceed
                                \/ Takes("tuned") \/ Takes("stall") \/ Takes("eof") \/ Takes("__eof__")
  <2>1. UNCHANGED <<reader, todo, toDsp, engine>>
    BY <1>3 DEF Takes, engineVars
  <2> QED
    BY <1>1, <1>3, <2>1
<1>4. CASE Handle /\ ~OpenWindow
  <2>1. CASE OnTuned
    BY <1>3, <1>4, <2>1 DEF OnTuned
  <2>2. CASE OnLinearity \/ OnWindow \/ OnFrame \/ OnClose
    <3>1. UNCHANGED visits /\ (pc = "tuned" => pc' = "tuned") /\ \E k : Takes(k)
      BY <2>2 DEF OnLinearity, OnWindow, OnFrame, OnClose, loopVars
    <3> QED
      BY <1>3, <1>4, <3>1
  <2>3. ASSUME NEW k \in {"stall", "eof", "__eof__"}, EngineEnds(k)
        PROVE  UNCHANGED visits /\ Takes(k)
    BY <2>3 DEF EngineEnds, Goes
  <2> QED
    BY <1>3, <1>4, <2>1, <2>2, <2>3 DEF Handle
<1>5. CASE (Replay \/ Pumped \/ PumpOn \/ DwellOver \/ StopSeen \/ WaitTimesOut) /\ ~OpenWindow
  <2>1. UNCHANGED <<visits, engineVars>> /\ (pc = "tuned" => pc' = "tuned" \/ WaitTimesOut)
    BY <1>5 DEF Replay, ReplayStart, ReplayDue, ReplayLast, ReplayEnd, ReplayUnchanged, Pumped,
                PumpOn, DwellOver, StopSeen, Goes, WaitTimesOut
  <2> QED
    BY <1>3, <1>5, <2>1
<1>6. CASE StatementFails /\ ~OpenWindow
  <2>1. UNCHANGED visits /\ ~StatementsSucceed
    BY <1>6 DEF StatementFails, FrameFails, CloseFails, WindowFails, CollectFails, Fails,
                StatementsSucceed
  <2>2. UNCHANGED engineVars \/ \E k : Takes(k)
    BY <1>6 DEF StatementFails, FrameFails, CloseFails, WindowFails, CollectFails
  <2> QED
    BY <1>3, <1>6, <2>1, <2>2
<1>7. CASE Finish /\ ~OpenWindow
  <2>1. UNCHANGED <<visits, reader, todo, toDsp>> /\ engine' \in {engine, "gone"}
        /\ (pc = "tuned" => pc' = "tuned")
    BY <1>7 DEF Finish, SendStop, DrainSkips, DrainEnds, Reap, PutNone, CollectLast, EndRun, Goes,
                loopVars, engineVars, Takes
  <2> QED
    BY <1>1, <1>7, <2>1
<1> QED
  BY <1>2, <1>4, <1>5, <1>6, <1>7 DEF Orchestrator

LEMMA OrchestratorAwaited ==
  ASSUME Types, NEW a \in Heard, NEW b, NEW t, NEW u, Chain(a, b, t, u), Awaited(a),
         NEW a1, Hears(a, a1), Orchestrator
  PROVE  Awaited(a1)'
<1> SUFFICES ASSUME StatementsSucceed PROVE Awaited(a1)'
  BY OrchestratorSteps DEF Awaited, StatementsSucceed
<1>1. /\ UNCHANGED <<may, reader, todo, toDsp>> /\ engine' \in {engine, "gone"}
      /\ a.tunes \in Nat /\ visits \in Nat /\ out \in Seq(Lines)
  BY OrchestratorSteps DEF Heard, Places, Types, LoopTypes, EngineTypes
<1>2. CASE OpenWindow
  <2>1. out' = out /\ a1 = a /\ pc = "open" /\ pc' = "tuned" /\ visits' = visits + 1
    BY <1>2, OrchestratorSteps, SaysNothing DEF OpenWindow
  <2>2. Silent => Silent'
    BY <1>1, <2>1 DEF Silent
  <2> QED
    BY <1>1, <2>1, <2>2 DEF Awaited
<1>3. CASE out' = out /\ ~OpenWindow
  <2>1. a1 = a /\ visits' = visits
    BY <1>3, SaysNothing, OrchestratorSteps
  <2>2. Silent => Silent'
    BY <1>1, <1>3 DEF Silent
  <2>3. \A k : ~Takes(k)
    BY <1>1, <1>3, QueueTail, LenProperties DEF Takes
  <2>4. pc = "tuned" => pc' = "tuned" \/ Silent'
    <3>1. WaitTimesOut => Silent
      BY DEF WaitTimesOut, Late, Stuck, Silent
    <3> QED
      BY <2>2, <2>3, <3>1, OrchestratorSteps
  <2> QED
    BY <1>1, <1>3, <2>1, <2>2, <2>4 DEF Awaited
<1>4. CASE out' # out /\ ~OpenWindow
  <2>1. PICK m \in Lines : /\ m = Head(out) /\ LineFits(may, a, m) /\ a1 = LineNext(a, m)
                           /\ a1 \in Heard /\ out' = Tail(out) /\ out # <<>>
    BY <1>4 DEF Hears
  <2>2. visits' = visits /\ \A k : Takes(k) => m.t = k
    BY <1>4, <2>1, OrchestratorSteps DEF Takes
  <2>3. CASE Takes("tuned")
    <3>1. visits <= a1.tunes
      BY <2>3, TunedAwaited
    <3> QED
      BY <2>2, <3>1 DEF Awaited
  <2>4. CASE ~Takes("tuned")
    <3>1. WaitTimesOut => out' = out
      BY DEF WaitTimesOut, engineVars
    <3>2. pc = "tuned" => pc' = "tuned" \/ a1.at = "left"
      BY <1>4, <2>1, <2>2, <2>4, <3>1, OrchestratorSteps, LineNextIs
    <3>3. a1.tunes = a.tunes \/ a1.tunes = a.tunes + 1
      BY <2>1, LineNextIs
    <3>4. a.at = "left" => a1.at = "left"
      BY <2>1, LineNextIs, LineFields DEF LineFits
    <3>5. Silent => Silent'
      <4>1. \A i \in DOMAIN Tail(out) : i + 1 \in DOMAIN out /\ Tail(out)[i] = out[i+1]
        BY <1>1, <2>1, HeadTailProperties, LenProperties
      <4> QED
        BY <1>1, <2>1, <4>1 DEF Silent
    <3> QED
      BY <1>1, <2>1, <2>2, <3>2, <3>3, <3>4, <3>5 DEF Awaited
  <2> QED
    BY <2>3, <2>4
<1> QED
  BY <1>2, <1>3, <1>4

-----------------------------------------------------------------------------
(* The rows of the windows. *)

(* What is written into the rows of events leaves where they were heard.   *)
Kept ==
  /\ DOMAIN events' = DOMAIN events
  /\ \A r \in DOMAIN events : /\ events'[r].gen = events[r].gen
                              /\ events'[r].window = events[r].window
                              /\ events'[r].center = events[r].center

LEMMA SameKept == UNCHANGED events => Kept
BY DEF Kept

LEMMA CollectKept == Types /\ Collect => Kept
BY CollectTypes DEF Kept

LEMMA ClosedKept ==
  ASSUME Types, NEW S, events' = ClosedIn(S)
  PROVE  Kept
BY ClosedInTypes DEF Kept

LEMMA DecideKept ==
  ASSUME Types, ReplayDue \/ ReplayLast
  PROVE  /\ Kept
         /\ \A r \in DOMAIN events : events'[r].closed = events[r].closed
<1>1. line \in Unreplayed
  BY DEF Types, LoopTypes
<1>2. PICK d \in line.due \cup line.fin : Decide(d)
  BY DEF ReplayDue, ReplayLast
<1>3. d \in Decisions
  BY <1>1, <1>2, LineHas
<1> QED
  BY <1>2, <1>3, DecideCases, MarkedTypes DEF Kept

LEMMA WindowsKept ==
  ASSUME Kept, RowsLogged, DOMAIN windows \subseteq DOMAIN windows',
         \A w \in DOMAIN windows : windows'[w].center = windows[w].center
  PROVE  RowsLogged'
<1> SUFFICES ASSUME NEW r \in DOMAIN events
             PROVE  /\ events'[r].window = events'[r].gen /\ events'[r].window \in DOMAIN windows'
                    /\ windows'[events'[r].window].center = events'[r].center
  BY DEF RowsLogged, Kept
<1> QED
  BY DEF RowsLogged, Kept

LEMMA SameLogged ==
  ASSUME Types, NEW a, Logged(a), Kept, UNCHANGED <<may, windows, windowId, logWindow, ended>>,
         pc' = "window" <=> pc = "window"
  PROVE  Logged(a)'
<1> SUFFICES ASSUME StatementsSucceed PROVE Logged(a)'
  BY DEF Logged, StatementsSucceed
<1>1. Book(a) /\ RowsLogged /\ Probed(a)
  BY DEF Logged
<1>2. Book(a)'
  BY <1>1 DEF Book
<1>3. Probed(a)'
  BY <1>1 DEF Probed, FromFile
<1>4. RowsLogged'
  BY <1>1, WindowsKept
<1> QED
  BY <1>2, <1>3, <1>4 DEF Logged

(* The line is a frame's, or the engine's last. *)
LEMMA LineLogged ==
  ASSUME Types, NEW a \in Heard, NEW m \in Lines, LineFits(may, a, m), NEW a1 \in Heard,
         a1 = LineNext(a, m), Logged(a), Kept, UNCHANGED <<may, windows, windowId, logWindow, ended>>,
         \/ m.t = "f" /\ pc' = pc
         \/ m.t \in {"stall", "eof", "__eof__"} /\ pc' # "window"
  PROVE  Logged(a1)'
<1> SUFFICES ASSUME StatementsSucceed PROVE Logged(a1)'
  BY DEF Logged, StatementsSucceed
<1>1. Book(a) /\ RowsLogged /\ Probed(a)
  BY DEF Logged
<1>2. /\ a1.center = a.center /\ a1.tunes = a.tunes
      /\ m.t = "f" => a1.at = a.at
      /\ m.t # "f" => a1.at = "left"
  BY LineNextIs
<1>3. Book(a1)'
  BY <1>1, <1>2 DEF Book, Visited
<1>4. "crash" \notin may => a.at # "tuned" \/ a1.at = "tuned"
  BY <1>2 DEF LineFits
<1>5. Probed(a1)'
  BY <1>1, <1>2, <1>4 DEF Probed, FromFile
<1>6. RowsLogged'
  BY <1>1, WindowsKept
<1> QED
  BY <1>3, <1>5, <1>6 DEF Logged

(* db.open_window() *)
LEMMA TunedLogged ==
  ASSUME Types, AppliedInv, NEW a \in Heard, NEW m \in Lines, LineFits(may, a, m), NEW a1 \in Heard,
         a1 = LineNext(a, m), m = Head(out), Logged(a), UNCHANGED may, OnTuned, pc = "tuned"
  PROVE  Logged(a1)'
<1> SUFFICES ASSUME StatementsSucceed PROVE Logged(a1)'
  BY DEF Logged, StatementsSucceed
<1>1. Book(a) /\ RowsLogged /\ Probed(a)
  BY DEF Logged
<1>2. m.t = "tuned" /\ center' = m.center /\ pc' = "window" /\ UNCHANGED <<events, ended, may>>
      /\ windows' = Append(windows, [center |-> m.center, closed |-> FALSE, linear |-> None])
      /\ windowId' = Len(windows') /\ logWindow' = Len(windows')
  BY DEF OnTuned, Takes
<1>3. a.at = "none" /\ a1.at = "tuned" /\ a1.center = m.center /\ a1.tunes = a.tunes + 1
      /\ m.center \in Nat /\ a.tunes \in Nat
  BY <1>2, LineNextIs, LineFields DEF LineFits, Heard, Places
<1>4. PICK w0 : w0 = [center |-> m.center, closed |-> FALSE, linear |-> None]
  OBVIOUS
<1>5. w0 \in WindowRow /\ w0.center = m.center /\ w0.linear = None
  BY <1>3, <1>4 DEF WindowRow
<1>6. windows \in Seq(WindowRow) /\ DOMAIN windows = 1 .. Len(windows) /\ Len(windows) = a.tunes
  BY <1>1, LenProperties DEF Types, LoopTypes, Book
<1>7. /\ Len(windows') = a.tunes + 1 /\ DOMAIN windows' = 1 .. (a.tunes + 1)
      /\ windows'[a.tunes + 1] = w0
      /\ \A i \in 1 .. a.tunes : windows'[i] = windows[i]
  BY <1>2, <1>4, <1>5, <1>6, AppendProperties, LenProperties
<1>9. ~ended
  BY DEF AppliedInv
<1>10. windowId = None /\ \A w \in DOMAIN windows : windows[w].closed
  BY <1>1, <1>3, <1>6 DEF Book, None
<1>11. Book(a1)'
  BY <1>2, <1>3, <1>5, <1>6, <1>7, <1>9, <1>10 DEF Book, Visited
<1>12. Probed(a1)'
  BY <1>1, <1>2, <1>3, <1>5, <1>6, <1>7 DEF Probed, FromFile
<1>13. RowsLogged'
  BY <1>1, <1>2, <1>3, <1>6, <1>7, SameKept, WindowsKept
<1> QED
  BY <1>11, <1>12, <1>13 DEF Logged

(* db.set_window_linearity() *)
LEMMA LinearityLogged ==
  ASSUME Types, NEW a \in Heard, NEW m \in Lines, LineFits(may, a, m), NEW a1 \in Heard,
         a1 = LineNext(a, m), m = Head(out), Logged(a), UNCHANGED may, ~ended, OnLinearity
  PROVE  Logged(a1)'
<1> SUFFICES ASSUME StatementsSucceed PROVE Logged(a1)'
  BY DEF Logged, StatementsSucceed
<1>1. Book(a) /\ RowsLogged /\ Probed(a)
  BY DEF Logged
<1>2. m.t = "linearity" /\ UNCHANGED <<events, ended, may, pc, windowId, logWindow>>
      /\ windows' = (IF windowId = None THEN windows
                     ELSE [windows EXCEPT ![windowId].linear = m.center])
  BY DEF OnLinearity, Takes, loopVars
<1>3. a.at = "tuned" /\ a1.at = "probed" /\ a1.center = a.center /\ a1.tunes = a.tunes
      /\ m.center = a.center /\ "file" \notin may /\ m.center \in Nat /\ a.tunes \in Nat
  BY <1>2, LineNextIs, LineFields DEF LineFits, Heard, Places
<1>4. /\ windows \in Seq(WindowRow) /\ DOMAIN windows = 1 .. Len(windows) /\ Len(windows) = a.tunes
      /\ windowId = a.tunes /\ a.tunes \in DOMAIN windows /\ windowId # None
      /\ windows[a.tunes].center = a.center
      /\ \A w \in DOMAIN windows : windows[w] \in WindowRow
  <2>1. windows \in Seq(WindowRow) /\ windowId \in {None} \cup DOMAIN windows
    BY DEF Types, LoopTypes
  <2>2. windowId = a.tunes /\ windows[a.tunes].center = a.center /\ Len(windows) = a.tunes
    BY <1>1, <1>3 DEF Book, Visited
  <2>3. windowId # None
    BY <1>3, <2>2 DEF None
  <2> QED
    BY <2>1, <2>2, <2>3, LenProperties, ElementOfSeq
<1>5. /\ DOMAIN windows' = DOMAIN windows
      /\ \A w \in DOMAIN windows : /\ windows'[w].center = windows[w].center
                                   /\ windows'[w].closed = windows[w].closed
                                   /\ windows'[w].linear = IF w = a.tunes THEN a.center
                                                           ELSE windows[w].linear
  <2>1. windows' = [windows EXCEPT ![a.tunes].linear = a.center]
    BY <1>2, <1>3, <1>4
  <2> QED
    BY <1>4, <2>1 DEF WindowRow
<1>6. Len(windows') = a.tunes
  <2>1. windows' \in Seq(WindowRow)
    BY HandleTypes DEF Handle, Types, LoopTypes
  <2> QED
    BY <1>4, <1>5, <2>1, LenProperties
<1>7. Book(a1)'
  BY <1>1, <1>2, <1>3, <1>4, <1>5, <1>6 DEF Book, Visited
<1>8. Probed(a1)'
  BY <1>1, <1>2, <1>3, <1>4, <1>5 DEF Probed, FromFile
<1>9. RowsLogged'
  BY <1>1, <1>2, <1>5, SameKept, WindowsKept
<1> QED
  BY <1>7, <1>8, <1>9 DEF Logged

(* _apply_window() *)
LEMMA WindowLogged ==
  ASSUME Types, NEW a \in Heard, NEW m \in Lines, LineFits(may, a, m), NEW a1 \in Heard,
         a1 = LineNext(a, m), m = Head(out), Logged(a), UNCHANGED may, OnWindow
  PROVE  Logged(a1)'
<1> SUFFICES ASSUME StatementsSucceed PROVE Logged(a1)'
  BY DEF Logged, StatementsSucceed
<1>1. Book(a) /\ RowsLogged /\ Probed(a)
  BY DEF Logged
<1>2. m.t = "window" /\ UNCHANGED <<events, ended, may, windows, windowId, logWindow>>
      /\ pc' = IF pc = "window" THEN "pump" ELSE pc
  BY DEF OnWindow, Takes, dbVars
<1>3. /\ a.at \in {"tuned", "probed"} /\ a1.at = "open" /\ a1.center = a.center
      /\ a1.tunes = a.tunes /\ (a.at = "tuned" => "file" \in may)
  BY <1>2, LineNextIs DEF LineFits
<1>4. Book(a1)'
  BY <1>1, <1>2, <1>3 DEF Book, Visited
<1>5. Probed(a1)'
  BY <1>1, <1>2, <1>3 DEF Probed, FromFile
<1>6. RowsLogged'
  BY <1>1, <1>2, SameKept, WindowsKept
<1> QED
  BY <1>4, <1>5, <1>6 DEF Logged

(* _close() *)
LEMMA CloseLogged ==
  ASSUME Types, NEW a \in Heard, NEW m \in Lines, LineFits(may, a, m), NEW a1 \in Heard,
         a1 = LineNext(a, m), m = Head(out), Logged(a), UNCHANGED may, OnClose
  PROVE  Logged(a1)'
<1> SUFFICES ASSUME StatementsSucceed PROVE Logged(a1)'
  BY DEF Logged, StatementsSucceed
<1>1. Book(a) /\ RowsLogged /\ Probed(a)
  BY DEF Logged
<1>2. m.t = "close" /\ UNCHANGED <<pc, ended, may, logWindow>>
      /\ windows' = WindowsClosed /\ windowId' = None
      /\ events' = ClosedIn({openRows[c] : c \in Channels})
  BY DEF OnClose, Takes, ClosedIn
<1>3. a.at = "open" /\ a1.at = "none" /\ a1.center = a.center /\ a1.tunes = a.tunes
  BY <1>2, LineNextIs DEF LineFits
<1>4. Book(a1)'
  BY <1>1, <1>2, <1>3, WindowRowTypes DEF Book, Visited
<1>5. Probed(a1)'
  BY <1>1, <1>2, <1>3, WindowRowTypes DEF Probed, FromFile
<1>6. RowsLogged'
  BY <1>1, <1>2, ClosedKept, WindowsKept, WindowRowTypes
<1> QED
  BY <1>4, <1>5, <1>6 DEF Logged

(* log.start(): the row names the window its grid is of. *)
LEMMA StartLogged ==
  ASSUME Types, NEW a \in Heard, Placed(a), Logged(a), UNCHANGED may, ~ended, ReplayStart
  PROVE  Logged(a)'
<1> SUFFICES ASSUME StatementsSucceed PROVE Logged(a)'
  BY DEF Logged, StatementsSucceed
<1>1. Book(a) /\ RowsLogged /\ Probed(a)
  BY DEF Logged
<1>2. PICK ch : ch = MinOf(line.s)
  OBVIOUS
<1>3. line \in Unreplayed /\ line.s # {}
  BY DEF Types, LoopTypes, ReplayStart
<1>4. ch \in Channels /\ line # NoLine
  BY <1>2, <1>3, LineHas, MinOfChannels
<1>5. /\ events' = Started(ch)
      /\ UNCHANGED <<may, pc, windows, windowId, logWindow, ended>>
  BY <1>2 DEF ReplayStart, Started, ReplayUnchanged
<1>6. /\ a.at = "open" /\ line.heard = a.tunes /\ grid.center = a.center /\ a.tunes \in Nat
  BY <1>4 DEF Placed, Heard, Places
<1>7. a.tunes \in DOMAIN windows /\ logWindow = a.tunes /\ windows[a.tunes].center = a.center
  <2>1. windowId = a.tunes /\ windowId \in {None} \cup DOMAIN windows
        /\ windows[a.tunes].center = a.center
    BY <1>1, <1>6 DEF Book, Visited, Types, LoopTypes
  <2>2. a.tunes \in DOMAIN windows
    BY <1>6, <2>1 DEF None
  <2>3. a.tunes # 0
    BY <2>2, LenProperties DEF Types, LoopTypes
  <2> QED
    BY <1>1, <2>1, <2>2, <2>3 DEF Book
<1>8. PICK n : n = Len(events) + 1
  OBVIOUS
<1>9. /\ DOMAIN events' = DOMAIN events \cup {n}
      /\ \A r \in DOMAIN events : events'[r] = events[r]
      /\ n \notin DOMAIN events
      /\ events'[n].window = logWindow /\ events'[n].gen = line.heard
      /\ events'[n].center = grid.center
  <2>1. /\ DOMAIN Started(ch) = DOMAIN events \cup {n} /\ n \notin DOMAIN events
        /\ \A r \in DOMAIN events : Started(ch)[r] = events[r]
        /\ Started(ch)[n] = [ch |-> ch, window |-> logWindow, gen |-> line.heard,
                             center |-> grid.center, closed |-> None, parent |-> None,
                             result |-> None]
    BY <1>4, <1>8, StartedTypes
  <2> QED
    BY <1>5, <2>1
<1>10. RowsLogged'
  <2> SUFFICES ASSUME NEW r \in DOMAIN events'
               PROVE  /\ events'[r].window = events'[r].gen
                      /\ events'[r].window \in DOMAIN windows
                      /\ windows[events'[r].window].center = events'[r].center
    BY <1>5 DEF RowsLogged
  <2>1. CASE r = n
    BY <1>6, <1>7, <1>9, <2>1
  <2>2. CASE r # n
    BY <1>1, <1>9, <2>2 DEF RowsLogged
  <2> QED
    BY <2>1, <2>2
<1>11. Book(a)' /\ Probed(a)'
  BY <1>1, <1>5 DEF Book, Probed, FromFile
<1> QED
  BY <1>10, <1>11 DEF Logged

(* db.close_window() and db.end_run() *)
LEMMA EndRunLogged ==
  ASSUME Types, AppliedInv, NEW a \in Heard, Placed(a), Logged(a), UNCHANGED may, EndRun
  PROVE  Logged(a)'
<1> SUFFICES ASSUME StatementsSucceed PROVE Logged(a)'
  BY DEF Logged, StatementsSucceed
<1>1. Book(a) /\ RowsLogged /\ Probed(a)
  BY DEF Logged
<1>2. /\ pc' = "done" /\ windows' = WindowsClosed /\ windowId' = None
      /\ ended' /\ pc = "end" /\ UNCHANGED <<may, logWindow, events>>
  BY DEF EndRun
<1>3. Book(a)'
  <2>1. a.at \in Visited => a.tunes \in DOMAIN windows
    BY <1>1, <1>2, LenProperties DEF Book, Visited, Heard, Places, AppliedInv, Types, LoopTypes, None
  <2> QED
    BY <1>1, <1>2, <2>1, WindowRowTypes DEF Book
<1>4. Probed(a)'
  BY <1>1, <1>2, WindowRowTypes DEF Probed, FromFile
<1>5. RowsLogged'
  BY <1>1, <1>2, SameKept, WindowsKept, WindowRowTypes
<1> QED
  BY <1>3, <1>4, <1>5 DEF Logged

LEMMA OrchestratorLogged ==
  ASSUME Types, AppliedInv, NEW a \in Heard, NEW b, NEW t, NEW u, Chain(a, b, t, u), Placed(a),
         Awaited(a), Logged(a), NEW a1, Hears(a, a1), Orchestrator
  PROVE  Logged(a1)'
<1>1. UNCHANGED may
  BY DEF Orchestrator
<1> SUFFICES ASSUME StatementsSucceed PROVE Logged(a1)'
  BY <1>1 DEF Logged, StatementsSucceed
<1>2. CASE OpenWindow \/ PumpOn \/ DwellOver \/ StopSeen \/ SendStop \/ Reap \/ PutNone
  <2>1. out' = out /\ UNCHANGED <<events, windows, windowId, logWindow, ended>>
        /\ pc # "window" /\ pc' # "window"
    BY <1>2 DEF OpenWindow, PumpOn, DwellOver, StopSeen, SendStop, Reap, PutNone, Goes, engineVars,
                dbVars
  <2> QED
    BY <1>1, <2>1, SaysNothing, SameKept, SameLogged
<1>3. CASE WaitTimesOut
  <2>1. out' = out /\ UNCHANGED <<events, windows, windowId, logWindow, ended>> /\ pc' = "finish"
        /\ Late
    BY <1>3 DEF WaitTimesOut, Goes, engineVars, dbVars
  <2>2. a.at \in {"none", "left"}
    BY <2>1, NothingLeft DEF Types, Late
  <2>3. pc # "window"
    BY <2>2 DEF Logged, Book
  <2> QED
    BY <1>1, <2>1, <2>3, SaysNothing, SameKept, SameLogged
<1>4. CASE Pumped \/ CollectLast
  <2>1. out' = out /\ UNCHANGED <<windows, windowId, logWindow, ended>> /\ Collect
        /\ pc # "window" /\ pc' # "window"
    BY <1>4 DEF Pumped, CollectLast, engineVars
  <2> QED
    BY <1>1, <2>1, SaysNothing, CollectKept, SameLogged
<1>5. CASE EndRun
  <2>1. out' = out
    BY <1>5 DEF EndRun, engineVars
  <2> QED
    BY <1>1, <1>5, <2>1, SaysNothing, EndRunLogged
<1>6. CASE Replay
  <2>1. out' = out
    BY <1>6 DEF Replay, ReplayStart, ReplayDue, ReplayLast, ReplayEnd, ReplayUnchanged, engineVars
  <2>2. a1 = a
    BY <2>1, SaysNothing
  <2>3. CASE ReplayStart
    <3>1. line # NoLine
      BY <2>3 DEF ReplayStart, NoLine
    <3>2. ~ended
      BY <3>1 DEF AppliedInv, Closing
    <3> QED
      BY <1>1, <2>2, <2>3, <3>2, StartLogged
  <2>4. CASE ReplayDue \/ ReplayLast \/ ReplayEnd
    <3>1. Kept
      BY <2>4, DecideKept, EndIsClosed, ClosedKept
    <3>2. UNCHANGED <<pc, windows, windowId, logWindow, ended>>
      BY <2>4 DEF ReplayDue, ReplayLast, ReplayEnd, ReplayUnchanged
    <3> QED
      BY <1>1, <2>2, <3>1, <3>2, SameLogged
  <2> QED
    BY <1>6, <2>3, <2>4 DEF Replay
<1>7. CASE OnTuned \/ OnLinearity \/ OnWindow \/ OnClose
  <2>1. PICK m \in Lines : /\ m = Head(out) /\ LineFits(may, a, m) /\ a1 = LineNext(a, m)
                           /\ a1 \in Heard
    BY <1>7, TakenIs DEF OnTuned, OnLinearity, OnWindow, OnClose
  <2>2. OnTuned => pc = "tuned"
    BY TunedAwaited DEF OnTuned
  <2>3. ~ended
    BY <1>7 DEF OnTuned, OnLinearity, OnWindow, OnClose, Handling, AppliedInv
  <2> QED
    BY <1>1, <1>7, <2>1, <2>2, <2>3, TunedLogged, LinearityLogged, WindowLogged, CloseLogged
<1>8. CASE OnFrame
  <2>1. PICK m \in Lines : /\ m.t = "f" /\ LineFits(may, a, m) /\ a1 = LineNext(a, m)
                           /\ a1 \in Heard
    BY <1>8, TakenIs DEF OnFrame
  <2>2. UNCHANGED <<events, windows, windowId, logWindow, ended, pc>>
    BY <1>8 DEF OnFrame, dbVars
  <2> QED
    BY <1>1, <2>1, <2>2, SameKept, LineLogged
<1>9. ASSUME NEW k \in {"stall", "eof", "__eof__"}, Takes(k), pc' # "window",
             UNCHANGED <<events, windows, windowId, logWindow, ended>>
      PROVE  Logged(a1)'
  <2>1. PICK m \in Lines : /\ m.t = k /\ LineFits(may, a, m) /\ a1 = LineNext(a, m)
                           /\ a1 \in Heard
    BY <1>9, TakenIs
  <2> QED
    BY <1>1, <1>9, <2>1, SameKept, LineLogged
<1>10. ASSUME NEW k \in {"stall", "eof", "__eof__"}, EngineEnds(k) PROVE Logged(a1)'
  BY <1>9, <1>10 DEF EngineEnds, Goes, dbVars
<1>11. CASE DrainSkips
  BY <1>9, <1>11 DEF DrainSkips, loopVars, dbVars
<1>12. CASE DrainEnds
  <2>1. UNCHANGED <<events, windows, windowId, logWindow, ended>> /\ pc' = "reap" /\ pc = "drain"
    BY <1>12 DEF DrainEnds, Goes, dbVars
  <2>2. CASE Takes("__eof__")
    BY <1>9, <2>1, <2>2
  <2>3. CASE out' = out
    BY <1>1, <2>1, <2>3, SaysNothing, SameKept, SameLogged
  <2> QED
    BY <1>12, <2>2, <2>3 DEF DrainEnds
<1>13. CASE Handle
  BY <1>7, <1>8, <1>10, <1>13 DEF Handle
<1>14. CASE Finish
  BY <1>2, <1>4, <1>5, <1>11, <1>12, <1>14 DEF Finish
<1>15. ~StatementFails
  BY DEF StatementFails, FrameFails, CloseFails, WindowFails, CollectFails, Fails, StatementsSucceed
<1> QED
  BY <1>2, <1>3, <1>4, <1>6, <1>13, <1>14, <1>15 DEF Orchestrator

-----------------------------------------------------------------------------
(* Rows without an end. *)

LEMMA SameMirrored ==
  ASSUME NEW a, Mirrored(a), DOMAIN events' = DOMAIN events,
         \A r \in DOMAIN events : /\ events'[r].closed = events[r].closed
                                  /\ events'[r].gen = events[r].gen,
         UNCHANGED <<may, openRows>>, Now(a)' = Now(a)
  PROVE  Mirrored(a)'
BY DEF Mirrored, StatementsSucceed

LEMMA LineMirrored ==
  ASSUME Types, NEW a \in Heard, NEW m \in Lines, LineFits(may, a, m), NEW a1 \in Heard,
         a1 = LineNext(a, m), line = NoLine, UNCHANGED <<may, events, openRows>>,
         Footing(a), Mirrored(a),
         \/ m.t \in {"tuned", "linearity", "window", "stall", "eof", "__eof__"} /\ line' = line
         \/ m.t = "f" /\ line' = [heard |-> m.heard, s |-> m.s, due |-> m.due, fin |-> m.fin, e |-> m.e]
  PROVE  Mirrored(a1)'
<1> SUFFICES ASSUME StatementsSucceed PROVE Mirrored(a1)'
  BY DEF Mirrored, StatementsSucceed
<1>1. line.s = {} /\ line.e = {}
  BY LineHas DEF Types, LoopTypes
<1>2. Now(a) = a.open
  BY <1>1 DEF Now
<1>3. CASE m.t = "f"
  <2>1. /\ a.at = "open" /\ a1.at = "open" /\ a1.open = (a.open \cup m.s) \ m.e
        /\ m.s \cap a.open = {} /\ m.e \subseteq a.open
    BY <1>3, LineNextIs DEF LineFits, FrameFits
  <2>2. line'.s = m.s /\ line'.e = m.e
    BY <1>3
  <2>3. Now(a1)' = a.open
    BY <2>1, <2>2 DEF Now
  <2> QED
    BY <1>2, <2>1, <2>3 DEF Mirrored
<1>4. CASE m.t # "f"
  <2>1. a1.open = {}
    <3>1. m.t \in {"tuned", "linearity", "window"} => a.at # "open"
      BY DEF LineFits
    <3> QED
      BY <1>4, <3>1, LineNextIs DEF Heard
  <2>2. Now(a1)' = {} /\ line' = line
    BY <1>1, <1>4, <2>1 DEF Now
  <2>3. ASSUME "crash" \notin may, a1.at = "left" PROVE \A c \in Channels : openRows[c] = None
    <3>1. a.at \in {"none", "left"}
      BY <1>4, <2>3, LineNextIs DEF LineFits
    <3>2. CASE a.at = "left"
      BY <2>3, <3>2 DEF Mirrored
    <3>3. CASE a.at = "none"
      <4>1. Now(a) = {}
        BY <1>2, <3>3 DEF Heard
      <4> QED
        BY <3>3, <4>1 DEF Footing, Rows
    <3> QED
      BY <3>1, <3>2, <3>3
  <2> QED
    BY <2>2, <2>3 DEF Mirrored
<1> QED
  BY <1>3, <1>4

(* _close(): a row without an end is an open channel's, and gets one. *)
LEMMA CloseMirrored ==
  ASSUME Types, NEW a \in Heard, NEW m \in Lines, LineFits(may, a, m), NEW a1 \in Heard,
         a1 = LineNext(a, m), m = Head(out), line = NoLine, Footing(a), Mirrored(a),
         UNCHANGED may, OnClose
  PROVE  Mirrored(a1)'
<1> SUFFICES ASSUME StatementsSucceed PROVE Mirrored(a1)'
  BY DEF Mirrored, StatementsSucceed
<1>1. m.t = "close" /\ UNCHANGED <<may, line>>
      /\ events' = ClosedIn({openRows[c] : c \in Channels})
  BY DEF OnClose, Takes, ClosedIn
<1>2. a.at = "open" /\ a1.at = "none" /\ a1.open = {}
  BY <1>1, LineNextIs DEF LineFits
<1>3. line'.s = {} /\ line'.e = {}
  BY <1>1, LineHas DEF Types, LoopTypes
<1>4. Now(a1)' = {}
  BY <1>2, <1>3 DEF Now
<1>5. PICK S : S = {openRows[c] : c \in Channels}
  OBVIOUS
<1>6. /\ DOMAIN events' = DOMAIN events
      /\ \A r \in DOMAIN events : /\ events'[r].gen = events[r].gen
                                  /\ events'[r].closed = IF r \in S THEN grid.gen
                                                         ELSE events[r].closed
  BY <1>1, <1>5, ClosedInTypes
<1>7. grid.gen \in Nat /\ grid.gen # None
  BY <1>2 DEF Footing, Placed, Heard, Places, None
<1>8. ASSUME NEW r \in DOMAIN events, r \in S PROVE events[r].gen = grid.gen
  <2>1. PICK c \in Channels : openRows[c] = r
    BY <1>5, <1>8
  <2>2. r # None
    BY LenProperties DEF None, Types, RowTypes
  <2>3. c \in Now(a)
    BY <1>2, <2>1, <2>2 DEF Footing, Rows
  <2> QED
    BY <2>1, <2>2, <2>3 DEF Footing, Rows
<1>9. \A r \in DOMAIN events' : events'[r].closed \in {None, events'[r].gen}
  BY <1>6, <1>8 DEF Mirrored
<1>10. "crash" \notin may => \A r \in DOMAIN events' : events'[r].closed # None
  BY <1>5, <1>6, <1>7 DEF Mirrored
<1> QED
  BY <1>1, <1>2, <1>4, <1>9, <1>10 DEF Mirrored

LEMMA StartMirrored ==
  ASSUME Types, NEW a \in Heard, Footing(a), Mirrored(a), UNCHANGED may, ReplayStart
  PROVE  Mirrored(a)'
<1> SUFFICES ASSUME StatementsSucceed PROVE Mirrored(a)'
  BY DEF Mirrored, StatementsSucceed
<1>1. PICK ch : ch = MinOf(line.s)
  OBVIOUS
<1>2. PICK n : n = Len(events) + 1
  OBVIOUS
<1>3. line \in Unreplayed /\ line.s # {}
  BY DEF Types, LoopTypes, ReplayStart
<1>4. ch \in line.s /\ ch \in Channels /\ line # NoLine
  BY <1>1, <1>3, LineHas, MinOfChannels
<1>5. /\ events' = Started(ch) /\ openRows' = [openRows EXCEPT ![ch] = n]
      /\ line' = Rest([line EXCEPT !.s = @ \ {ch}]) /\ UNCHANGED may
  BY <1>1, <1>2 DEF ReplayStart, Started
<1>6. /\ DOMAIN events' = DOMAIN events \cup {n} /\ n \notin DOMAIN events /\ n # None
      /\ \A r \in DOMAIN events : events'[r] = events[r]
      /\ events'[n].closed = None
  <2>1. /\ DOMAIN Started(ch) = DOMAIN events \cup {n} /\ n \notin DOMAIN events
        /\ \A r \in DOMAIN events : Started(ch)[r] = events[r]
        /\ Started(ch)[n] = [ch |-> ch, window |-> logWindow, gen |-> line.heard,
                             center |-> grid.center, closed |-> None, parent |-> None,
                             result |-> None]
        /\ Len(events) \in Nat
    BY <1>2, <1>4, StartedTypes
  <2>2. n # None
    BY <1>2, <2>1 DEF None
  <2> QED
    BY <1>5, <2>1, <2>2
<1>7. line'.s = line.s \ {ch} /\ line'.e = line.e
  <2>1. PICK l : l = [line EXCEPT !.s = @ \ {ch}]
    OBVIOUS
  <2>2. l \in Unreplayed /\ l.s = line.s \ {ch} /\ l.e = line.e
    BY <1>3, <2>1, LineLess DEF Unreplayed
  <2> QED
    BY <1>5, <2>1, <2>2, RestFields
<1>8. a.at = "open" /\ line.s \subseteq a.open /\ line.e \cap a.open = {}
  BY <1>4 DEF Footing, Placed
<1>9. openRows \in [Channels -> {None} \cup DOMAIN events]
  BY DEF Types, RowTypes
<1>10. openRows'[ch] = n /\ \A c \in Channels \ {ch} : openRows'[c] = openRows[c]
  BY <1>4, <1>5, <1>9
<1>11. Now(a)' = Now(a) \cup {ch} /\ ch \notin Now(a) /\ Now(a) \subseteq Channels
  <2>1. Now(a) \subseteq Channels
    BY AwaitingRows DEF Footing
  <2> QED
    BY <1>4, <1>7, <1>8, <2>1 DEF Now
<1>12. openRows[ch] = None
  BY <1>4, <1>8, <1>11 DEF Footing, Rows
<1>13. \A r \in DOMAIN events' : events'[r].closed \in {None, events'[r].gen}
  BY <1>6 DEF Mirrored
<1>14. ASSUME "crash" \notin may, NEW r \in DOMAIN events', events'[r].closed = None
       PROVE  \E c \in Channels : openRows'[c] = r
  <2>1. CASE r = n
    BY <1>4, <1>10, <2>1
  <2>2. CASE r # n
    <3>1. r \in DOMAIN events /\ events[r].closed = None
      BY <1>6, <1>14, <2>2
    <3>2. PICK c \in Channels : openRows[c] = r
      BY <1>14, <3>1 DEF Mirrored
    <3>3. r # None
      BY <3>1, LenProperties DEF None, Types, RowTypes
    <3> QED
      BY <1>10, <1>12, <3>2, <3>3
  <2> QED
    BY <2>1, <2>2
<1>15. "crash" \notin may => \A c \in Now(a)' : openRows'[c] # None
  BY <1>6, <1>10, <1>11 DEF Mirrored
<1> QED
  BY <1>5, <1>8, <1>13, <1>14, <1>15 DEF Mirrored

LEMMA EndMirrored ==
  ASSUME Types, NEW a \in Heard, Footing(a), Mirrored(a), UNCHANGED may, ReplayEnd
  PROVE  Mirrored(a)'
<1> SUFFICES ASSUME StatementsSucceed PROVE Mirrored(a)'
  BY DEF Mirrored, StatementsSucceed
<1>1. PICK ch : ch = Ending
  OBVIOUS
<1>2. /\ line.s = {} /\ line.e # {} /\ line \in Unreplayed /\ UNCHANGED may
      /\ openRows' = [openRows EXCEPT ![ch] = None]
      /\ line' = Rest([line EXCEPT !.e = @ \ {ch}])
  BY <1>1 DEF ReplayEnd, Types, LoopTypes
<1>3. /\ ch \in line.e /\ ch \in Channels
      /\ events' = ClosedIn({openRows[ch]} \ {None})
  BY <1>1, EndIsClosed
<1>4. PICK S : S = {openRows[ch]} \ {None}
  OBVIOUS
<1>5. /\ DOMAIN events' = DOMAIN events
      /\ \A r \in DOMAIN events : /\ events'[r].gen = events[r].gen
                                  /\ events'[r].closed = IF r \in S THEN grid.gen
                                                         ELSE events[r].closed
  BY <1>3, <1>4, ClosedInTypes
<1>6. line'.s = {} /\ line'.e = line.e \ {ch} /\ line # NoLine
  <2>1. PICK l : l = [line EXCEPT !.e = @ \ {ch}]
    OBVIOUS
  <2>2. l \in Unreplayed /\ l.s = line.s /\ l.e = line.e \ {ch}
    BY <1>2, <2>1, LineLess DEF Unreplayed
  <2> QED
    BY <1>2, <2>1, <2>2, RestFields, LineHas
<1>7. a.at = "open" /\ line.e \cap a.open = {} /\ grid.gen \in Nat /\ grid.gen # None
  BY <1>6 DEF Footing, Placed, Heard, Places, None
<1>8. Now(a)' = Now(a) \ {ch} /\ ch \in Now(a) /\ Now(a) \subseteq Channels
  <2>1. Now(a) \subseteq Channels
    BY AwaitingRows DEF Footing
  <2> QED
    BY <1>2, <1>3, <1>6, <1>7, <2>1 DEF Now
<1>9. \A r \in S : events[r].gen = grid.gen
  BY <1>4, <1>8 DEF Footing, Rows
<1>10. \A c \in Channels \ {ch} : openRows'[c] = openRows[c]
  BY <1>2, <1>3 DEF Types, RowTypes
<1>11. \A r \in DOMAIN events' : events'[r].closed \in {None, events'[r].gen}
  BY <1>5, <1>9 DEF Mirrored
<1>12. ASSUME "crash" \notin may, NEW r \in DOMAIN events', events'[r].closed = None
       PROVE  \E c \in Channels : openRows'[c] = r
  <2>1. r \in DOMAIN events /\ r \notin S /\ events[r].closed = None
    BY <1>5, <1>7, <1>12
  <2>2. PICK c \in Channels : openRows[c] = r
    BY <1>12, <2>1 DEF Mirrored
  <2>3. r # None
    BY <2>1, LenProperties DEF None, Types, RowTypes
  <2> QED
    BY <1>4, <1>10, <2>1, <2>2, <2>3
<1>13. "crash" \notin may => \A c \in Now(a)' : openRows'[c] # None
  BY <1>8, <1>10 DEF Mirrored
<1> QED
  BY <1>2, <1>7, <1>11, <1>12, <1>13 DEF Mirrored

LEMMA OrchestratorMirrored ==
  ASSUME Types, NEW a \in Heard, Footing(a), Mirrored(a), NEW a1, Hears(a, a1), Orchestrator
  PROVE  Mirrored(a1)'
<1>1. UNCHANGED may
  BY DEF Orchestrator
<1> SUFFICES ASSUME StatementsSucceed PROVE Mirrored(a1)'
  BY <1>1 DEF Mirrored, StatementsSucceed
<1>2. ASSUME out' = out, UNCHANGED <<line, openRows>>,
             UNCHANGED events \/ (Kept /\ \A r \in DOMAIN events : events'[r].closed = events[r].closed)
      PROVE  Mirrored(a1)'
  <2>1. a1 = a /\ Now(a)' = Now(a)
    BY <1>2, SaysNothing DEF Now
  <2> QED
    BY <1>1, <1>2, <2>1, SameMirrored DEF Kept
<1>3. ASSUME NEW k \in {"tuned", "linearity", "window", "stall", "eof", "__eof__"}, Takes(k),
             UNCHANGED <<events, openRows, line>>
      PROVE  Mirrored(a1)'
  <2>1. PICK m \in Lines : /\ m.t = k /\ LineFits(may, a, m) /\ a1 = LineNext(a, m)
                           /\ a1 \in Heard /\ line = NoLine
    BY <1>3, TakenIs
  <2> QED
    BY <1>1, <1>3, <2>1, LineMirrored
<1>4. CASE OpenWindow \/ PumpOn \/ DwellOver \/ StopSeen \/ WaitTimesOut
           \/ SendStop \/ Reap \/ PutNone \/ EndRun
  <2>1. out' = out /\ UNCHANGED <<events, openRows, line>>
    BY <1>4 DEF OpenWindow, PumpOn, DwellOver, StopSeen, WaitTimesOut, SendStop, Reap, PutNone,
                EndRun, Goes, engineVars, dbVars
  <2> QED
    BY <1>2, <2>1
<1>5. CASE Pumped \/ CollectLast
  <2>1. out' = out /\ UNCHANGED <<openRows, line>> /\ Collect
    BY <1>5 DEF Pumped, CollectLast, engineVars
  <2> QED
    BY <1>2, <2>1, CollectKept, CollectTypes
<1>6. CASE Replay
  <2>1. out' = out
    BY <1>6 DEF Replay, ReplayStart, ReplayDue, ReplayLast, ReplayEnd, ReplayUnchanged, engineVars
  <2>2. a1 = a
    BY <2>1, SaysNothing
  <2>3. CASE ReplayStart
    BY <1>1, <2>2, <2>3, StartMirrored
  <2>4. CASE ReplayEnd
    BY <1>1, <2>2, <2>4, EndMirrored
  <2>5. CASE ReplayDue \/ ReplayLast
    <3>1. line.s = {} /\ line \in Unreplayed /\ openRows' = openRows
      BY <2>5 DEF ReplayDue, ReplayLast, Types, LoopTypes
    <3>2. line'.s = {} /\ line'.e = line.e
      <4>1. CASE ReplayDue
        <5>1. PICK d \in line.due : line' = Rest([line EXCEPT !.due = @ \ {d}])
          BY <4>1 DEF ReplayDue
        <5>2. PICK l : l = [line EXCEPT !.due = @ \ {d}]
          OBVIOUS
        <5>3. l \in Unreplayed /\ l.s = line.s /\ l.e = line.e
          BY <3>1, <5>2, LineLess DEF Unreplayed
        <5> QED
          BY <3>1, <5>1, <5>2, <5>3, RestFields
      <4>2. CASE ReplayLast
        <5>1. PICK d \in line.fin : line' = Rest([line EXCEPT !.fin = @ \ {d}])
          BY <4>2 DEF ReplayLast
        <5>2. PICK l : l = [line EXCEPT !.fin = @ \ {d}]
          OBVIOUS
        <5>3. l \in Unreplayed /\ l.s = line.s /\ l.e = line.e
          BY <3>1, <5>2, LineLess DEF Unreplayed
        <5> QED
          BY <3>1, <5>1, <5>2, <5>3, RestFields
      <4> QED
        BY <2>5, <4>1, <4>2
    <3>3. Now(a)' = Now(a)
      BY <3>1, <3>2 DEF Now
    <3>4. Kept /\ \A r \in DOMAIN events : events'[r].closed = events[r].closed
      BY <2>5, DecideKept
    <3> QED
      BY <1>1, <2>2, <3>1, <3>3, <3>4, SameMirrored DEF Kept
  <2> QED
    BY <1>6, <2>3, <2>4, <2>5 DEF Replay
<1>7. CASE OnTuned \/ OnLinearity \/ OnWindow
  <2>1. UNCHANGED <<events, openRows, line>>
        /\ \E k \in {"tuned", "linearity", "window"} : Takes(k)
    BY <1>7 DEF OnTuned, OnLinearity, OnWindow, loopVars, dbVars
  <2> QED
    BY <1>3, <2>1
<1>8. CASE OnClose
  <2>1. PICK m \in Lines : /\ m = Head(out) /\ LineFits(may, a, m) /\ a1 = LineNext(a, m)
                           /\ a1 \in Heard /\ line = NoLine
    BY <1>8, TakenIs DEF OnClose
  <2> QED
    BY <1>1, <1>8, <2>1, CloseMirrored
<1>9. CASE OnFrame
  <2>1. PICK m \in Lines : /\ m = Head(out) /\ m.t = "f" /\ LineFits(may, a, m)
                           /\ a1 = LineNext(a, m) /\ a1 \in Heard /\ line = NoLine
    BY <1>9, TakenIs DEF OnFrame
  <2>2. /\ UNCHANGED <<events, openRows>>
        /\ line' = [heard |-> m.heard, s |-> m.s, due |-> m.due, fin |-> m.fin, e |-> m.e]
    BY <1>9, <2>1 DEF OnFrame, dbVars
  <2> QED
    BY <1>1, <2>1, <2>2, LineMirrored
<1>10. ASSUME NEW k \in {"stall", "eof", "__eof__"}, EngineEnds(k) PROVE Mirrored(a1)'
  BY <1>3, <1>10 DEF EngineEnds, Goes, dbVars
<1>11. CASE DrainSkips
  BY <1>3, <1>11 DEF DrainSkips, loopVars, dbVars
<1>12. CASE DrainEnds
  <2>1. UNCHANGED <<events, openRows, line>>
    BY <1>12 DEF DrainEnds, Goes, dbVars
  <2> QED
    BY <1>2, <1>3, <1>12, <2>1 DEF DrainEnds
<1>13. CASE Handle
  BY <1>7, <1>8, <1>9, <1>10, <1>13 DEF Handle
<1>14. CASE Finish
  BY <1>4, <1>5, <1>11, <1>12, <1>14 DEF Finish
<1>15. ~StatementFails
  BY DEF StatementFails, FrameFails, CloseFails, WindowFails, CollectFails, Fails, StatementsSucceed
<1> QED
  BY <1>4, <1>5, <1>6, <1>13, <1>14, <1>15 DEF Orchestrator

-----------------------------------------------------------------------------
(* The invariant, and what follows from it. *)

(* What the orchestrator has handled accounts for what it is about to hear *)
(* and for what it has written; a process that died has had a statement    *)
(* fail.                                                                   *)
Followed ==
  /\ pc = "died" => ~StatementsSucceed
  /\ pc # "died" => \E a, b, t, u : /\ Chain(a, b, t, u) /\ Footing(a)
                                    /\ Awaited(a) /\ Logged(a) /\ Mirrored(a)

LEMMA DiedOfFailure ==
  ASSUME Orchestrator, pc # "died", pc' = "died"
  PROVE  ~StatementsSucceed'
<1>1. CASE StatementFails
  BY <1>1 DEF StatementFails, FrameFails, CloseFails, WindowFails, CollectFails, Fails,
              StatementsSucceed, Orchestrator
<1>2. CASE ~StatementFails
  <2>1. ~Handle
    BY DEF Handle, OnTuned, OnLinearity, OnWindow, OnFrame, OnClose, EngineEnds, Goes, loopVars
  <2>2. ~Finish
    BY DEF Finish, SendStop, DrainSkips, DrainEnds, Reap, PutNone, CollectLast, EndRun, Goes, loopVars
  <2> QED
    BY <1>2, <2>1, <2>2 DEF Orchestrator, OpenWindow, Replay, ReplayStart, ReplayDue, ReplayLast,
         ReplayEnd, ReplayUnchanged, Pumped, PumpOn, DwellOver, StopSeen, WaitTimesOut, Goes
<1> QED
  BY <1>1, <1>2

LEMMA FollowedNext ==
  Types /\ AppliedInv /\ Sound /\ Followed /\ [Next]_vars => Sound' /\ Followed'
<1> SUFFICES ASSUME Types, AppliedInv, Sound, Followed, [Next]_vars PROVE Sound' /\ Followed'
  OBVIOUS
<1>1. CASE pc = "died"
  <2>1. UNCHANGED <<may, pc, events, jobs, results, worker>>
    <3>1. line = NoLine /\ worker.state = "dead"
      BY <1>1 DEF AppliedInv
    <3>2. ~Worker /\ ~WorkerDies /\ ~Sigint
      BY <1>1, <3>1 DEF Worker, TakeJob, FinishJob, WorkerDies, Sigint
    <3>3. ~Replay
      BY <3>1 DEF Replay, ReplayStart, ReplayDue, ReplayLast, ReplayEnd, NoLine
    <3>4. ~Handle /\ ~Finish /\ ~StatementFails
      BY <1>1 DEF Handle, OnTuned, OnLinearity, OnWindow, OnFrame, OnClose, Handling, EngineEnds,
                  Finish, SendStop, DrainSkips, DrainEnds, Reap, PutNone, CollectLast, EndRun, Goes,
                  StatementFails, FrameFails, CloseFails, WindowFails, CollectFails, Fails
    <3>5. ~Orchestrator
      BY <1>1, <3>3, <3>4 DEF Orchestrator, OpenWindow, Pumped, PumpOn, DwellOver, StopSeen,
                              WaitTimesOut, Goes
    <3> QED
      BY <3>2, <3>5 DEF Next, Engine, Stopped, vars, loopVars, analysisVars, dbVars
  <2>2. Fewer
    BY <2>1, SameRows
  <2> QED
    BY <1>1, <2>1, <2>2, FewerSound DEF Followed, StatementsSucceed
<1>2. CASE pc # "died"
  <2>1. PICK a, b, t, u : /\ Chain(a, b, t, u) /\ Footing(a)
                          /\ Awaited(a) /\ Logged(a) /\ Mirrored(a)
    BY <1>2 DEF Followed
  <2>2. a \in Heard /\ EngineTypes /\ visits \in Nat
    BY <2>1 DEF Chain, Spoken, Types, LoopTypes
  <2>3. CASE Orchestrator
    <3>1. PICK a1 : Hears(a, a1) /\ Chain(a1, b, t, u)'
      BY <2>1, <2>3, OrchestratorChain
    <3>2. Sound' /\ (pc' # "died" => Footing(a1)')
      BY <2>1, <2>2, <2>3, <3>1, OrchestratorFooting
    <3>3. Awaited(a1)' /\ Logged(a1)' /\ Mirrored(a1)'
      BY <2>1, <2>2, <2>3, <3>1, OrchestratorAwaited, OrchestratorLogged, OrchestratorMirrored
         DEF Footing
    <3>4. pc' = "died" => ~StatementsSucceed'
      BY <1>2, <2>3, DiedOfFailure
    <3> QED
      BY <3>1, <3>2, <3>3, <3>4 DEF Followed
  <2>4. ASSUME Fewer, UNCHANGED <<may, pc, line, openRows, grid, windowId, logWindow, visits, events, windows, ended>>,
               EngineNext \/ UNCHANGED engineVars
        PROVE  Sound' /\ Followed'
    <3>1. \E b1, t1, u1 : Chain(a, b1, t1, u1)'
      BY <2>1, <2>2, <2>4, EngineChain, SameChain
    <3>2. Sound' /\ Footing(a)'
      BY <2>1, <2>2, <2>4, RestingFooting
    <3>3. Awaited(a)'
      <4>1. CASE EngineNext
        BY <2>1, <2>4, <4>1, EngineAwaited
      <4>2. CASE UNCHANGED engineVars
        BY <2>1, <2>4, <4>2 DEF Awaited, Silent, StatementsSucceed, engineVars
      <4> QED
        BY <2>4, <4>1, <4>2
    <3>4. Kept
      BY <2>4, SameKept
    <3>5. Logged(a)'
      BY <2>1, <2>4, <3>4, SameLogged
    <3>6. Mirrored(a)'
      <4>1. Now(a)' = Now(a)
        BY <2>4 DEF Now
      <4> QED
        BY <2>1, <2>4, <4>1, SameMirrored
    <3> QED
      BY <1>2, <2>4, <3>1, <3>2, <3>3, <3>5, <3>6 DEF Followed
  <2>5. CASE Engine \/ Sigint \/ UNCHANGED vars
    <3>1. UNCHANGED <<events, jobs, results, worker>>
      BY <2>5 DEF Engine, Sigint, vars, analysisVars, dbVars
    <3>2. Fewer
      BY <3>1, SameRows
    <3>3. UNCHANGED <<may, pc, line, openRows, grid, windowId, logWindow, visits, windows, ended>>
      BY <2>5 DEF Engine, Sigint, vars, loopVars, dbVars
    <3>4. EngineNext \/ UNCHANGED engineVars
      BY <2>5 DEF Engine, Sigint, vars
    <3> QED
      BY <2>4, <3>1, <3>2, <3>3, <3>4
  <2>6. CASE Worker \/ WorkerDies
    <3>1. Fewer /\ UNCHANGED <<may, engineVars, loopVars>>
      BY <2>6, WorkerFewer
    <3>2. UNCHANGED <<events, windows, ended>>
      BY <2>6 DEF Worker, TakeJob, FinishJob, WorkerDies, WorkerUnchanged, dbVars
    <3> QED
      BY <2>4, <3>1, <3>2 DEF loopVars
  <2> QED
    BY <2>3, <2>5, <2>6 DEF Next, Stopped
<1> QED
  BY <1>1, <1>2

LEMMA FollowedInit == Init => Types /\ AppliedInv /\ Sound /\ Followed
<1> SUFFICES ASSUME Init PROVE Types /\ AppliedInv /\ Sound /\ Followed
  OBVIOUS
<1>1. Types
  BY InitTypes
<1>2. AppliedInv
  BY LenProperties DEF Init, AppliedInv, Closing, Sent, IdleWorker, NoNone, NoneLast
<1>3. DOMAIN events = {} /\ DOMAIN jobs = {} /\ DOMAIN results = {} /\ worker.job = NoJob
  BY DEF Init, IdleWorker
<1>4. Sound
  BY <1>3 DEF Sound, Work
<1>5. PICK a, t : /\ Chain(a, a, t, t) /\ a \in Heard /\ a.at = "none" /\ a.tunes = 0
                  /\ a.open = {} /\ a.pend = {}
  BY InitChain
<1>6. line.s = {} /\ line.e = {} /\ line.due = {} /\ line.fin = {} /\ line = NoLine /\ pc = "open"
  BY DEF Init, NoLine
<1>7. Wanted = {} /\ Now(a) = {}
  BY <1>5, <1>6 DEF Wanted, Decided, Now
<1>8. Placed(a)
  BY <1>5, <1>6 DEF Placed, Closing
<1>9. Deciding(a)
  BY <1>5, <1>6, <1>7 DEF Deciding
<1>10. Rows(a)
  BY <1>5, <1>6, <1>7 DEF Rows, Init, NoRows
<1>11. Awaited(a)
  BY <1>5 DEF Awaited, Init
<1>12. Logged(a)
  <2>1. Len(windows) = 0 /\ DOMAIN windows = {}
    BY DEF Init
  <2>2. Book(a)
    BY <1>5, <2>1 DEF Book, Visited, Init
  <2> QED
    BY <1>3, <2>1, <2>2 DEF Logged, RowsLogged, Probed
<1>13. Mirrored(a)
  BY <1>3, <1>5, <1>7 DEF Mirrored
<1>14. pc # "died"
  BY <1>6
<1> QED
  BY <1>1, <1>2, <1>4, <1>5, <1>8, <1>9, <1>10, <1>11, <1>12, <1>13, <1>14 DEF Followed, Footing

LEMMA Invariance == Spec => [](Types /\ AppliedInv /\ Sound /\ Followed)
BY FollowedInit, FollowedNext, NextTypes, AppliedNext, PTL DEF Spec

(* A job carries the generation of the row it is for until it is done, and *)
(* so does its result, whatever has failed or crashed on the way: no row's *)
(* result was computed from another window's samples.                      *)
THEOREM AnalysisOfOwnWindow == Spec => []JobsMatchRows
<1>1. Sound => JobsMatchRows
  BY DEF Sound, JobsMatchRows
<1> QED
  BY <1>1, Invariance, PTL

(* Once mark_harmonic() has given a row a parent, no job is queued for it, *)
(* none is in hand and no result is on its way: the engine decides each    *)
(* event once, and the row it is replayed into is that event's alone.      *)
THEOREM HarmonicsStayMarked == Spec => []HarmonicsNotAnalysed
<1>1. Sound => HarmonicsNotAnalysed
  <2> SUFFICES ASSUME Sound, NEW r \in DOMAIN events, events[r].parent # None
               PROVE  /\ events[r].result = None
                      /\ \A j \in Work : j.row # r
                      /\ events[r].parent # r
                      /\ events[events[r].parent].window = events[r].window
    BY DEF HarmonicsNotAnalysed
  <2>1. Harmonic(r)
    BY DEF Sound
  <2> QED
    BY <2>1 DEF Harmonic, RowsOf
<1> QED
  BY <1>1, Invariance, PTL

(* As long as no statement fails, and even if the engine is killed, every  *)
(* event row names the coverage window whose generation and centre it was  *)
(* heard with.                                                             *)
THEOREM RowsNameTheirWindow == Spec => [](StatementsSucceed => RowsLogged)
<1>1. Followed => (StatementsSucceed => RowsLogged)
  BY DEF Followed, Logged
<1> QED
  BY <1>1, Invariance, PTL

(* So does the linearity verdict: it is in the row of the window that was  *)
(* probed, and it is there before the window is pumped, unless the engine  *)
(* was killed between the two.                                             *)
THEOREM WindowIsLogged == Spec => []("crash" \notin may => WindowOfEvent)
<1>1. AppliedInv /\ Followed => ("crash" \notin may => WindowOfEvent)
  <2> SUFFICES ASSUME AppliedInv, Followed, "crash" \notin may, StatementsSucceed
               PROVE  /\ \A r \in DOMAIN events :
                           /\ events[r].window = events[r].gen
                           /\ events[r].window \in DOMAIN windows
                           /\ windows[events[r].window].center = events[r].center
                      /\ \A w \in DOMAIN windows :
                           \/ windows[w].linear = windows[w].center
                           \/ windows[w].linear = None /\ (FromFile \/ (pc = "window" /\ w = windowId))
    BY DEF WindowOfEvent
  <2>1. PICK a : Book(a) /\ RowsLogged /\ Probed(a)
    BY DEF Followed, Logged
  <2>2. \A w \in DOMAIN windows :
          \/ windows[w].linear = windows[w].center
          \/ windows[w].linear = None /\ (FromFile \/ (pc = "window" /\ w = windowId))
    BY <2>1 DEF Probed, Book, Visited, AppliedInv
  <2> QED
    BY <2>1, <2>2 DEF RowsLogged
<1> QED
  BY <1>1, Invariance, PTL

(* The channels open after the first lines, as the rows will show them. *)
OpenAfter(f) ==
  [i \in 0 .. Len(out) |->
     IF i = 0 THEN ({c \in Channels : openRows[c] # None} \cup line.s) \ line.e
     ELSE CASE out[i].t = "f" -> (f[i-1] \cup out[i].s) \ out[i].e
            [] out[i].t = "close" -> {}
            [] OTHER -> f[i-1]]

LEMMA OpenAfterIs ==
  ASSUME Len(out) \in Nat, NEW g, g = OpenAfter(g), NEW f, f = OpenAfter(f)
  PROVE  \A i \in 0 .. Len(out) : f[i] = g[i]
<1> DEFINE S == {i \in 0 .. Len(out) : f[i] # g[i]}
<1>1. CASE S = {}
  BY <1>1
<1>2. CASE S # {}
  <2>1. PICK n \in S : \A m \in S : n <= m
    <3>1. S \in SUBSET Nat
      OBVIOUS
    <3> HIDE DEF S
    <3> QED
      BY <1>2, <3>1, LeastNatural
  <2>2. n \in 0 .. Len(out) /\ f[n] # g[n]
    BY <2>1
  <2>3. CASE n = 0
    BY <2>2, <2>3 DEF OpenAfter
  <2>4. CASE n # 0
    <3>1. n - 1 \in 0 .. Len(out) /\ n - 1 \notin S
      BY <2>1, <2>2, <2>4
    <3>2. f[n-1] = g[n-1]
      BY <3>1
    <3>3. f[n] = (CASE out[n].t = "f" -> (f[n-1] \cup out[n].s) \ out[n].e
                    [] out[n].t = "close" -> {}
                    [] OTHER -> f[n-1])
      BY <2>2, <2>4 DEF OpenAfter
    <3>4. g[n] = (CASE out[n].t = "f" -> (g[n-1] \cup out[n].s) \ out[n].e
                    [] out[n].t = "close" -> {}
                    [] OTHER -> g[n-1])
      BY <2>2, <2>4 DEF OpenAfter
    <3> QED
      BY <2>2, <3>2, <3>3, <3>4
  <2> QED
    BY <2>3, <2>4
<1> QED
  BY <1>1, <1>2

LEMMA LineOpens ==
  ASSUME NEW x \in Heard, NEW m \in Lines, LineFits(may, x, m), "crash" \notin may
  PROVE  LineNext(x, m).open = CASE m.t = "f" -> (x.open \cup m.s) \ m.e
                                 [] m.t = "close" -> {}
                                 [] OTHER -> x.open
<1>1. CASE m.t = "f"
  BY <1>1, LineNextIs
<1>2. CASE m.t = "close"
  BY <1>2, LineNextIs
<1>3. CASE m.t \in {"tuned", "linearity", "window"}
  BY <1>3, LineNextIs
<1>4. CASE m.t \in {"stall", "eof", "__eof__"}
  <2>1. x.at \in {"none", "left"}
    BY <1>4 DEF LineFits
  <2>2. x.open = {}
    BY <2>1 DEF Heard
  <2> QED
    BY <1>4, <2>2, LineNextIs
<1> QED
  BY <1>1, <1>2, <1>3, <1>4, LineFields

(* Each line leaves the rows with what its sender had open after it. *)
LEMMA OpenAfterLines ==
  ASSUME Types, NEW a, NEW b, Spoken(a, b), "crash" \notin may,
         a.open = ({c \in Channels : openRows[c] # None} \cup line.s) \ line.e
  PROVE  \E g : g = OpenAfter(g) /\ g[Len(out)] = b.open
<1>1. Len(out) \in Nat
  BY LenProperties DEF Types, EngineTypes
<1>2. PICK h : /\ h = [i \in 0 .. Len(out) |-> h[i]]
               /\ h[0] = a /\ h[Len(out)] = b
               /\ \A i \in 1 .. Len(out) : <<h[i-1], out[i], h[i]>> \in Says(may)
  BY DEF Spoken, Leads
<1>3. PICK g : g = [i \in 0 .. Len(out) |-> h[i].open]
  OBVIOUS
<1>4. ASSUME NEW i \in 0 .. Len(out), i # 0
      PROVE  g[i] = CASE out[i].t = "f" -> (g[i-1] \cup out[i].s) \ out[i].e
                      [] out[i].t = "close" -> {}
                      [] OTHER -> g[i-1]
  <2>1. i \in 1 .. Len(out) /\ i - 1 \in 0 .. Len(out)
    BY <1>1, <1>4
  <2>2. <<h[i-1], out[i], h[i]>> \in Says(may)
    BY <1>2, <2>1
  <2>3. /\ h[i-1] \in Heard /\ out[i] \in Lines /\ LineFits(may, h[i-1], out[i])
        /\ h[i] = LineNext(h[i-1], out[i])
    BY <2>2, SaysIs
  <2>4. h[i].open = CASE out[i].t = "f" -> (h[i-1].open \cup out[i].s) \ out[i].e
                      [] out[i].t = "close" -> {}
                      [] OTHER -> h[i-1].open
    <3>1. PICK x \in Heard, m \in Lines : x = h[i-1] /\ m = out[i]
      BY <2>3
    <3>2. h[i].open = LineNext(x, m).open /\ LineFits(may, x, m)
      BY <2>3, <3>1
    <3>3. h[i].open = CASE m.t = "f" -> (x.open \cup m.s) \ m.e
                        [] m.t = "close" -> {}
                        [] OTHER -> x.open
      BY <3>2, LineOpens
    <3> QED
      BY <3>1, <3>3
  <2>5. g[i] = h[i].open /\ g[i-1] = h[i-1].open
    BY <1>3, <2>1
  <2> QED
    BY <2>4, <2>5
<1>5. g[0] = ({c \in Channels : openRows[c] # None} \cup line.s) \ line.e
  BY <1>1, <1>2, <1>3
<1>6. \A i \in 0 .. Len(out) : g[i] = OpenAfter(g)[i]
  BY <1>4, <1>5 DEF OpenAfter
<1>7. g = OpenAfter(g)
  BY <1>3, <1>6 DEF OpenAfter
<1>8. g[Len(out)] = b.open
  BY <1>1, <1>2, <1>3
<1> QED
  BY <1>7, <1>8

(* What ends between two places is ended by a line said between them.      *)
LEMMA HeardToEnd ==
  ASSUME Types, NEW a, NEW b, Spoken(a, b), "crash" \notin may, NEW c \in a.open, c \notin b.open
  PROVE  \E i \in DOMAIN out : out[i].t = "close" \/ (out[i].t = "f" /\ c \in out[i].e)
<1>1. Len(out) \in Nat /\ DOMAIN out = 1 .. Len(out)
  BY LenProperties DEF Types, EngineTypes
<1>2. PICK h : /\ h = [i \in 0 .. Len(out) |-> h[i]]
               /\ h[0] = a /\ h[Len(out)] = b
               /\ \A i \in 1 .. Len(out) : <<h[i-1], out[i], h[i]>> \in Says(may)
  BY DEF Spoken, Leads
<1>3. PICK S : S = {i \in 0 .. Len(out) : c \notin h[i].open}
  OBVIOUS
<1>4. S \subseteq 0 .. Len(out) /\ S \subseteq Nat
  <2> SUFFICES ASSUME NEW k \in S PROVE k \in 0 .. Len(out) /\ k \in Nat
    OBVIOUS
  <2> QED
    BY <1>1, <1>3
<1>5. Len(out) \in S /\ 0 \notin S
  BY <1>1, <1>2, <1>3
<1>6. PICK n \in S : \A k \in S : n <= k
  BY <1>5, <1>4, LeastNatural
<1>7. n \in 1 .. Len(out) /\ n - 1 \in 0 .. Len(out) /\ n - 1 \notin S
  BY <1>1, <1>3, <1>5, <1>6, <1>4
<1>8. <<h[n-1], out[n], h[n]>> \in Says(may) /\ c \in h[n-1].open /\ c \notin h[n].open
  BY <1>2, <1>3, <1>7
<1>9. /\ h[n-1] \in Heard /\ out[n] \in Lines /\ LineFits(may, h[n-1], out[n])
      /\ h[n] = LineNext(h[n-1], out[n])
  BY <1>8, SaysIs
<1>10. PICK x \in Heard, m \in Lines : x = h[n-1] /\ m = out[n]
  BY <1>9
<1>11. /\ LineFits(may, x, m) /\ c \in x.open /\ c \notin LineNext(x, m).open
  BY <1>8, <1>9, <1>10
<1>12. m.t = "close" \/ (m.t = "f" /\ c \in m.e)
  BY <1>11, LineOpens
<1> QED
  BY <1>1, <1>7, <1>10, <1>12

(* Past Reap, the engine has gone. *)
Reaped == pc \in Closing \ {"reap"} => engine = "gone"

LEMMA ReapedNext == Types /\ Reaped /\ [Next]_vars => Reaped'
<1> SUFFICES ASSUME Types, Reaped, [Next]_vars PROVE Reaped'
  OBVIOUS
<1> USE DEF Reaped, Closing
<1>1. CASE Engine
  <2>1. pc' = pc /\ EngineNext
    BY <1>1 DEF Engine, loopVars
  <2>2. engine = "gone" => ~EngineNext
    BY DEF EngineNext, Reader, Send, AtCommands, CommandOpen, CommandOpenFails, CommandStop, AtRead,
           ReadSamples, ReadOverflow, ReadNothing, ReadEof, Dsp, Receives, DspTuned, DspWindow,
           DspClose, DspFrame, DspFrameUnheard, DspOverflow, DspReturns, DspStop, DspStall, DspEof,
           Exit, Crash
  <2> QED
    BY <2>1, <2>2
<1>2. CASE Worker \/ WorkerDies \/ Sigint \/ UNCHANGED vars
  BY <1>2 DEF Worker, TakeJob, FinishJob, WorkerDies, WorkerUnchanged, Sigint, vars, engineVars, loopVars
<1>3. CASE Orchestrator
  <2>1. CASE OpenWindow \/ Pumped \/ PumpOn \/ DwellOver \/ StopSeen \/ WaitTimesOut
    BY <2>1 DEF OpenWindow, Pumped, PumpOn, DwellOver, StopSeen, WaitTimesOut, Goes, engineVars
  <2>2. CASE Handle
    BY <2>2 DEF Handle, OnTuned, OnLinearity, OnWindow, OnFrame, OnClose, EngineEnds, Goes, Takes,
                loopVars, Handling
  <2>3. CASE Replay
    BY <2>3 DEF Replay, ReplayStart, ReplayDue, ReplayLast, ReplayEnd, ReplayUnchanged, engineVars
  <2>4. CASE StatementFails
    BY <2>4 DEF StatementFails, FrameFails, CloseFails, WindowFails, CollectFails, Fails
  <2>5. CASE Finish
    BY <2>5 DEF Finish, SendStop, DrainSkips, DrainEnds, Reap, PutNone, CollectLast, EndRun, Goes,
                Takes, loopVars, engineVars
  <2> QED
    BY <1>3, <2>1, <2>2, <2>3, <2>4, <2>5 DEF Orchestrator
<1> QED
  BY <1>1, <1>2, <1>3 DEF Next, Stopped

(* An event is closed with the clock of its own window, by its own end or  *)
(* by the window's, and when the run has ended no window is open.  finish()*)
(* may leave lines unread that the engine has said: only there can be the  *)
(* end of an event that has none.  Not so when a statement fails or the    *)
(* engine is killed: then rows stay open whatever is said.                 *)
THEOREM EventsAreClosed ==
  Spec => [](StatementsSucceed /\ "crash" \notin may => ClosedInOwnWindow)
<1>1. Types /\ AppliedInv /\ Followed /\ Reaped =>
        (StatementsSucceed /\ "crash" \notin may => ClosedInOwnWindow)
  <2> SUFFICES ASSUME Types, AppliedInv, Followed, Reaped, StatementsSucceed, "crash" \notin may
               PROVE  ClosedInOwnWindow
    OBVIOUS
  <2>1. PICK a, b, t, u : /\ Chain(a, b, t, u) /\ Footing(a) /\ Logged(a) /\ Mirrored(a)
    BY DEF Followed
  <2>2. a \in Heard /\ b \in Heard /\ Spoken(a, b)
    BY <2>1 DEF Chain, Spoken
  <2>3. ASSUME ended, NEW r \in DOMAIN events, events[r].closed = None
        PROVE  \E i \in DOMAIN out : \/ out[i].t = "close"
                                     \/ out[i].t = "f" /\ events[r].ch \in out[i].e
    <3>1. pc = "done" /\ line = NoLine /\ engine = "gone"
      BY <2>3 DEF AppliedInv, Reaped, Closing
    <3>2. Now(a) = a.open
      BY <3>1, LineHas DEF Now, Types, LoopTypes
    <3>3. PICK c \in Channels : openRows[c] = r
      BY <2>1, <2>3 DEF Mirrored
    <3>4. r # None
      BY <2>3, LenProperties DEF None, Types, RowTypes
    <3>5. a.at # "left"
      BY <2>1, <3>3, <3>4 DEF Mirrored
    <3>6. c \in a.open
      BY <2>1, <3>2, <3>3, <3>4, <3>5 DEF Footing, Rows
    <3>7. events[r].ch = c
      BY <2>1, <3>2, <3>3, <3>4, <3>6 DEF Footing, Rows
    <3>8. b.open = {}
      BY <2>2, <3>1 DEF Spoken, Heard
    <3> QED
      BY <2>2, <3>6, <3>7, <3>8, HeardToEnd
  <2>4. ASSUME ended PROVE \A w \in DOMAIN windows : windows[w].closed
    <3>1. windowId = None /\ \A w \in DOMAIN windows : w # windowId => windows[w].closed
      BY <2>1, <2>4 DEF Logged, Book
    <3>2. \A w \in DOMAIN windows : w # None
      BY LenProperties DEF None, Types, LoopTypes
    <3> QED
      BY <3>1, <3>2
  <2>5. \A r \in DOMAIN events : events[r].closed \in {None, events[r].gen}
    BY <2>1 DEF Mirrored
  <2> QED
    BY <2>3, <2>4, <2>5 DEF ClosedInOwnWindow
<1>2. Init => Reaped
  BY DEF Init, Reaped, Closing
<1> QED
  BY <1>1, <1>2, ReapedNext, Invariance, PTL DEF Spec

(* Nothing the engine starts or ends is lost on the way to the database,   *)
(* and nothing is applied twice: the rows, the rest of the line in hand    *)
(* and the lines still to come add up to what the engine has open.         *)
THEOREM NothingIsLost ==
  Spec => [](StatementsSucceed /\ "crash" \notin may => ReplayMirrorsEngine)
<1>1. Types /\ Followed => (StatementsSucceed /\ "crash" \notin may => ReplayMirrorsEngine)
  <2> SUFFICES ASSUME Types, Followed, StatementsSucceed, "crash" \notin may
               PROVE  ReplayMirrorsEngine
    OBVIOUS
  <2>1. PICK a, b, t, u : /\ Chain(a, b, t, u) /\ Footing(a) /\ Mirrored(a)
    BY DEF Followed
  <2>2. Spoken(a, b) /\ a \in Heard /\ open = b.open
    BY <2>1 DEF Chain, Spoken
  <2>3. {c \in Channels : openRows[c] # None} = Now(a)
    <3>1. Now(a) \subseteq Channels
      BY <2>1, <2>2, AwaitingRows DEF Footing
    <3>2. \A c \in Now(a) : openRows[c] # None
      BY <2>1 DEF Mirrored
    <3>3. \A c \in Channels \ Now(a) : openRows[c] = None
      <4>1. CASE a.at = "left"
        BY <2>1, <4>1 DEF Mirrored
      <4>2. CASE a.at # "left"
        BY <2>1, <4>2 DEF Footing, Rows
      <4> QED
        BY <4>1, <4>2
    <3> QED
      BY <3>1, <3>2, <3>3
  <2>4. a.open = ({c \in Channels : openRows[c] # None} \cup line.s) \ line.e
    BY <2>1, <2>3 DEF Now, Footing, Placed
  <2>5. PICK g : g = OpenAfter(g) /\ g[Len(out)] = open
    BY <2>1, <2>2, <2>4, OpenAfterLines
  <2>6. Len(out) \in Nat
    BY LenProperties DEF Types, EngineTypes
  <2> DEFINE After == CHOOSE f : f = OpenAfter(f)
  <2>7. After = OpenAfter(After)
    BY <2>5
  <2>8. After[Len(out)] = open
    <3> HIDE DEF After
    <3> QED
      BY <2>5, <2>6, <2>7, OpenAfterIs
  <2>9. ReplayMirrorsEngine <=> (pc # "done" => After[Len(out)] = open)
    BY DEF ReplayMirrorsEngine, OpenAfter
  <2> QED
    BY <2>8, <2>9
<1> QED
  BY <1>1, Invariance, PTL

-----------------------------------------------------------------------------
(* Only the windows of the profile are asked for, announced and recorded.  *)

AskedCommands  == {m \in Commands : m.cmd = "open" => m.center \in Centres}
AskedMessages == {m \in Messages : m.k = "tuned" => m.center \in Centres}
AskedLines    == {m \in Lines : m.t = "tuned" => m.center \in Centres}

Asked == /\ cmds \in Seq(AskedCommands)
         /\ todo \in Seq(AskedMessages) /\ toDsp \in Seq(AskedMessages)
         /\ out \in Seq(AskedLines)

LEMMA CentresAre == Centres \subseteq Nat
<1>1. \A i \in DOMAIN Windows : Windows[i] \in Nat
  BY LoopConstants, ElementOfSeq, LenProperties
<1> QED
  BY <1>1 DEF Centres

LEMMA PlainIsAsked ==
  \A k \in {"close", "frame", "overflow", "stop", "stall", "eof"} : Plain(k) \in AskedMessages
<1> SUFFICES ASSUME NEW k \in {"close", "frame", "overflow", "stop", "stall", "eof"}
             PROVE  Plain(k) \in AskedMessages
  OBVIOUS
<1>1. Plain(k) \in Messages /\ Plain(k).k = k
  BY MadeOfMessages DEF Plain, ToDsp
<1> QED
  BY <1>1 DEF AskedMessages

LEMMA ReaderAsked ==
  ASSUME Asked, Reader
  PROVE  Asked'
<1> USE DEF Asked
<1>1. CASE Send
  <2>1. Head(todo) \in AskedMessages /\ Tail(todo) \in Seq(AskedMessages)
    BY <1>1, QueueTail DEF Send
  <2>2. Append(toDsp, Head(todo)) \in Seq(AskedMessages)
    BY <2>1, AppendProperties
  <2> QED
    BY <1>1, <2>1, <2>2 DEF Send
<1>2. ASSUME NEW why \in {"stop", "stall", "eof"}, Leave(why)
      PROVE  todo' \in Seq(AskedMessages)
  BY <1>2, PlainIsAsked, ShortSeqs DEF Leave
<1>3. cmds # <<>> => Head(cmds) \in AskedCommands /\ Tail(cmds) \in Seq(AskedCommands)
  BY QueueTail
<1>4. CASE CommandOpen
  <2>1. Head(cmds).center \in Centres
    BY <1>3, <1>4 DEF CommandOpen, AskedCommands
  <2>2. \A k \in {"tuned", "window"} : ToDsp(k, Head(cmds).center) \in AskedMessages
    <3> SUFFICES ASSUME NEW k \in {"tuned", "window"}
                 PROVE  ToDsp(k, Head(cmds).center) \in AskedMessages
      OBVIOUS
    <3>1. ToDsp(k, Head(cmds).center) \in Messages
      BY <2>1, CentresAre, MadeOfMessages
    <3>2. ToDsp(k, Head(cmds).center).center = Head(cmds).center
      BY DEF ToDsp
    <3> QED
      BY <2>1, <3>1, <3>2 DEF AskedMessages
  <2>3. OpenMessages(Head(cmds).center) \in Seq(AskedMessages)
    BY <2>2, PlainIsAsked, ShortSeqs DEF OpenMessages
  <2> QED
    BY <1>3, <1>4, <2>3 DEF CommandOpen
<1>5. CASE CommandOpenFails
  <2>1. <<Plain("close")>> \in Seq(AskedMessages)
    BY PlainIsAsked, ShortSeqs
  <2> QED
    BY <1>3, <1>5, <2>1 DEF CommandOpenFails
<1>6. CASE CommandStop
  BY <1>2, <1>3, <1>6 DEF CommandStop
<1>7. CASE ReadSamples \/ ReadOverflow
  <2>1. <<Plain("frame")>> \in Seq(AskedMessages) /\ <<Plain("overflow")>> \in Seq(AskedMessages)
    BY PlainIsAsked, ShortSeqs
  <2> QED
    BY <1>7, <2>1 DEF ReadSamples, ReadOverflow
<1>8. CASE ReadNothing
  BY <1>2, <1>8 DEF ReadNothing
<1>9. CASE ReadEof
  BY <1>2, <1>9 DEF ReadEof
<1> QED
  BY <1>1, <1>4, <1>5, <1>6, <1>7, <1>8, <1>9 DEF Reader

LEMMA LineIsAsked ==
  ASSUME NEW m \in Lines, m.t # "tuned"
  PROVE  m \in AskedLines
BY DEF AskedLines

LEMMA DspAsked ==
  ASSUME EngineTypes, Asked, Dsp
  PROVE  Asked'
<1> USE DEF Asked
<1>1. ASSUME NEW k, Receives(k)
      PROVE  Head(toDsp) \in AskedMessages /\ toDsp' \in Seq(AskedMessages) /\ Head(toDsp).k = k
  BY <1>1, QueueTail DEF Receives
<1>2. \A t \in {"close", "stall", "eof"} : Line(t) \in AskedLines
  <2> SUFFICES ASSUME NEW t \in {"close", "stall", "eof"} PROVE Line(t) \in AskedLines
    OBVIOUS
  <2>1. Line(t) \in Lines /\ Line(t).t = t
    BY MadeOfLines DEF Line
  <2> QED
    BY <2>1, LineIsAsked
<1>3. UNCHANGED <<cmds, todo>> /\ toDsp' \in Seq(AskedMessages)
  BY <1>1 DEF Dsp, DspTuned, DspWindow, DspClose, DspFrame, DspFrameUnheard, DspOverflow,
              DspReturns, DspStop, DspStall, DspEof, ReaderUnchanged
<1>4. CASE DspTuned
  <2>1. Head(toDsp) \in AskedMessages /\ Head(toDsp).k = "tuned"
    BY <1>1, <1>4 DEF DspTuned
  <2>2. Head(toDsp).center \in Centres
    BY <2>1 DEF AskedMessages
  <2>3. Tuned(Head(toDsp).center) \in Lines
    BY <2>2, CentresAre, MadeOfLines
  <2>4. Tuned(Head(toDsp).center).center = Head(toDsp).center
    BY DEF Tuned
  <2>5. Tuned(Head(toDsp).center) \in AskedLines
    BY <2>2, <2>3, <2>4 DEF AskedLines
  <2>6. out' \in Seq(AskedLines)
    BY <1>4, <2>5, AppendProperties DEF DspTuned
  <2> QED
    BY <1>3, <2>6
<1>5. CASE DspWindow
  <2> DEFINE c == Head(toDsp).center
             g == ring.gen + 1
             first == IF FromFile THEN out ELSE Append(out, Linearity(c))
  <2>1. Head(toDsp) \in Messages /\ Head(toDsp).k = "window"
    BY <1>1, <1>5 DEF DspWindow, AskedMessages
  <2>2. c \in Nat /\ g \in Nat
    BY <2>1, MessageFields DEF EngineTypes
  <2>3. out' = first \o <<Window(c, g)>>
    BY <1>5 DEF DspWindow
  <2> HIDE DEF c, g
  <2>4. Linearity(c) \in AskedLines
    <3>1. Linearity(c) \in Lines /\ Linearity(c).t = "linearity"
      BY <2>2, MadeOfLines DEF Linearity
    <3> QED
      BY <3>1, LineIsAsked
  <2>5. Window(c, g) \in AskedLines
    <3>1. Window(c, g) \in Lines /\ Window(c, g).t = "window"
      BY <2>2, MadeOfLines DEF Window
    <3> QED
      BY <3>1, LineIsAsked
  <2>6. first \in Seq(AskedLines)
    BY <2>4, AppendProperties
  <2> HIDE DEF first
  <2>7. out' \in Seq(AskedLines)
    BY <2>3, <2>5, <2>6, ConcatProperties, ShortSeqs
  <2> QED
    BY <1>3, <2>7
<1>6. CASE DspClose
  <2>1. Append(out, Line("close")) \in Seq(AskedLines)
    BY <1>2, AppendProperties
  <2> QED
    BY <1>3, <1>6, <2>1 DEF DspClose
<1>7. CASE DspFrame
  <2>1. PICK started, finished, due, fin : FrameSays(started, finished, due, fin)
    BY <1>7, DspFrameSays
  <2>2. PICK m : m = Frame(ring.gen, started, due, fin, finished)
    OBVIOUS
  <2>3. m \in Lines /\ m.t = "f"
    BY <2>1, <2>2, MadeOfLines DEF FrameSays, FrameMoves, FrameDecides, EngineTypes, Frame
  <2>4. out' = out \/ out' = Append(out, m)
    BY <2>1, <2>2 DEF FrameSays
  <2>5. m \in AskedLines
    BY <2>3, LineIsAsked
  <2>6. Append(out, m) \in Seq(AskedLines)
    BY <2>5, AppendProperties
  <2> QED
    BY <1>3, <2>4, <2>6
<1>8. CASE DspFrameUnheard \/ DspOverflow
  BY <1>3, <1>8 DEF DspFrameUnheard, DspOverflow
<1>9. ASSUME NEW k, NEW lines \in Seq(AskedLines), DspReturns(k, lines)
      PROVE  out' \in Seq(AskedLines)
  BY <1>9, ConcatProperties DEF DspReturns
<1>10. <<>> \in Seq(AskedLines) /\ <<Line("stall")>> \in Seq(AskedLines)
       /\ <<Line("eof")>> \in Seq(AskedLines)
  BY <1>2, ShortSeqs
<1> QED
  BY <1>3, <1>4, <1>5, <1>6, <1>7, <1>8, <1>9, <1>10 DEF Dsp, DspStop, DspStall, DspEof

LEMMA EngineAsked ==
  ASSUME EngineTypes, Asked, EngineNext
  PROVE  Asked'
<1>1. Line("__eof__") \in AskedLines
  <2>1. Line("__eof__") \in Lines /\ Line("__eof__").t = "__eof__"
    BY MadeOfLines DEF Line
  <2> QED
    BY <2>1, LineIsAsked
<1>2. CASE Exit
  <2>1. Append(out, Line("__eof__")) \in Seq(AskedLines)
    BY <1>1, AppendProperties DEF Asked
  <2> QED
    BY <1>2, <2>1 DEF Exit, Asked
<1>3. CASE Crash
  <2>1. PICK k \in 0 .. Len(out) : out' = Append(SubSeq(out, 1, k), Line("__eof__"))
    BY <1>3 DEF Crash
  <2>2. \A i \in 1 .. k : out[i] \in AskedLines
    BY ElementOfSeq, LenProperties DEF Asked
  <2>3. SubSeq(out, 1, k) \in Seq(AskedLines)
    BY <2>2, SubSeqProperties, LenProperties DEF Asked
  <2>4. out' \in Seq(AskedLines)
    BY <1>1, <2>1, <2>3, AppendProperties
  <2> QED
    BY <1>3, <2>4 DEF Crash, Asked
<1> QED
  BY <1>2, <1>3, ReaderAsked, DspAsked DEF EngineNext

LEMMA OrchestratorAsked ==
  ASSUME Types, Asked, Orchestrator
  PROVE  Asked'
<1>1. CmdStop \in AskedCommands /\ \A c \in Centres : CmdOpen(c) \in AskedCommands
  <2>1. CmdStop \in AskedCommands
    BY CommandsAre DEF CmdStop, AskedCommands
  <2>2. ASSUME NEW c \in Centres PROVE CmdOpen(c) \in AskedCommands
    <3>1. CmdOpen(c) \in Commands /\ CmdOpen(c).center = c
      BY CentresAre, CommandsAre DEF CmdOpen
    <3> QED
      BY <3>1 DEF AskedCommands
  <2> QED
    BY <2>1, <2>2
<1>2. ASSUME NEW m \in AskedCommands, cmds' = (IF engine = "gone" THEN cmds ELSE Append(cmds, m)),
             UNCHANGED <<todo, toDsp, out>>
      PROVE  Asked'
  <2>1. Append(cmds, m) \in Seq(AskedCommands)
    BY AppendProperties DEF Asked
  <2> QED
    BY <1>2, <2>1 DEF Asked
<1>3. ASSUME NEW k, Takes(k) PROVE Asked'
  <2>1. Tail(out) \in Seq(AskedLines)
    BY <1>3, QueueTail DEF Takes, Asked
  <2> QED
    BY <1>3, <2>1 DEF Takes, Asked
<1>4. CASE UNCHANGED <<cmds, todo, toDsp, out>>
  BY <1>4 DEF Asked
<1>5. CASE OpenWindow
  <2>1. Windows[(visits % Len(Windows)) + 1] \in Centres
    BY WindowIsCentre DEF Types, LoopTypes, Centres
  <2>2. CmdOpen(Windows[(visits % Len(Windows)) + 1]) \in AskedCommands
    BY <1>1, <2>1
  <2> QED
    BY <1>2, <1>5, <2>2 DEF OpenWindow
<1>6. CASE Handle
  BY <1>3, <1>6 DEF Handle, OnTuned, OnLinearity, OnWindow, OnFrame, OnClose, EngineEnds
<1>7. CASE Replay \/ Pumped \/ PumpOn \/ DwellOver \/ StopSeen \/ WaitTimesOut
  BY <1>4, <1>7 DEF Replay, ReplayStart, ReplayDue, ReplayLast, ReplayEnd, ReplayUnchanged, Pumped,
                    PumpOn, DwellOver, StopSeen, WaitTimesOut, engineVars
<1>8. CASE StatementFails
  BY <1>3, <1>4, <1>8 DEF StatementFails, FrameFails, CloseFails, WindowFails, CollectFails, engineVars
<1>9. CASE Finish
  <2>1. CASE PutNone \/ CollectLast \/ EndRun \/ Reap
    BY <1>4, <2>1 DEF PutNone, CollectLast, EndRun, Reap, engineVars
  <2>2. CASE SendStop
    BY <1>1, <1>2, <2>2 DEF SendStop
  <2>3. CASE DrainSkips
    BY <1>3, <2>3 DEF DrainSkips
  <2>4. CASE DrainEnds
    BY <1>1, <1>2, <1>3, <2>4 DEF DrainEnds
  <2> QED
    BY <1>9, <2>1, <2>2, <2>3, <2>4 DEF Finish
<1> QED
  BY <1>5, <1>6, <1>7, <1>8, <1>9 DEF Orchestrator

LEMMA AskedNext == Types /\ Asked /\ [Next]_vars => Asked'
<1> SUFFICES ASSUME Types, Asked, [Next]_vars PROVE Asked'
  OBVIOUS
<1>1. CASE Engine
  BY <1>1, EngineAsked DEF Engine, Types
<1>2. CASE Worker \/ WorkerDies \/ Sigint \/ UNCHANGED vars
  BY <1>2 DEF Worker, TakeJob, FinishJob, WorkerDies, WorkerUnchanged, Sigint, vars, engineVars, Asked
<1> QED
  BY <1>1, <1>2, OrchestratorAsked DEF Next, Stopped

LEMMA AskedInit == Init => Asked
BY DEF Init, EngineInit, Asked

-----------------------------------------------------------------------------
(* The open row of coverage_windows is the last one.                       *)

Registered == windowId # None => windowId = Len(windows) /\ ~windows[windowId].closed

LEMMA RegisteredNext == Types /\ Registered /\ [Next]_vars => Registered'
<1> SUFFICES ASSUME Types, Registered, [Next]_vars PROVE Registered'
  OBVIOUS
<1>1. CASE UNCHANGED <<windowId, windows>>
  BY <1>1 DEF Registered
<1>2. /\ windows \in Seq(WindowRow) /\ Len(windows) \in Nat /\ DOMAIN windows = 1 .. Len(windows)
      /\ windowId \in {None} \cup DOMAIN windows /\ Types'
  BY NextTypes, LenProperties DEF Types, LoopTypes
<1>3. CASE OnTuned /\ pc = "tuned"
  <2>1. PICK w : w = [center |-> center', closed |-> FALSE, linear |-> None]
    OBVIOUS
  <2>2. windows' = Append(windows, w) /\ windowId' = Len(windows') /\ ~w.closed
    BY <1>3, <2>1 DEF OnTuned
  <2>3. w \in WindowRow
    <3>1. windows' = Append(windows, w) /\ windows' \in Seq(WindowRow)
      BY <1>2, <2>2 DEF Types, LoopTypes
    <3>2. center' \in Nat
      <4>1. Head(out) \in Lines /\ Head(out).t = "tuned"
        BY <1>3, TakesTypes DEF OnTuned, Types, Orchestrator, Takes, EngineTypes
      <4> QED
        BY <1>3, <4>1, LineFields DEF OnTuned
    <3> QED
      BY <2>1, <3>2 DEF WindowRow
  <2>4. Len(windows') = Len(windows) + 1 /\ windows'[Len(windows) + 1] = w
    BY <1>2, <2>2, <2>3, AppendProperties
  <2> QED
    BY <2>2, <2>4 DEF Registered
<1>4. CASE OnLinearity /\ windowId # None
  <2>1. windowId' = windowId /\ windows' = [windows EXCEPT ![windowId].linear = Head(out).center]
    BY <1>4 DEF OnLinearity, loopVars
  <2>2. windowId \in DOMAIN windows /\ windows[windowId] \in WindowRow
    BY <1>2, <1>4, ElementOfSeq
  <2>3. windows'[windowId].closed = windows[windowId].closed
    BY <2>1, <2>2 DEF WindowRow
  <2>4. Len(windows') = Len(windows)
    <3>1. DOMAIN windows' = DOMAIN windows /\ windows' \in Seq(WindowRow)
      BY <1>2, <2>1 DEF Types, LoopTypes
    <3>2. DOMAIN windows' = 1 .. Len(windows') /\ Len(windows') \in Nat
      BY <3>1, LenProperties
    <3> QED
      BY <1>2, <3>1, <3>2
  <2> QED
    BY <2>1, <2>3, <2>4 DEF Registered
<1>5. CASE windowId' = None
  BY <1>5 DEF Registered
<1>6. CASE Orchestrator
  <2>1. CASE Handle
    <3>1. CASE OnTuned /\ pc # "tuned"
      BY <1>1, <3>1 DEF OnTuned
    <3>2. CASE OnLinearity /\ windowId = None
      BY <1>1, <3>2 DEF OnLinearity, loopVars
    <3>3. CASE OnWindow \/ OnFrame
      BY <1>1, <3>3 DEF OnWindow, OnFrame, dbVars
    <3>4. CASE OnClose
      BY <1>5, <3>4 DEF OnClose
    <3>5. CASE \E t \in {"stall", "eof", "__eof__"} : EngineEnds(t)
      BY <1>1, <3>5 DEF EngineEnds, Goes, dbVars
    <3> QED
      BY <1>3, <1>4, <2>1, <3>1, <3>2, <3>3, <3>4, <3>5 DEF Handle
  <2>2. CASE OpenWindow \/ Replay \/ Pumped \/ PumpOn \/ DwellOver \/ StopSeen \/ WaitTimesOut
    BY <1>1, <2>2 DEF OpenWindow, Replay, ReplayStart, ReplayDue, ReplayLast, ReplayEnd,
         ReplayUnchanged, Pumped, PumpOn, DwellOver, StopSeen, WaitTimesOut, Goes, dbVars
  <2>3. CASE StatementFails
    BY <1>1, <2>3 DEF StatementFails, FrameFails, CloseFails, WindowFails, CollectFails, Fails
  <2>4. CASE Finish
    <3>1. CASE EndRun
      BY <1>5, <3>1 DEF EndRun
    <3> QED
      BY <1>1, <2>4, <3>1 DEF Finish, SendStop, DrainSkips, DrainEnds, Reap, PutNone, CollectLast,
                              Goes, loopVars, dbVars
  <2> QED
    BY <1>6, <2>1, <2>2, <2>3, <2>4 DEF Orchestrator
<1>7. CASE Engine \/ Worker \/ WorkerDies \/ Sigint \/ UNCHANGED vars
  BY <1>1, <1>7 DEF Engine, Worker, TakeJob, FinishJob, WorkerDies, WorkerUnchanged, Sigint, vars,
                    loopVars, dbVars
<1> QED
  BY <1>6, <1>7 DEF Next, Stopped

-----------------------------------------------------------------------------
(* Each row is analysed once. *)

Once ==
  /\ \A i, k \in DOMAIN jobs : jobs[i] # NoJob /\ jobs[k].row = jobs[i].row => k = i
  /\ \A i \in DOMAIN jobs : jobs[i] # NoJob => jobs[i].row # worker.job.row
  /\ \A i \in DOMAIN jobs, k \in DOMAIN results : jobs[i] # NoJob => results[k].row # jobs[i].row
  /\ worker.job # NoJob => \A k \in DOMAIN results : results[k].row # worker.job.row
  /\ \A r \in RowsOf \cap DOMAIN events : events[r].result = None

(* What the rows of jobs and results are: those of events, or of no job.   *)
LEMMA JobRows ==
  ASSUME Types, Sound
  PROVE  /\ \A j \in Work : j.row \in DOMAIN events \/ (j = NoJob /\ j.row = None)
         /\ \A i \in DOMAIN results : results[i].row \in DOMAIN events
         /\ None \notin DOMAIN events
         /\ jobs \in Seq(Jobs) /\ Len(jobs) \in Nat /\ DOMAIN jobs = 1 .. Len(jobs)
         /\ results \in Seq(Answers) /\ Len(results) \in Nat /\ DOMAIN results = 1 .. Len(results)
         /\ worker.job \in Work /\ \A i \in DOMAIN jobs : jobs[i] \in Work
<1>1. /\ jobs \in Seq(Jobs) /\ Len(jobs) \in Nat /\ DOMAIN jobs = 1 .. Len(jobs)
      /\ results \in Seq(Answers) /\ Len(results) \in Nat /\ DOMAIN results = 1 .. Len(results)
  BY LenProperties DEF Types, RowTypes
<1>2. None \notin DOMAIN events
  BY LenProperties DEF Types, RowTypes, None
<1>3. NoJob.row = None
  BY DEF NoJob
<1> QED
  BY <1>1, <1>2, <1>3 DEF Sound, Work

(* Rows are written but for their results, and jobs or answers dropped. *)
LEMMA FewerOnce ==
  ASSUME Types, Types', Sound, Once, jobs' = jobs, worker'.job \in {worker.job, NoJob},
         \A i \in DOMAIN results' : \E k \in DOMAIN results : results'[i] = results[k],
         DOMAIN events \subseteq DOMAIN events',
         \A r \in DOMAIN events : r \in RowsOf' => events'[r].result = events[r].result
  PROVE  Once'
<1>1. /\ \A j \in Work : j.row \in DOMAIN events \/ (j = NoJob /\ j.row = None)
      /\ \A i \in DOMAIN results : results[i].row \in DOMAIN events
      /\ None \notin DOMAIN events
      /\ worker.job \in Work /\ \A i \in DOMAIN jobs : jobs[i] \in Work
  BY JobRows
<1>2. NoJob.row = None
  BY DEF NoJob
<1>3. Work' \subseteq Work \cup {NoJob}
  BY DEF Work
<1>4. ASSUME NEW r \in RowsOf' \cap DOMAIN events' PROVE events'[r].result = None
  <2>1. (\E j \in Work' : r = j.row) \/ (\E i \in DOMAIN results' : r = results'[i].row)
    BY <1>4 DEF RowsOf
  <2>2. CASE r \in DOMAIN events
    <3>1. r \in RowsOf
      BY <1>1, <1>2, <1>3, <2>1, <2>2 DEF RowsOf
    <3> QED
      BY <1>4, <2>2, <3>1 DEF Once
  <2>3. r # None
    BY <1>4, LenProperties DEF Types, RowTypes, None
  <2> QED
    BY <1>1, <1>2, <1>3, <2>1, <2>2, <2>3
<1> QED
  BY <1>1, <1>2, <1>4 DEF Once

LEMMA CollectOnce ==
  ASSUME Types, Types', Sound, Once, Collect, UNCHANGED <<jobs, worker>>
  PROVE  Once'
<1>1. /\ \A j \in Work : j.row \in DOMAIN events \/ (j = NoJob /\ j.row = None)
      /\ None \notin DOMAIN events
  BY JobRows
<1>2. /\ results' = <<>> /\ DOMAIN results' = {} /\ DOMAIN events' = DOMAIN events
      /\ \A r \in DOMAIN events :
           \/ events'[r].result = events[r].result
           \/ \E i \in DOMAIN results : results[i].row = r
  BY CollectTypes
<1>3. \A j \in Work : j # NoJob => \A k \in DOMAIN results : results[k].row # j.row
  BY DEF Work, Once
<1>4. ASSUME NEW r \in DOMAIN events, r \in RowsOf'
      PROVE  events'[r].result = events[r].result
  <2>1. PICK j \in Work : r = j.row
    BY <1>2, <1>4 DEF RowsOf, Work
  <2>2. j # NoJob
    BY <1>1, <2>1 DEF NoJob
  <2> QED
    BY <1>2, <1>3, <2>1, <2>2
<1>5. \A i \in DOMAIN results' : \E k \in DOMAIN results : results'[i] = results[k]
  BY <1>2
<1> QED
  BY <1>2, <1>4, <1>5, FewerOnce

(* One more job, for a row that had none. *)
LEMMA QueuedOnce ==
  ASSUME Types, Types', Sound, Once, NEW j \in Jobs, jobs' = Append(jobs, j),
         UNCHANGED <<worker, results, events>>,
         j = NoJob \/ (j.row \in DOMAIN events /\ Undecided(j.row))
  PROVE  Once'
<1>1. /\ \A i \in Work : i.row \in DOMAIN events \/ (i = NoJob /\ i.row = None)
      /\ None \notin DOMAIN events
      /\ jobs \in Seq(Jobs) /\ Len(jobs) \in Nat /\ DOMAIN jobs = 1 .. Len(jobs)
      /\ worker.job \in Work /\ \A i \in DOMAIN jobs : jobs[i] \in Work
  BY JobRows
<1>2. /\ DOMAIN jobs' = 1 .. Len(jobs) + 1 /\ jobs'[Len(jobs) + 1] = j
      /\ \A i \in DOMAIN jobs : jobs'[i] = jobs[i]
  BY <1>1, AppendProperties, LenProperties
<1>3. \A i \in DOMAIN jobs' : i \in DOMAIN jobs \/ (i = Len(jobs) + 1 /\ i \notin DOMAIN jobs)
  BY <1>1, <1>2
<1>4. NoJob.row = None
  BY DEF NoJob
<1>5. j # NoJob => /\ \A i \in DOMAIN jobs : jobs[i].row # j.row
                   /\ worker.job.row # j.row
                   /\ \A k \in DOMAIN results : results[k].row # j.row
  BY <1>1 DEF Undecided, RowsOf
<1>6. \A i, k \in DOMAIN jobs' : jobs'[i] # NoJob /\ jobs'[k].row = jobs'[i].row => k = i
  <2> SUFFICES ASSUME NEW i \in DOMAIN jobs', NEW k \in DOMAIN jobs',
                      jobs'[i] # NoJob, jobs'[k].row = jobs'[i].row
               PROVE  k = i
    OBVIOUS
  <2>1. CASE i \in DOMAIN jobs /\ k \in DOMAIN jobs
    BY <1>2, <2>1 DEF Once
  <2>2. CASE i \in DOMAIN jobs /\ k \notin DOMAIN jobs
    <3>1. j.row = jobs[i].row /\ jobs[i] # NoJob
      BY <1>2, <1>3, <2>2
    <3>2. j # NoJob
      BY <1>1, <1>4, <2>2, <3>1
    <3> QED
      BY <1>5, <2>2, <3>1, <3>2
  <2>3. CASE i \notin DOMAIN jobs /\ k \in DOMAIN jobs
    BY <1>2, <1>3, <1>5, <2>3
  <2> QED
    BY <1>3, <2>1, <2>2, <2>3
<1>7. \A i \in DOMAIN jobs' : jobs'[i] # NoJob => jobs'[i].row # worker'.job.row
  BY <1>2, <1>3, <1>5 DEF Once
<1>8. \A i \in DOMAIN jobs', k \in DOMAIN results : jobs'[i] # NoJob => results[k].row # jobs'[i].row
  BY <1>2, <1>3, <1>5 DEF Once
<1>9. ASSUME NEW r \in RowsOf' \cap DOMAIN events PROVE events[r].result = None
  <2>1. CASE r \in RowsOf
    BY <1>9, <2>1 DEF Once
  <2>2. CASE r \notin RowsOf
    <3>1. PICK w \in Work' : r = w.row
      BY <1>9, <2>2 DEF RowsOf
    <3>2. w \notin Work
      BY <2>2, <3>1 DEF RowsOf
    <3>3. w = j
      BY <1>2, <1>3, <3>1, <3>2 DEF Work
    <3> QED
      BY <1>1, <1>4, <1>9, <3>1, <3>3 DEF Undecided
  <2> QED
    BY <2>1, <2>2
<1> QED
  BY <1>6, <1>7, <1>8, <1>9 DEF Once

LEMMA WorkerOnce ==
  ASSUME Types, Types', Sound, AppliedInv, Once, Worker \/ WorkerDies
  PROVE  Once'
<1>1. /\ \A i \in Work : i.row \in DOMAIN events \/ (i = NoJob /\ i.row = None)
      /\ None \notin DOMAIN events
      /\ jobs \in Seq(Jobs) /\ Len(jobs) \in Nat /\ DOMAIN jobs = 1 .. Len(jobs)
      /\ results \in Seq(Answers) /\ Len(results) \in Nat /\ DOMAIN results = 1 .. Len(results)
      /\ worker.job \in Work /\ \A i \in DOMAIN jobs : jobs[i] \in Work
      /\ worker.job \in Jobs
  BY JobRows DEF Types, RowTypes
<1>2. NoJob.row = None /\ UNCHANGED events
  BY DEF NoJob, Worker, TakeJob, FinishJob, WorkerDies, WorkerUnchanged, dbVars
<1>3. ASSUME NEW j \in Jobs, NEW why \in {"ok", "failed", "aged"}, results' = Append(results, Result(j, why))
      PROVE  \A k \in DOMAIN results' : \/ k \in DOMAIN results /\ results'[k] = results[k]
                                        \/ results'[k].row = j.row
  <2>1. PICK x : x = Result(j, why)
    OBVIOUS
  <2>2. x.row = j.row /\ x \in Answers
    BY <1>3, <2>1 DEF Result, Answers, Jobs, NoJob
  <2>3. /\ DOMAIN results' = 1 .. Len(results) + 1 /\ results'[Len(results) + 1] = x
        /\ \A i \in 1 .. Len(results) : results'[i] = results[i]
    BY <1>1, <1>3, <2>1, <2>2, AppendProperties, LenProperties
  <2> QED
    BY <1>1, <2>2, <2>3
<1>4. CASE WorkerDies
  <2>1. jobs' = jobs /\ results' = results /\ worker'.job = NoJob
    BY <1>4 DEF WorkerDies
  <2> QED
    BY <1>2, <2>1, FewerOnce
<1>5. CASE FinishJob
  <2>1. PICK why \in {"ok", "failed", "aged"} : results' = Append(results, Result(worker.job, why))
    BY <1>5 DEF FinishJob
  <2>2. worker.job # NoJob /\ worker'.job = NoJob /\ jobs' = jobs
    BY <1>5 DEF FinishJob, AppliedInv, IdleWorker
  <2>3. \A k \in DOMAIN results' : \/ k \in DOMAIN results /\ results'[k] = results[k]
                                   \/ results'[k].row = worker.job.row
    BY <1>1, <1>3, <2>1
  <2>4. \A i, k \in DOMAIN jobs' : jobs'[i] # NoJob /\ jobs'[k].row = jobs'[i].row => k = i
    BY <2>2 DEF Once
  <2>5. \A i \in DOMAIN jobs' : jobs'[i] # NoJob => jobs'[i].row # worker'.job.row
    BY <1>1, <1>2, <2>2
  <2>6. \A i \in DOMAIN jobs', k \in DOMAIN results' : jobs'[i] # NoJob => results'[k].row # jobs'[i].row
    BY <2>2, <2>3 DEF Once
  <2>7. RowsOf' \subseteq RowsOf \cup {None}
    <3>1. Work' \subseteq Work \cup {NoJob}
      BY <2>2 DEF Work
    <3>2. \A j \in Work' : j.row \in RowsOf \cup {None}
      BY <1>2, <3>1 DEF RowsOf
    <3>3. \A k \in DOMAIN results' : results'[k].row \in RowsOf
      BY <1>1, <2>3 DEF RowsOf
    <3> QED
      BY <3>2, <3>3 DEF RowsOf
  <2>8. \A r \in RowsOf' \cap DOMAIN events' : events'[r].result = None
    BY <1>1, <1>2, <2>7 DEF Once
  <2> QED
    BY <2>2, <2>4, <2>5, <2>6, <2>8 DEF Once
<1>6. CASE TakeJob
  <2>1. PICK head : head = Head(jobs)
    OBVIOUS
  <2>2. /\ head \in Jobs /\ 1 \in DOMAIN jobs /\ jobs[1] = head
        /\ DOMAIN jobs' \subseteq Nat
        /\ \A i \in DOMAIN jobs' : i + 1 \in DOMAIN jobs /\ jobs'[i] = jobs[i+1] /\ i + 1 # 1
    <3>1. jobs # <<>> /\ jobs' = Tail(jobs)
      BY <1>6 DEF TakeJob
    <3>2. head \in Jobs /\ head = jobs[1] /\ Len(jobs) # 0
          /\ DOMAIN jobs' = 1 .. Len(jobs) - 1
          /\ \A i \in 1 .. Len(jobs) - 1 : jobs'[i] = jobs[i+1]
      BY <1>1, <2>1, <3>1, HeadTailProperties, LenProperties, EmptySeq, ElementOfSeq
    <3> QED
      BY <1>1, <3>1, <3>2
  <2>3. \A i, k \in DOMAIN jobs' : jobs'[i] # NoJob /\ jobs'[k].row = jobs'[i].row => k = i
    <3> SUFFICES ASSUME NEW i \in DOMAIN jobs', NEW k \in DOMAIN jobs',
                        jobs'[i] # NoJob, jobs'[k].row = jobs'[i].row
                 PROVE  k = i
      OBVIOUS
    <3>1. PICK x \in DOMAIN jobs : x = i + 1 /\ jobs'[i] = jobs[x]
      BY <2>2
    <3>2. PICK y \in DOMAIN jobs : y = k + 1 /\ jobs'[k] = jobs[y]
      BY <2>2
    <3>3. x = y
      BY <3>1, <3>2 DEF Once
    <3> QED
      BY <2>2, <3>1, <3>2, <3>3
  <2>4. \A i \in DOMAIN jobs' : jobs'[i] # NoJob =>
          /\ jobs'[i].row # head.row
          /\ jobs'[i].row # worker.job.row
    <3> SUFFICES ASSUME NEW i \in DOMAIN jobs', jobs'[i] # NoJob
                 PROVE  jobs'[i].row # head.row /\ jobs'[i].row # worker.job.row
      OBVIOUS
    <3>1. PICK x \in DOMAIN jobs : x # 1 /\ jobs'[i] = jobs[x]
      BY <2>2
    <3> QED
      BY <2>2, <3>1 DEF Once
  <2>5. \A i \in DOMAIN jobs', k \in DOMAIN results : jobs'[i] # NoJob => results[k].row # jobs'[i].row
    <3> SUFFICES ASSUME NEW i \in DOMAIN jobs', jobs'[i] # NoJob, NEW k \in DOMAIN results
                 PROVE  results[k].row # jobs'[i].row
      OBVIOUS
    <3>1. PICK x \in DOMAIN jobs : jobs'[i] = jobs[x]
      BY <2>2
    <3> QED
      BY <3>1 DEF Once
  <2>6. {jobs'[i] : i \in DOMAIN jobs'} \subseteq Work /\ head \in Work
    BY <2>2 DEF Work
  <2>7. CASE head = NoJob /\ results' = results /\ worker' = [worker EXCEPT !.state = "exited"]
    <3>1. worker'.job = worker.job
      BY <2>7 DEF Types, RowTypes
    <3>2. Work' \subseteq Work
      BY <1>1, <2>6, <3>1 DEF Work
    <3>3. RowsOf' \subseteq RowsOf
      BY <2>7, <3>2 DEF RowsOf
    <3> QED
      BY <1>2, <2>3, <2>4, <2>5, <2>7, <3>1, <3>3 DEF Once
  <2>8. CASE /\ head # NoJob /\ results' = results
             /\ worker' = [state |-> "copying", job |-> head]
    <3>1. worker'.job = head
      BY <2>8
    <3>2. Work' \subseteq Work
      BY <2>6, <3>1 DEF Work
    <3>3. RowsOf' \subseteq RowsOf
      BY <2>8, <3>2 DEF RowsOf
    <3>4. \A k \in DOMAIN results : results[k].row # head.row
      BY <2>2, <2>8 DEF Once
    <3> QED
      BY <1>2, <2>3, <2>4, <2>5, <2>8, <3>1, <3>3, <3>4 DEF Once
  <2>9. CASE /\ head # NoJob /\ worker' = worker
             /\ results' = Append(results, Result(head, "aged"))
    <3>1. \A k \in DOMAIN results' : \/ k \in DOMAIN results /\ results'[k] = results[k]
                                     \/ results'[k].row = head.row
      BY <1>3, <2>2, <2>9
    <3>2. Work' \subseteq Work
      BY <1>1, <2>6, <2>9 DEF Work
    <3>3. RowsOf' \subseteq RowsOf
      BY <2>6, <3>1, <3>2 DEF RowsOf
    <3>4. head.row # worker.job.row
      BY <2>2, <2>9 DEF Once
    <3>5. worker.job # NoJob => \A k \in DOMAIN results' : results'[k].row # worker.job.row
      BY <3>1, <3>4 DEF Once
    <3>6. \A i \in DOMAIN jobs', k \in DOMAIN results' : jobs'[i] # NoJob => results'[k].row # jobs'[i].row
      BY <2>4, <2>5, <3>1
    <3> QED
      BY <1>2, <2>3, <2>4, <2>9, <3>3, <3>5, <3>6 DEF Once
  <2> QED
    BY <1>6, <2>1, <2>7, <2>8, <2>9, TakeJobCases
<1> QED
  BY <1>4, <1>5, <1>6 DEF Worker

LEMMA SameOnce ==
  ASSUME Once, UNCHANGED <<jobs, results, events>>, worker'.job = worker.job
  PROVE  Once'
<1>1. Work' = Work
  BY DEF Work
<1>2. RowsOf' = RowsOf
  BY <1>1 DEF RowsOf
<1> QED
  BY <1>2 DEF Once

LEMMA ClosedOnce ==
  ASSUME Types, Types', Sound, Once, NEW S, events' = ClosedIn(S), UNCHANGED <<jobs, worker, results>>
  PROVE  Once'
<1>1. /\ DOMAIN events' = DOMAIN events
      /\ \A r \in DOMAIN events : events'[r].result = events[r].result
  BY ClosedInTypes
<1> QED
  BY <1>1, FewerOnce

LEMMA DecideOnce ==
  ASSUME Types, Types', Sound, Once, NEW a \in Heard, Footing(a), line.s = {},
         NEW d \in line.due \cup line.fin, Decide(d), UNCHANGED <<worker, results>>
  PROVE  Once'
<1>1. d \in Decisions
  BY LineHas DEF Types, LoopTypes
<1>2. CASE UNCHANGED <<jobs, events>>
  BY <1>2, SameOnce
<1>3. CASE /\ d.k = "a" /\ openRows[d.ch] # None
           /\ jobs' = Append(jobs, JobOf(d)) /\ UNCHANGED events
  <2>1. PICK j : j = JobOf(d)
    OBVIOUS
  <2>2. j \in Jobs /\ j.row = openRows[d.ch]
    BY <1>1, <1>3, <2>1, JobOfTypes
  <2>3. openRows[d.ch] \in DOMAIN events /\ Undecided(openRows[d.ch])
    BY <1>3, DecidingRow
  <2>4. j.row \in DOMAIN events /\ Undecided(j.row)
    BY <2>2, <2>3
  <2> QED
    BY <1>3, <2>1, <2>2, <2>4, QueuedOnce
<1>4. CASE /\ openRows[d.ch] \in DOMAIN events /\ openRows[d.parent] \in DOMAIN events
           /\ events' = Marked(openRows[d.ch], openRows[d.parent])
           /\ UNCHANGED jobs
  <2>1. /\ DOMAIN events' = DOMAIN events
        /\ \A r \in DOMAIN events : events'[r].result = events[r].result
    BY <1>4, MarkedTypes
  <2> QED
    BY <1>4, <2>1, FewerOnce
<1> QED
  BY <1>1, <1>2, <1>3, <1>4, DecideCases

LEMMA ReplayOnce ==
  ASSUME Types, Types', Sound, Once, NEW a \in Heard, Footing(a), Replay
  PROVE  Once'
<1>1. UNCHANGED <<worker, results>>
  BY DEF Replay, ReplayStart, ReplayDue, ReplayLast, ReplayEnd, ReplayUnchanged
<1>2. CASE ReplayStart
  <2>1. PICK ch : ch = MinOf(line.s)
    OBVIOUS
  <2>2. line.s # {} /\ line.s \subseteq Channels
    BY <1>2, LineHas DEF ReplayStart, Types, LoopTypes
  <2>3. ch \in Channels
    BY <2>1, <2>2, MinOfChannels
  <2>4. events' = Started(ch) /\ UNCHANGED jobs
    BY <1>2, <2>1 DEF ReplayStart, Started
  <2>5. /\ DOMAIN events \subseteq DOMAIN events'
        /\ \A r \in DOMAIN events : events'[r].result = events[r].result
    BY <2>3, <2>4, StartedTypes
  <2> QED
    BY <1>1, <2>4, <2>5, FewerOnce
<1>3. CASE ReplayDue
  BY <1>1, <1>3, DecideOnce DEF ReplayDue
<1>4. CASE ReplayLast
  BY <1>1, <1>4, DecideOnce DEF ReplayLast
<1>5. CASE ReplayEnd
  <2>1. UNCHANGED jobs
    BY <1>5 DEF ReplayEnd
  <2> QED
    BY <1>1, <1>5, <2>1, EndIsClosed, ClosedOnce
<1> QED
  BY <1>2, <1>3, <1>4, <1>5 DEF Replay

LEMMA OrchestratorOnce ==
  ASSUME Types, Types', Sound, Once, StatementsSucceed, NEW a \in Heard, Footing(a), Orchestrator
  PROVE  Once'
<1>1. CASE Replay
  BY <1>1, ReplayOnce
<1>2. CASE Pumped \/ CollectLast
  <2>1. Collect /\ UNCHANGED <<jobs, worker>>
    BY <1>2 DEF Pumped, CollectLast
  <2> QED
    BY <2>1, CollectOnce
<1>3. CASE OnClose
  <2>1. events' = ClosedIn({r \in DOMAIN events : \E c \in Channels : openRows[c] = r})
    BY <1>3 DEF OnClose, ClosedIn
  <2>2. UNCHANGED <<jobs, worker, results>>
    BY <1>3 DEF OnClose, analysisVars
  <2> QED
    BY <2>1, <2>2, ClosedOnce
<1>4. CASE PutNone
  <2>1. NoJob \in Jobs
    BY DEF Jobs, NoJob
  <2>2. jobs' = Append(jobs, NoJob) /\ UNCHANGED <<worker, results, events>>
    BY <1>4 DEF PutNone, dbVars
  <2> QED
    BY <2>1, <2>2, QueuedOnce
<1>5. CASE UNCHANGED <<jobs, results, events, worker>>
  BY <1>5, SameOnce
<1>10. CASE EndRun
  <2>1. UNCHANGED <<jobs, results, events>> /\ worker'.job \in {worker.job, NoJob}
    BY <1>10 DEF EndRun
  <2> QED
    BY <2>1, FewerOnce
<1>6. CASE Handle
  BY <1>3, <1>5, <1>6 DEF Handle, OnTuned, OnLinearity, OnWindow, OnFrame, EngineEnds, Goes,
                          analysisVars, dbVars
<1>7. CASE Finish
  BY <1>2, <1>4, <1>5, <1>7, <1>10 DEF Finish, SendStop, DrainSkips, DrainEnds, Reap, Goes,
                                       analysisVars, dbVars
<1>8. CASE OpenWindow \/ PumpOn \/ DwellOver \/ StopSeen \/ WaitTimesOut
  BY <1>5, <1>8 DEF OpenWindow, PumpOn, DwellOver, StopSeen, WaitTimesOut, Goes, analysisVars, dbVars
<1>9. ~StatementFails
  BY DEF StatementFails, FrameFails, CloseFails, WindowFails, CollectFails, Fails, StatementsSucceed
<1> QED
  BY <1>1, <1>2, <1>6, <1>7, <1>8, <1>9 DEF Orchestrator

-----------------------------------------------------------------------------
(* The rows without an end are those of the channels with an open row.     *)

Ends ==
  /\ \A c \in Channels : openRows[c] # None =>
       events[openRows[c]].closed = None /\ events[openRows[c]].ch = c
  /\ \A r \in DOMAIN events : events[r].closed = None => \E c \in Channels : openRows[c] = r

LEMMA SameEnds ==
  ASSUME Types, Ends, UNCHANGED openRows, DOMAIN events' = DOMAIN events,
         \A r \in DOMAIN events : events'[r].closed = events[r].closed /\ events'[r].ch = events[r].ch
  PROVE  Ends'
BY OpenRow DEF Ends

LEMMA DecideEnds ==
  ASSUME Types, Ends, NEW d \in Decisions, Decide(d), UNCHANGED openRows
  PROVE  Ends'
<1>1. CASE UNCHANGED events
  BY <1>1, SameEnds
<1>2. CASE /\ openRows[d.ch] \in DOMAIN events /\ openRows[d.parent] \in DOMAIN events
           /\ events' = Marked(openRows[d.ch], openRows[d.parent])
  <2>1. /\ DOMAIN events' = DOMAIN events
        /\ \A r \in DOMAIN events : events'[r].closed = events[r].closed /\ events'[r].ch = events[r].ch
    BY <1>2, MarkedTypes
  <2> QED
    BY <2>1, SameEnds
<1> QED
  BY <1>1, <1>2, DecideCases

(* A row whose frame is being replayed has no open predecessor.            *)
LEMMA StartIs ==
  ASSUME Types, NEW a \in Heard, Footing(a), StatementsSucceed, ReplayStart
  PROVE  \E ch \in Channels : /\ events' = Started(ch) /\ ch \in line.s /\ openRows[ch] = None
                              /\ openRows' = [openRows EXCEPT ![ch] = Len(events) + 1]
<1>1. PICK ch : ch = MinOf(line.s)
  OBVIOUS
<1>2. line.s # {} /\ line.s \subseteq Channels
  BY LineHas DEF ReplayStart, Types, LoopTypes
<1>3. ch \in Channels /\ ch \in line.s
  BY <1>1, <1>2, MinOfChannels
<1>4. events' = Started(ch) /\ openRows' = [openRows EXCEPT ![ch] = Len(events) + 1]
  BY <1>1 DEF ReplayStart, Started
<1>5. line # NoLine
  BY <1>2, LineHas DEF Types, LoopTypes
<1>6. a.at = "open" /\ ch \notin Now(a)
  BY <1>3, <1>5 DEF Footing, Placed, Now
<1>7. openRows[ch] = None
  BY <1>3, <1>6 DEF Footing, Rows
<1> QED
  BY <1>3, <1>4, <1>7

LEMMA StartEnds ==
  ASSUME Types, Ends, NEW a \in Heard, Footing(a), StatementsSucceed, ReplayStart
  PROVE  Ends'
<1>1. PICK ch \in Channels : /\ events' = Started(ch) /\ openRows[ch] = None
                             /\ openRows' = [openRows EXCEPT ![ch] = Len(events) + 1]
  BY StartIs
<1>2. PICK new : new = Len(events) + 1
  OBVIOUS
<1>3. /\ DOMAIN events' = DOMAIN events \cup {new} /\ new \notin DOMAIN events
      /\ \A r \in DOMAIN events : events'[r] = events[r]
      /\ events'[new].closed = None /\ events'[new].ch = ch /\ new # None
  <2>1. /\ DOMAIN events' = DOMAIN events \cup {new} /\ new \notin DOMAIN events
        /\ \A r \in DOMAIN events : events'[r] = events[r]
        /\ Len(events) \in Nat
        /\ events'[new] = [ch |-> ch, window |-> logWindow, gen |-> line.heard,
                           center |-> grid.center, closed |-> None, parent |-> None,
                           result |-> None]
    BY <1>1, <1>2, StartedTypes
  <2>2. events'[new].closed = None /\ events'[new].ch = ch
    BY <2>1
  <2>3. new # None
    BY <1>2, <2>1 DEF None
  <2> QED
    BY <2>1, <2>2, <2>3
<1>4. openRows'[ch] = new /\ \A c \in Channels \ {ch} : openRows'[c] = openRows[c]
  BY <1>1, <1>2 DEF Types, RowTypes
<1>5. ASSUME NEW c \in Channels, openRows'[c] # None
      PROVE  events'[openRows'[c]].closed = None /\ events'[openRows'[c]].ch = c
  <2>1. CASE c = ch
    BY <1>3, <1>4, <2>1
  <2>2. CASE c # ch
    BY <1>3, <1>4, <1>5, <2>2, OpenRow DEF Ends
  <2> QED
    BY <2>1, <2>2
<1>6. ASSUME NEW r \in DOMAIN events', events'[r].closed = None
      PROVE  \E c \in Channels : openRows'[c] = r
  <2>1. CASE r = new
    BY <1>4, <2>1
  <2>2. CASE r # new
    <3>1. r \in DOMAIN events /\ events[r].closed = None
      BY <1>3, <1>6, <2>2
    <3>2. PICK c \in Channels : openRows[c] = r
      BY <3>1 DEF Ends
    <3>3. c # ch
      BY <1>1, <3>1, <3>2, LenProperties DEF Types, RowTypes, None
    <3> QED
      BY <1>4, <3>2, <3>3
  <2> QED
    BY <2>1, <2>2
<1> QED
  BY <1>5, <1>6 DEF Ends

(* Rows are given an end, and their channels have no open row any more.    *)
LEMMA ClosedEnds ==
  ASSUME Types, Ends, NEW D \in SUBSET Channels, grid.gen # None,
         events' = ClosedIn({openRows[c] : c \in D} \ {None}),
         openRows' = [c \in Channels |-> IF c \in D THEN None ELSE openRows[c]]
  PROVE  Ends'
<1>1. PICK S : S = {openRows[c] : c \in D} \ {None}
  OBVIOUS
<1>2. /\ DOMAIN events' = DOMAIN events
      /\ \A r \in DOMAIN events :
           /\ events'[r].ch = events[r].ch
           /\ events'[r].closed = IF r \in S THEN grid.gen ELSE events[r].closed
  BY <1>1, ClosedInTypes
<1>3. \A c \in Channels : openRows'[c] = IF c \in D THEN None ELSE openRows[c]
  OBVIOUS
<1>4. ASSUME NEW c \in Channels, openRows'[c] # None
      PROVE  events'[openRows'[c]].closed = None /\ events'[openRows'[c]].ch = c
  <2>1. c \notin D /\ openRows'[c] = openRows[c] /\ openRows[c] # None
    BY <1>3, <1>4
  <2>2. openRows[c] \in DOMAIN events /\ events[openRows[c]].closed = None /\ events[openRows[c]].ch = c
    BY <2>1, OpenRow DEF Ends
  <2>3. openRows[c] \notin S
    <3> SUFFICES ASSUME NEW k \in D, openRows[k] = openRows[c] PROVE FALSE
      BY <1>1
    <3>1. events[openRows[k]].ch = k
      BY <2>1 DEF Ends
    <3> QED
      BY <2>1, <2>2, <3>1
  <2> QED
    BY <1>2, <2>1, <2>2, <2>3
<1>5. ASSUME NEW r \in DOMAIN events', events'[r].closed = None
      PROVE  \E c \in Channels : openRows'[c] = r
  <2>1. r \in DOMAIN events /\ r \notin S /\ events[r].closed = None
    BY <1>2, <1>5
  <2>2. PICK c \in Channels : openRows[c] = r
    BY <2>1 DEF Ends
  <2>3. r # None
    BY <2>1, LenProperties DEF Types, RowTypes, None
  <2>4. c \notin D
    BY <1>1, <2>1, <2>2, <2>3
  <2> QED
    BY <1>3, <2>2, <2>4
<1> QED
  BY <1>4, <1>5 DEF Ends

LEMMA EndEnds ==
  ASSUME Types, Ends, NEW a \in Heard, Footing(a), ReplayEnd
  PROVE  Ends'
<1>1. Ending \in line.e /\ Ending \in Channels /\ events' = ClosedIn({openRows[Ending]} \ {None})
  BY EndIsClosed
<1>2. line # NoLine
  BY <1>1, LineHas DEF Types, LoopTypes
<1>3. grid.gen = a.tunes /\ a.tunes \in Nat
  BY <1>2 DEF Footing, Placed, Heard, Places
<1>4. PICK c : c = Ending
  OBVIOUS
<1>5. openRows' = [openRows EXCEPT ![c] = None] /\ openRows \in [Channels -> {None} \cup DOMAIN events]
  BY <1>4 DEF ReplayEnd, Types, RowTypes
<1>6. openRows' = [k \in Channels |-> IF k \in {c} THEN None ELSE openRows[k]]
  BY <1>5
<1>7. {openRows[k] : k \in {c}} = {openRows[c]}
  OBVIOUS
<1>8. events' = ClosedIn({openRows[k] : k \in {c}} \ {None})
  BY <1>1, <1>4, <1>7
<1>9. grid.gen # None
  BY <1>3 DEF None
<1>10. PICK D \in SUBSET Channels : D = {c}
  BY <1>1, <1>4
<1>11. /\ events' = ClosedIn({openRows[k] : k \in D} \ {None})
       /\ openRows' = [k \in Channels |-> IF k \in D THEN None ELSE openRows[k]]
  BY <1>6, <1>8, <1>10
<1> QED
  BY <1>9, <1>11, ClosedEnds

LEMMA CloseEnds ==
  ASSUME Types, Ends, NEW a \in Heard, Footing(a), NEW a1, Hears(a, a1), OnClose
  PROVE  Ends'
<1>1. PICK m \in Lines : m.t = "close" /\ LineFits(may, a, m)
  BY TakenIs DEF OnClose
<1>2. a.at = "open"
  BY <1>1 DEF LineFits
<1>3. grid.gen = a.tunes /\ a.tunes \in Nat
  BY <1>2 DEF Footing, Placed, Heard, Places
<1>4. PICK S : S = {openRows[c] : c \in Channels} \ {None}
  OBVIOUS
<1>5. \A r \in DOMAIN events : r \in S <=> \E c \in Channels : openRows[c] = r
  BY <1>4, LenProperties DEF Types, RowTypes, None
<1>6. events' = ClosedIn(S)
  BY <1>5 DEF OnClose, ClosedIn
<1>7. openRows' = [c \in Channels |-> IF c \in Channels THEN None ELSE openRows[c]]
  BY DEF OnClose, NoRows
<1> QED
  BY <1>3, <1>4, <1>6, <1>7, ClosedEnds DEF None

LEMMA OrchestratorEnds ==
  ASSUME Types, Ends, StatementsSucceed, NEW a \in Heard, Footing(a), NEW a1, Hears(a, a1),
         Orchestrator
  PROVE  Ends'
<1>1. CASE UNCHANGED <<events, openRows>>
  BY <1>1, SameEnds
<1>2. CASE Replay
  <2>1. CASE ReplayDue \/ ReplayLast
    <3>1. PICK d \in line.due \cup line.fin : Decide(d)
      BY <2>1 DEF ReplayDue, ReplayLast
    <3>2. d \in Decisions
      BY LineHas DEF Types, LoopTypes
    <3> QED
      BY <2>1, <3>1, <3>2, DecideEnds DEF ReplayDue, ReplayLast
  <2> QED
    BY <1>2, <2>1, StartEnds, EndEnds DEF Replay
<1>3. CASE Pumped \/ CollectLast
  <2>1. Collect /\ UNCHANGED openRows
    BY <1>3 DEF Pumped, CollectLast
  <2> QED
    BY <2>1, CollectTypes, SameEnds
<1>4. CASE Handle
  BY <1>1, <1>4, CloseEnds DEF Handle, OnTuned, OnLinearity, OnWindow, OnFrame, EngineEnds, Goes,
                               dbVars, loopVars
<1>5. CASE Finish
  BY <1>1, <1>3, <1>5 DEF Finish, SendStop, DrainSkips, DrainEnds, Reap, PutNone, EndRun, Goes,
                          loopVars, dbVars
<1>6. CASE OpenWindow \/ PumpOn \/ DwellOver \/ StopSeen \/ WaitTimesOut
  BY <1>1, <1>6 DEF OpenWindow, PumpOn, DwellOver, StopSeen, WaitTimesOut, Goes, dbVars
<1>7. ~StatementFails
  BY DEF StatementFails, FrameFails, CloseFails, WindowFails, CollectFails, Fails, StatementsSucceed
<1> QED
  BY <1>2, <1>3, <1>4, <1>5, <1>6, <1>7 DEF Orchestrator

-----------------------------------------------------------------------------
(* What the database has, as long as no statement fails.                   *)

Promised == /\ Asked /\ Registered
            /\ StatementsSucceed => Once /\ Ends

LEMMA PromisedInit == Init => Promised
<1> SUFFICES ASSUME Init PROVE Promised
  OBVIOUS
<1>1. DOMAIN events = {} /\ DOMAIN jobs = {} /\ worker.job = NoJob /\ openRows = NoRows
  BY DEF Init, IdleWorker
<1>2. Once
  BY <1>1 DEF Once
<1>3. Ends
  BY <1>1 DEF Ends, NoRows
<1>4. Registered
  BY DEF Init, Registered
<1> QED
  BY <1>2, <1>3, <1>4, AskedInit DEF Promised

LEMMA PromisedNext ==
  Types /\ AppliedInv /\ Sound /\ Followed /\ Promised /\ [Next]_vars => Promised'
<1> SUFFICES ASSUME Types, AppliedInv, Sound, Followed, Promised, [Next]_vars PROVE Promised'
  OBVIOUS
<1>1. Types' /\ Asked' /\ Registered'
  BY NextTypes, AskedNext, RegisteredNext DEF Promised
<1>2. UNCHANGED may
  BY DEF Next, Engine, Orchestrator, Worker, TakeJob, FinishJob, WorkerDies, WorkerUnchanged, Sigint,
         Stopped, vars
<1> SUFFICES ASSUME StatementsSucceed PROVE Once' /\ Ends'
  BY <1>1, <1>2 DEF Promised, StatementsSucceed
<1>3. Once /\ Ends
  BY DEF Promised
<1>4. PICK a, b, t, u : Chain(a, b, t, u) /\ Footing(a)
  BY DEF Followed
<1>5. a \in Heard
  BY <1>4 DEF Chain, Spoken
<1>6. CASE Orchestrator
  <2>1. PICK a1 : Hears(a, a1)
    BY <1>4, <1>6, OrchestratorChain
  <2> QED
    BY <1>1, <1>3, <1>4, <1>5, <1>6, <2>1, OrchestratorOnce, OrchestratorEnds
<1>7. CASE Worker \/ WorkerDies
  <2>1. UNCHANGED <<events, openRows>>
    BY <1>7 DEF Worker, TakeJob, FinishJob, WorkerDies, WorkerUnchanged, dbVars, loopVars
  <2> QED
    BY <1>1, <1>3, <1>7, <2>1, WorkerOnce, SameEnds
<1>8. CASE Engine \/ Sigint \/ UNCHANGED vars
  <2>1. UNCHANGED <<events, openRows, jobs, results, worker>>
    BY <1>8 DEF Engine, Sigint, vars, loopVars, dbVars, analysisVars
  <2> QED
    BY <1>3, <2>1, SameOnce, SameEnds
<1> QED
  BY <1>6, <1>7, <1>8 DEF Next, Stopped

-----------------------------------------------------------------------------
(* The tables as SurveyLog has them, after each of the steps that write to  *)
(* them.                                                                    *)

LogRows == [ch : Channels, window : {None} \cup Nat, closed : BOOLEAN, parent : {None} \cup Nat,
            analysed : BOOLEAN]

LogOf(ev) == [r \in DOMAIN ev |-> LogRow(ev[r])]

LEMMA LogRowFields ==
  ASSUME NEW e \in EventRow
  PROVE  /\ LogRow(e) \in LogRows
         /\ LogRow(e).ch = e.ch /\ LogRow(e).window = e.window /\ LogRow(e).parent = e.parent
         /\ LogRow(e).closed <=> e.closed # None
         /\ LogRow(e).analysed <=> e.result # None
<1>1. LogRow(e) \in LogRows
  BY DEF LogRow, LogRows, EventRow
<1>2. LogRow(e).closed <=> e.closed # None
  BY Zenon DEF LogRow
<1>3. LogRow(e).analysed <=> e.result # None
  BY Zenon DEF LogRow
<1>4. LogRow(e).ch = e.ch /\ LogRow(e).window = e.window /\ LogRow(e).parent = e.parent
  BY DEF LogRow
<1> QED
  BY <1>1, <1>2, <1>3, <1>4

LEMMA LogOfIs ==
  ASSUME NEW ev \in Seq(EventRow)
  PROVE  /\ LogOf(ev) \in Seq(LogRows) /\ Len(LogOf(ev)) = Len(ev) /\ Len(ev) \in Nat
         /\ DOMAIN LogOf(ev) = DOMAIN ev /\ DOMAIN ev = 1 .. Len(ev)
         /\ \A r \in DOMAIN ev :
              /\ LogOf(ev)[r] = LogRow(ev[r]) /\ LogOf(ev)[r] \in LogRows /\ ev[r] \in EventRow
              /\ LogOf(ev)[r].ch = ev[r].ch /\ LogOf(ev)[r].window = ev[r].window
              /\ LogOf(ev)[r].parent = ev[r].parent
              /\ LogOf(ev)[r].closed <=> ev[r].closed # None
              /\ LogOf(ev)[r].analysed <=> ev[r].result # None
<1>1. DOMAIN ev = 1 .. Len(ev) /\ Len(ev) \in Nat /\ \A r \in DOMAIN ev : ev[r] \in EventRow
  BY ElementOfSeq, LenProperties
<1>2. LogOf(ev) \in [1 .. Len(ev) -> LogRows]
  BY <1>1, LogRowFields DEF LogOf
<1>3. \A r \in DOMAIN ev : LogOf(ev)[r] = LogRow(ev[r])
  BY DEF LogOf
<1>4. LogOf(ev) \in Seq(LogRows) /\ Len(LogOf(ev)) = Len(ev) /\ DOMAIN LogOf(ev) = DOMAIN ev
  BY <1>1, <1>2, FunctionIsSeq
<1>5. ASSUME NEW r \in DOMAIN ev
      PROVE  /\ LogOf(ev)[r] = LogRow(ev[r]) /\ LogOf(ev)[r] \in LogRows /\ ev[r] \in EventRow
             /\ LogOf(ev)[r].ch = ev[r].ch /\ LogOf(ev)[r].window = ev[r].window
             /\ LogOf(ev)[r].parent = ev[r].parent
             /\ LogOf(ev)[r].closed <=> ev[r].closed # None
             /\ LogOf(ev)[r].analysed <=> ev[r].result # None
  <2>1. PICK e, x : e = ev[r] /\ x = LogOf(ev)[r]
    OBVIOUS
  <2>2. e \in EventRow /\ x = LogRow(e)
    BY <1>1, <1>3, <2>1
  <2>3. /\ x \in LogRows /\ x.ch = e.ch /\ x.window = e.window /\ x.parent = e.parent
        /\ x.closed <=> e.closed # None
        /\ x.analysed <=> e.result # None
    BY <2>2, LogRowFields
  <2> QED
    BY <2>1, <2>2, <2>3
<1> QED
  BY <1>1, <1>4, <1>5

(* Two rows with the same fields are the same. *)
LEMMA LogRowsEqual ==
  ASSUME NEW x \in LogRows, NEW y \in LogRows, x.ch = y.ch, x.window = y.window,
         x.closed <=> y.closed, x.parent = y.parent, x.analysed <=> y.analysed
  PROVE  x = y
<1>1. x.closed = y.closed /\ x.analysed = y.analysed
  BY DEF LogRows
<1> QED
  BY <1>1 DEF LogRows

LEMMA LogAppended ==
  ASSUME NEW ev \in Seq(EventRow), NEW e \in EventRow
  PROVE  LogOf(Append(ev, e)) = Append(LogOf(ev), LogRow(e))
<1>1. PICK ev1 : ev1 = Append(ev, e)
  OBVIOUS
<1>2. PICK l, l1 : l = LogOf(ev) /\ l1 = LogOf(ev1)
  OBVIOUS
<1>3. PICK x : x = LogRow(e)
  OBVIOUS
<1>4. /\ ev1 \in Seq(EventRow) /\ Len(ev1) = Len(ev) + 1 /\ ev1[Len(ev) + 1] = e
      /\ \A i \in 1 .. Len(ev) : ev1[i] = ev[i]
  BY <1>1, AppendProperties
<1>5. /\ l1 \in Seq(LogRows) /\ Len(l1) = Len(ev) + 1
      /\ \A i \in 1 .. Len(ev) + 1 : l1[i] = LogRow(ev1[i])
  BY <1>2, <1>4, LogOfIs
<1>6. /\ l \in Seq(LogRows) /\ Len(l) = Len(ev) /\ Len(ev) \in Nat
      /\ \A i \in 1 .. Len(ev) : l[i] = LogRow(ev[i])
  BY <1>2, LogOfIs
<1>7. x \in LogRows
  BY <1>3, LogRowFields
<1>8. PICK l2 : l2 = Append(l, x)
  OBVIOUS
<1>9. /\ l2 \in Seq(LogRows) /\ Len(l2) = Len(l) + 1 /\ l2[Len(l) + 1] = x
      /\ \A i \in 1 .. Len(l) : l2[i] = l[i]
  BY <1>6, <1>7, <1>8, AppendProperties
<1>10. ASSUME NEW i \in 1 .. Len(ev) + 1 PROVE l1[i] = l2[i]
  <2>1. CASE i = Len(ev) + 1
    BY <1>3, <1>4, <1>5, <1>6, <1>9, <2>1
  <2>2. CASE i # Len(ev) + 1
    <3>1. i \in 1 .. Len(ev) /\ i \in 1 .. Len(l)
      BY <1>6, <2>2
    <3> QED
      BY <1>4, <1>5, <1>6, <1>9, <3>1
  <2> QED
    BY <2>1, <2>2
<1>11. l1 = l2
  BY <1>5, <1>6, <1>9, <1>10, SeqEqual
<1> QED
  BY <1>1, <1>2, <1>3, <1>8, <1>11

LEMMA LogMarked ==
  ASSUME Types, NEW r \in DOMAIN events, NEW p \in DOMAIN events
  PROVE  LogOf(Marked(r, p)) = [LogOf(events) EXCEPT ![r].parent = p]
<1>1. PICK ev1 : ev1 = Marked(r, p)
  OBVIOUS
<1>2. PICK l, l1 : l = LogOf(events) /\ l1 = LogOf(ev1)
  OBVIOUS
<1>3. /\ ev1 \in Seq(EventRow) /\ Len(ev1) = Len(events) /\ DOMAIN ev1 = DOMAIN events
      /\ \A i \in DOMAIN events :
           /\ ev1[i].ch = events[i].ch /\ ev1[i].window = events[i].window
           /\ ev1[i].closed = events[i].closed /\ ev1[i].result = events[i].result
           /\ ev1[i].parent = IF i = r THEN p ELSE events[i].parent
  BY <1>1, MarkedTypes
<1>4. /\ l \in Seq(LogRows) /\ Len(l) = Len(events) /\ Len(events) \in Nat
      /\ DOMAIN l = DOMAIN events /\ DOMAIN events = 1 .. Len(events)
      /\ \A i \in DOMAIN events :
              /\ l[i] \in LogRows
              /\ l[i].ch = events[i].ch /\ l[i].window = events[i].window
              /\ l[i].parent = events[i].parent
              /\ l[i].closed <=> events[i].closed # None
              /\ l[i].analysed <=> events[i].result # None
  BY <1>2, LogOfIs DEF Types, RowTypes
<1>5. /\ l1 \in Seq(LogRows) /\ Len(l1) = Len(events) /\ DOMAIN l1 = DOMAIN events
      /\ \A i \in DOMAIN events :
              /\ l1[i] \in LogRows
              /\ l1[i].ch = ev1[i].ch /\ l1[i].window = ev1[i].window
              /\ l1[i].parent = ev1[i].parent
              /\ l1[i].closed <=> ev1[i].closed # None
              /\ l1[i].analysed <=> ev1[i].result # None
  BY <1>2, <1>3, LogOfIs
<1>6. PICK l2 : l2 = [l EXCEPT ![r].parent = p]
  OBVIOUS
<1>7. DOMAIN l2 = DOMAIN events /\ l2 = [i \in DOMAIN events |-> l2[i]]
  BY <1>4, <1>6
<1>8. p \in Nat
  BY <1>4
<1>9. \A i \in DOMAIN events \ {r} : l2[i] = l[i]
  BY <1>4, <1>6
<1>10. l2[r] = [l[r] EXCEPT !.parent = p]
  BY <1>4, <1>6
<1>11. /\ l2[r] \in LogRows /\ l2[r].ch = l[r].ch /\ l2[r].window = l[r].window
       /\ l2[r].closed = l[r].closed /\ l2[r].analysed = l[r].analysed /\ l2[r].parent = p
  BY <1>4, <1>8, <1>10 DEF LogRows
<1>12. \A i \in DOMAIN events : l1[i] = l2[i]
  <2> SUFFICES ASSUME NEW i \in DOMAIN events PROVE l1[i] = l2[i]
    OBVIOUS
  <2>1. CASE i = r
    <3>1. PICK x, y : x = l1[r] /\ y = l2[r]
      OBVIOUS
    <3>2. x.closed <=> y.closed
      BY <1>3, <1>4, <1>5, <1>11, <3>1
    <3>3. x.analysed <=> y.analysed
      BY <1>3, <1>4, <1>5, <1>11, <3>1
    <3>4. x \in LogRows /\ y \in LogRows /\ x.ch = y.ch /\ x.window = y.window /\ x.parent = y.parent
      BY <1>3, <1>4, <1>5, <1>11, <3>1
    <3> QED
      BY <2>1, <3>1, <3>2, <3>3, <3>4, LogRowsEqual
  <2>2. CASE i # r
    <3>1. PICK x, y : x = l1[i] /\ y = l[i]
      OBVIOUS
    <3>2. x.closed <=> y.closed
      BY <1>3, <1>4, <1>5, <3>1
    <3>3. x.analysed <=> y.analysed
      BY <1>3, <1>4, <1>5, <3>1
    <3>4. x \in LogRows /\ y \in LogRows /\ x.ch = y.ch /\ x.window = y.window /\ x.parent = y.parent
      BY <1>3, <1>4, <1>5, <2>2, <3>1
    <3> QED
      BY <1>9, <2>2, <3>1, <3>2, <3>3, <3>4, LogRowsEqual
  <2> QED
    BY <2>1, <2>2
<1>13. l1 = [i \in DOMAIN events |-> l1[i]]
  BY <1>4, <1>5
<1>14. l1 = l2
  BY <1>7, <1>12, <1>13
<1> QED
  BY <1>1, <1>2, <1>6, <1>14

OnlyClosed(ev, ev1, S) ==
  /\ DOMAIN ev1 = DOMAIN ev
  /\ \A r \in DOMAIN ev :
       /\ ev1[r].ch = ev[r].ch /\ ev1[r].window = ev[r].window
       /\ ev1[r].parent = ev[r].parent /\ ev1[r].result = ev[r].result
       /\ r \in S => ev1[r].closed # None
       /\ r \notin S => ev1[r].closed = ev[r].closed

LEMMA LogClosed ==
  ASSUME NEW ev \in Seq(EventRow), NEW ev1 \in Seq(EventRow), NEW S, OnlyClosed(ev, ev1, S)
  PROVE  /\ LogOf(ev1) = [r \in 1 .. Len(LogOf(ev)) |-> LogOf(ev1)[r]]
         /\ \A r \in 1 .. Len(LogOf(ev)) :
              LogOf(ev1)[r] = IF r \in S THEN [LogOf(ev)[r] EXCEPT !.closed = TRUE] ELSE LogOf(ev)[r]
<1> USE DEF OnlyClosed
<1>1. PICK l, l1 : l = LogOf(ev) /\ l1 = LogOf(ev1)
  OBVIOUS
<1>2. /\ l \in Seq(LogRows) /\ DOMAIN l = DOMAIN ev /\ DOMAIN ev = 1 .. Len(l)
      /\ \A r \in DOMAIN ev : /\ l[r] \in LogRows
                              /\ l[r].ch = ev[r].ch /\ l[r].window = ev[r].window
                              /\ l[r].parent = ev[r].parent
                              /\ l[r].closed <=> ev[r].closed # None
                              /\ l[r].analysed <=> ev[r].result # None
  BY <1>1, LogOfIs
<1>3. /\ l1 \in Seq(LogRows) /\ DOMAIN l1 = DOMAIN ev
      /\ \A r \in DOMAIN ev : /\ l1[r] \in LogRows
                              /\ l1[r].ch = ev1[r].ch /\ l1[r].window = ev1[r].window
                              /\ l1[r].parent = ev1[r].parent
                              /\ l1[r].closed <=> ev1[r].closed # None
                              /\ l1[r].analysed <=> ev1[r].result # None
  BY <1>1, LogOfIs
<1>4. ASSUME NEW r \in DOMAIN ev
      PROVE  l1[r] = IF r \in S THEN [l[r] EXCEPT !.closed = TRUE] ELSE l[r]
  <2>1. PICK x, y : x = l1[r] /\ y = l[r]
    OBVIOUS
  <2>2. /\ x \in LogRows /\ y \in LogRows /\ x.ch = y.ch /\ x.window = y.window
        /\ x.parent = y.parent
    BY <1>2, <1>3, <2>1
  <2>3. x.analysed <=> y.analysed
    BY <1>2, <1>3, <2>1
  <2>4. CASE r \in S
    <3>1. x.closed
      BY <1>3, <2>1, <2>4
    <3>2. PICK z : z = [y EXCEPT !.closed = TRUE]
      OBVIOUS
    <3>3. /\ z \in LogRows /\ z.ch = y.ch /\ z.window = y.window /\ z.parent = y.parent
          /\ z.analysed = y.analysed /\ z.closed
      BY <2>2, <3>2 DEF LogRows
    <3>4. (x.closed <=> z.closed) /\ (x.analysed <=> z.analysed)
      BY <2>3, <3>1, <3>3
    <3>5. x = z
      BY <2>2, <3>3, <3>4, LogRowsEqual
    <3> QED
      BY <2>1, <2>4, <3>2, <3>5
  <2>5. CASE r \notin S
    <3>1. x.closed <=> y.closed
      BY <1>2, <1>3, <2>1, <2>5
    <3>2. x = y
      BY <2>2, <2>3, <3>1, LogRowsEqual
    <3> QED
      BY <2>1, <2>5, <3>2
  <2> QED
    BY <2>4, <2>5
<1>5. l1 = [r \in 1 .. Len(l) |-> l1[r]]
  BY <1>2, <1>3
<1> QED
  BY <1>1, <1>2, <1>4, <1>5

OnlyAnalysed(ev, ev1, S) ==
  /\ DOMAIN ev1 = DOMAIN ev
  /\ \A r \in DOMAIN ev :
       /\ ev1[r].ch = ev[r].ch /\ ev1[r].window = ev[r].window
       /\ ev1[r].parent = ev[r].parent /\ ev1[r].closed = ev[r].closed
       /\ r \in S => ev1[r].result # None
       /\ r \notin S => ev1[r].result = ev[r].result

LEMMA LogAnalysed ==
  ASSUME NEW ev \in Seq(EventRow), NEW ev1 \in Seq(EventRow), NEW S, OnlyAnalysed(ev, ev1, S)
  PROVE  /\ LogOf(ev1) = [r \in 1 .. Len(LogOf(ev)) |-> LogOf(ev1)[r]]
         /\ \A r \in 1 .. Len(LogOf(ev)) :
              LogOf(ev1)[r] = IF r \in S THEN [LogOf(ev)[r] EXCEPT !.analysed = TRUE] ELSE LogOf(ev)[r]
<1> USE DEF OnlyAnalysed
<1>1. PICK l, l1 : l = LogOf(ev) /\ l1 = LogOf(ev1)
  OBVIOUS
<1>2. /\ l \in Seq(LogRows) /\ DOMAIN l = DOMAIN ev /\ DOMAIN ev = 1 .. Len(l)
      /\ \A r \in DOMAIN ev : /\ l[r] \in LogRows
                              /\ l[r].ch = ev[r].ch /\ l[r].window = ev[r].window
                              /\ l[r].parent = ev[r].parent
                              /\ l[r].closed <=> ev[r].closed # None
                              /\ l[r].analysed <=> ev[r].result # None
  BY <1>1, LogOfIs
<1>3. /\ l1 \in Seq(LogRows) /\ DOMAIN l1 = DOMAIN ev
      /\ \A r \in DOMAIN ev : /\ l1[r] \in LogRows
                              /\ l1[r].ch = ev1[r].ch /\ l1[r].window = ev1[r].window
                              /\ l1[r].parent = ev1[r].parent
                              /\ l1[r].closed <=> ev1[r].closed # None
                              /\ l1[r].analysed <=> ev1[r].result # None
  BY <1>1, LogOfIs
<1>4. ASSUME NEW r \in DOMAIN ev
      PROVE  l1[r] = IF r \in S THEN [l[r] EXCEPT !.analysed = TRUE] ELSE l[r]
  <2>1. PICK x, y : x = l1[r] /\ y = l[r]
    OBVIOUS
  <2>2. /\ x \in LogRows /\ y \in LogRows /\ x.ch = y.ch /\ x.window = y.window
        /\ x.parent = y.parent
    BY <1>2, <1>3, <2>1
  <2>3. x.closed <=> y.closed
    BY <1>2, <1>3, <2>1
  <2>4. CASE r \in S
    <3>1. x.analysed
      BY <1>3, <2>1, <2>4
    <3>2. PICK z : z = [y EXCEPT !.analysed = TRUE]
      OBVIOUS
    <3>3. /\ z \in LogRows /\ z.ch = y.ch /\ z.window = y.window /\ z.parent = y.parent
          /\ z.closed = y.closed /\ z.analysed
      BY <2>2, <3>2 DEF LogRows
    <3>4. (x.closed <=> z.closed) /\ (x.analysed <=> z.analysed)
      BY <2>3, <3>1, <3>3
    <3>5. x = z
      BY <2>2, <3>3, <3>4, LogRowsEqual
    <3> QED
      BY <2>1, <2>4, <3>2, <3>5
  <2>5. CASE r \notin S
    <3>1. x.analysed <=> y.analysed
      BY <1>2, <1>3, <2>1, <2>5
    <3>2. x = y
      BY <2>2, <2>3, <3>1, LogRowsEqual
    <3> QED
      BY <2>1, <2>5, <3>2
  <2> QED
    BY <2>4, <2>5
<1>5. l1 = [r \in 1 .. Len(l) |-> l1[r]]
  BY <1>2, <1>3
<1> QED
  BY <1>1, <1>2, <1>4, <1>5

LEMMA LogIs ==
  ASSUME StatementsSucceed, UNCHANGED may
  PROVE  /\ LogWindows = windows /\ LogWindows' = windows'
         /\ LogEvents = LogOf(events) /\ LogEvents' = LogOf(events')
         /\ LogEnded <=> ended
         /\ UNCHANGED ended => UNCHANGED LogEnded
         /\ ended' => LogEnded' = TRUE
<1>1. StatementsSucceed'
  BY DEF StatementsSucceed
<1> QED
  BY <1>1 DEF LogWindows, LogEvents, LogEnded, LogOf

(* The steps of the abstract specification, told of the tables.            *)

LEMMA LogOpensWindow ==
  ASSUME Types, StatementsSucceed, UNCHANGED <<may, events, ended>>, NEW c \in Centres,
         windows # <<>> => windows[Len(windows)].closed,
         \A r \in DOMAIN events : events[r].closed # None,
         windows' = Append(windows, [center |-> c, closed |-> FALSE, linear |-> None])
  PROVE  Log!OpenWindow(c)
<1>1. /\ LogWindows = windows /\ LogWindows' = windows'
      /\ LogEvents = LogOf(events) /\ LogEvents' = LogOf(events')
      /\ UNCHANGED ended => UNCHANGED LogEnded
      /\ ended' => LogEnded' = TRUE
  BY LogIs
<1>2. events \in Seq(EventRow)
  BY DEF Types, RowTypes
<1>3. PICK le : le = LogOf(events)
  OBVIOUS
<1>4. \A r \in 1 .. Len(le) : le[r].closed
  BY <1>2, <1>3, LogOfIs
<1> QED
  BY <1>1, <1>3, <1>4
     DEF Log!OpenWindow, Log!Listening, Log!Last, Log!OpenRows, Log!None, None

LEMMA LogVerdict ==
  ASSUME Types, StatementsSucceed, UNCHANGED <<may, events, ended>>,
         windows # <<>>, ~windows[Len(windows)].closed,
         windows' = [windows EXCEPT ![Len(windows)].linear = windows[Len(windows)].center]
  PROVE  Log!Verdict
<1>1. /\ LogWindows = windows /\ LogWindows' = windows'
      /\ LogEvents = LogOf(events) /\ LogEvents' = LogOf(events')
      /\ UNCHANGED ended => UNCHANGED LogEnded
      /\ ended' => LogEnded' = TRUE
  BY LogIs
<1> QED
  BY <1>1 DEF Log!Verdict, Log!Listening, Log!Last

LEMMA LogHears ==
  ASSUME Types, StatementsSucceed, UNCHANGED <<may, windows, ended>>,
         windows # <<>>, ~windows[Len(windows)].closed,
         logWindow = Len(windows), NEW ch \in Channels, events' = Started(ch),
         \A r \in DOMAIN events : events[r].closed = None => events[r].ch # ch
  PROVE  Log!Hear(ch)
<1>1. /\ LogWindows = windows /\ LogWindows' = windows'
      /\ LogEvents = LogOf(events) /\ LogEvents' = LogOf(events')
      /\ UNCHANGED ended => UNCHANGED LogEnded
      /\ ended' => LogEnded' = TRUE
  BY LogIs
<1>2. events \in Seq(EventRow)
  BY DEF Types, RowTypes
<1>3. PICK le, le1 : le = LogOf(events) /\ le1 = LogOf(events')
  OBVIOUS
<1>4. \A r \in 1 .. Len(le) : ~le[r].closed => le[r].ch # ch
  BY <1>2, <1>3, LogOfIs
<1>5. PICK e : e = [ch |-> ch, window |-> logWindow, gen |-> line.heard,
                    center |-> grid.center, closed |-> None, parent |-> None, result |-> None]
  OBVIOUS
<1>6. e \in EventRow
  BY <1>5 DEF Types, LoopTypes, Unreplayed, EventRow
<1>7. LogRow(e) = [ch |-> ch, window |-> Len(windows), closed |-> FALSE, parent |-> None,
                   analysed |-> FALSE]
  BY <1>5 DEF LogRow
<1>8. events' = Append(events, e)
  BY <1>5 DEF Started
<1>9. le1 = Append(le, LogRow(e))
  BY <1>2, <1>3, <1>6, <1>8, LogAppended
<1> QED
  BY <1>1, <1>3, <1>4, <1>7, <1>9
     DEF Log!Hear, Log!Listening, Log!Last, Log!OpenRows, Log!Row, Log!None, None

LEMMA LogMarks ==
  ASSUME Types, StatementsSucceed, UNCHANGED <<may, windows, ended>>,
         NEW r \in DOMAIN events, NEW p \in DOMAIN events, r # p,
         events[r].closed = None, events[p].closed = None,
         events[r].parent = None, events[r].result = None, events' = Marked(r, p)
  PROVE  r \in Log!OpenRows /\ p \in Log!OpenRows /\ Log!Harmonic(r, p)
<1>1. /\ LogWindows = windows /\ LogWindows' = windows'
      /\ LogEvents = LogOf(events) /\ LogEvents' = LogOf(events')
      /\ UNCHANGED ended => UNCHANGED LogEnded
      /\ ended' => LogEnded' = TRUE
  BY LogIs
<1>2. events \in Seq(EventRow)
  BY DEF Types, RowTypes
<1>3. PICK le, le1 : le = LogOf(events) /\ le1 = LogOf(events')
  OBVIOUS
<1>4. r \in 1 .. Len(le) /\ p \in 1 .. Len(le) /\ ~le[r].closed /\ ~le[p].closed
      /\ ~le[r].analysed /\ le[r].parent = None
  BY <1>2, <1>3, LogOfIs
<1>5. le1 = [le EXCEPT ![r].parent = p]
  BY <1>3, LogMarked
<1> QED
  BY <1>1, <1>3, <1>4, <1>5 DEF Log!Harmonic, Log!OpenRows, Log!None, None

LEMMA LogAnalyses ==
  ASSUME Types, Types', StatementsSucceed, UNCHANGED <<may, windows, ended>>,
         NEW S \in SUBSET DOMAIN events, DOMAIN events' = DOMAIN events,
         \A r \in S : events[r].parent = None /\ events[r].result = None,
         \A r \in DOMAIN events :
           /\ events'[r].ch = events[r].ch /\ events'[r].window = events[r].window
           /\ events'[r].parent = events[r].parent /\ events'[r].closed = events[r].closed
           /\ r \in S => events'[r].result # None
           /\ r \notin S => events'[r].result = events[r].result
  PROVE  \E R \in SUBSET (1 .. Len(LogOf(events))) : Log!Analyse(R)
<1>1. /\ LogWindows = windows /\ LogWindows' = windows'
      /\ LogEvents = LogOf(events) /\ LogEvents' = LogOf(events')
      /\ UNCHANGED ended => UNCHANGED LogEnded
      /\ ended' => LogEnded' = TRUE
  BY LogIs
<1>2. events \in Seq(EventRow) /\ events' \in Seq(EventRow)
  BY DEF Types, RowTypes
<1>3. PICK le, le1 : le = LogOf(events) /\ le1 = LogOf(events')
  OBVIOUS
<1>4. S \in SUBSET (1 .. Len(le)) /\ \A r \in S : le[r].parent = None /\ ~le[r].analysed
  <2>1. /\ DOMAIN events = 1 .. Len(le)
        /\ \A r \in DOMAIN events : /\ le[r].parent = events[r].parent
                                    /\ le[r].analysed <=> events[r].result # None
    BY <1>2, <1>3, LogOfIs
  <2> QED
    BY <2>1
<1>5. /\ le1 = [r \in 1 .. Len(le) |-> le1[r]]
      /\ \A r \in 1 .. Len(le) :
           le1[r] = IF r \in S THEN [le[r] EXCEPT !.analysed = TRUE] ELSE le[r]
  <2>1. PICK ev, ev1 : ev = events /\ ev1 = events'
    OBVIOUS
  <2>2. ev \in Seq(EventRow) /\ ev1 \in Seq(EventRow) /\ OnlyAnalysed(ev, ev1, S)
    BY <1>2, <2>1 DEF OnlyAnalysed
  <2>3. /\ LogOf(ev1) = [r \in 1 .. Len(LogOf(ev)) |-> LogOf(ev1)[r]]
        /\ \A r \in 1 .. Len(LogOf(ev)) :
             LogOf(ev1)[r] = IF r \in S THEN [LogOf(ev)[r] EXCEPT !.analysed = TRUE] ELSE LogOf(ev)[r]
    BY <2>2, LogAnalysed
  <2> QED
    BY <1>3, <2>1, <2>3
<1>6. Log!Analyse(S)
  BY <1>1, <1>3, <1>4, <1>5 DEF Log!Analyse, Log!None, None
<1> QED
  BY <1>3, <1>4, <1>6

(* Rows that are open are given an end.                                    *)
LEMMA LogEndsRows ==
  ASSUME Types, Types', StatementsSucceed, UNCHANGED may, NEW S \in SUBSET DOMAIN events,
         \A r \in S : events[r].closed = None, grid.gen # None, events' = ClosedIn(S)
  PROVE  /\ S \in SUBSET Log!OpenRows
         /\ UNCHANGED <<windows, ended>> => Log!Close(S)
         /\ windows # <<>> /\ ~windows[Len(windows)].closed /\ UNCHANGED ended
            /\ windows' = [windows EXCEPT ![Len(windows)].closed = TRUE] => Log!CloseWindow
<1>1. /\ LogWindows = windows /\ LogWindows' = windows'
      /\ LogEvents = LogOf(events) /\ LogEvents' = LogOf(events')
      /\ UNCHANGED ended => UNCHANGED LogEnded
      /\ ended' => LogEnded' = TRUE
  BY LogIs
<1>2. events \in Seq(EventRow) /\ events' \in Seq(EventRow)
  BY DEF Types, RowTypes
<1>3. PICK le, le1 : le = LogOf(events) /\ le1 = LogOf(events')
  OBVIOUS
<1>4. S \in SUBSET (1 .. Len(le)) /\ \A r \in S : ~le[r].closed
  BY <1>2, <1>3, LogOfIs
<1>5. /\ DOMAIN events' = DOMAIN events
      /\ \A r \in DOMAIN events :
           /\ events'[r].ch = events[r].ch /\ events'[r].window = events[r].window
           /\ events'[r].parent = events[r].parent /\ events'[r].result = events[r].result
           /\ r \in S => events'[r].closed # None
           /\ r \notin S => events'[r].closed = events[r].closed
  BY ClosedInTypes
<1>6. le1 = Log!Closed(S)
  <2>1. PICK ev, ev1 : ev = events /\ ev1 = events'
    OBVIOUS
  <2>2. ev \in Seq(EventRow) /\ ev1 \in Seq(EventRow) /\ OnlyClosed(ev, ev1, S)
    BY <1>2, <1>5, <2>1 DEF OnlyClosed
  <2>3. /\ LogOf(ev1) = [r \in 1 .. Len(LogOf(ev)) |-> LogOf(ev1)[r]]
        /\ \A r \in 1 .. Len(LogOf(ev)) :
             LogOf(ev1)[r] = IF r \in S THEN [LogOf(ev)[r] EXCEPT !.closed = TRUE] ELSE LogOf(ev)[r]
    BY <2>2, LogClosed
  <2>4. /\ le1 = [r \in 1 .. Len(le) |-> le1[r]]
        /\ \A r \in 1 .. Len(le) :
             le1[r] = IF r \in S THEN [le[r] EXCEPT !.closed = TRUE] ELSE le[r]
    BY <1>3, <2>1, <2>3
  <2> QED
    BY <1>1, <1>3, <2>4 DEF Log!Closed
<1>7. S \in SUBSET Log!OpenRows
  <2>1. Log!OpenRows = {r \in 1 .. Len(le) : ~le[r].closed}
    BY <1>1, <1>3 DEF Log!OpenRows
  <2> QED
    BY <1>4, <2>1
<1>8. UNCHANGED <<windows, ended>> => Log!Close(S)
  BY <1>1, <1>3, <1>6 DEF Log!Close
<1>9. windows # <<>> /\ ~windows[Len(windows)].closed /\ UNCHANGED ended
      /\ windows' = [windows EXCEPT ![Len(windows)].closed = TRUE] => Log!CloseWindow
  BY <1>1, <1>3, <1>6, <1>7 DEF Log!CloseWindow, Log!Listening, Log!Last
<1> QED
  BY <1>7, <1>8, <1>9

LEMMA LogEndsRun ==
  ASSUME StatementsSucceed, UNCHANGED <<may, events>>, ended',
         windows' = IF windows # <<>> /\ ~windows[Len(windows)].closed
                      THEN [windows EXCEPT ![Len(windows)].closed = TRUE] ELSE windows
  PROVE  Log!EndRun
<1>1. /\ LogWindows = windows /\ LogWindows' = windows'
      /\ LogEvents = LogOf(events) /\ LogEvents' = LogOf(events')
      /\ UNCHANGED ended => UNCHANGED LogEnded
      /\ ended' => LogEnded' = TRUE
  BY LogIs
<1> QED
  BY <1>1 DEF Log!EndRun, Log!Listening, Log!Last

(* A step that leaves the tables alone, or is taken where nothing is       *)
(* promised.                                                               *)
LEMMA LogStutters ==
  ASSUME UNCHANGED may, ~StatementsSucceed \/ UNCHANGED <<windows, events, ended>>
  PROVE  UNCHANGED Log!logVars
<1>1. StatementsSucceed' <=> StatementsSucceed
  BY DEF StatementsSucceed
<1> QED
  BY <1>1 DEF Log!logVars, LogWindows, LogEvents, LogEnded

-----------------------------------------------------------------------------
(* Each step of the loop is a step of SurveyLog, or writes nothing.         *)

LogStep == Log!Next \/ UNCHANGED Log!logVars

LEMMA LogTakes ==
  ASSUME ~ended
  PROVE  /\ (\E c \in Centres : Log!OpenWindow(c)) => LogStep
         /\ Log!Verdict => LogStep
         /\ (\E ch \in Channels : Log!Hear(ch)) => LogStep
         /\ (\E r, p \in Log!OpenRows : Log!Harmonic(r, p)) => LogStep
         /\ (\E R \in SUBSET (1 .. Len(LogEvents)) : Log!Analyse(R)) => LogStep
         /\ (\E R \in SUBSET Log!OpenRows : Log!Close(R)) => LogStep
         /\ Log!CloseWindow => LogStep
         /\ Log!EndRun => LogStep
<1>1. ~LogEnded
  BY DEF LogEnded
<1> QED
  BY <1>1 DEF LogStep, Log!Next

(* Where the windows are when a line is taken off.                         *)
LEMMA BookedWindow ==
  ASSUME Types, Registered, NEW a \in Heard, Book(a), a.at \in Visited, ~ended
  PROVE  /\ windows # <<>> /\ windowId = Len(windows) /\ logWindow = Len(windows)
         /\ windowId # None /\ windowId \in DOMAIN windows
         /\ ~windows[Len(windows)].closed /\ windows[Len(windows)].center = a.center
<1>1. Len(windows) = a.tunes /\ windowId = a.tunes /\ windows[a.tunes].center = a.center
      /\ a.tunes \in Nat /\ windowId \in {None} \cup DOMAIN windows
      /\ DOMAIN windows = 1 .. Len(windows)
  BY LenProperties DEF Book, Heard, Places, Types, LoopTypes
<1>2. windowId # None /\ a.tunes # 0
  BY <1>1 DEF None
<1>3. windows # <<>>
  BY <1>1, <1>2
<1>4. logWindow = a.tunes
  BY <1>2 DEF Book
<1> QED
  BY <1>1, <1>2, <1>3, <1>4 DEF Registered

LEMMA TunedStep ==
  ASSUME Types, AppliedInv, Asked, Ends, StatementsSucceed, UNCHANGED may,
         NEW a \in Heard, Footing(a), Book(a), NEW a1, Hears(a, a1), OnTuned
  PROVE  LogStep
<1>1. CASE pc # "tuned"
  BY <1>1, LogStutters DEF OnTuned, LogStep
<1>2. CASE pc = "tuned"
  <2>1. PICK m \in Lines : m = Head(out) /\ m.t = "tuned" /\ LineFits(may, a, m) /\ line = NoLine
    BY TakenIs DEF OnTuned
  <2>2. a.at = "none" /\ a.open = {}
    BY <2>1 DEF LineFits, Heard
  <2>3. m.center \in Centres
    <3>1. out # <<>> /\ out \in Seq(AskedLines)
      BY DEF OnTuned, Takes, Asked
    <3>2. m \in AskedLines
      BY <2>1, <3>1, QueueTail
    <3> QED
      BY <2>1, <3>2 DEF AskedLines
  <2>4. Now(a) = {}
    BY <2>1, <2>2 DEF Now, NoLine
  <2>5. \A c \in Channels : openRows[c] = None
    BY <2>2, <2>4 DEF Footing, Rows
  <2>6. \A r \in DOMAIN events : events[r].closed # None
    <3>1. \A r \in DOMAIN events : r # None
      BY LenProperties DEF Types, RowTypes, None
    <3> QED
      BY <2>5, <3>1 DEF Ends
  <2>7. windows # <<>> => windows[Len(windows)].closed
    <3>1. windows \in Seq(WindowRow) /\ DOMAIN windows = 1 .. Len(windows) /\ Len(windows) \in Nat
      BY LenProperties DEF Types, LoopTypes
    <3>2. windows # <<>> => Len(windows) \in DOMAIN windows /\ Len(windows) # None
      BY <3>1, EmptySeq DEF None
    <3> QED
      BY <2>2, <3>2 DEF Book
  <2>8. PICK c : c = m.center
    OBVIOUS
  <2>9. windows' = Append(windows, [center |-> c, closed |-> FALSE, linear |-> None])
        /\ UNCHANGED <<events, ended>>
    BY <1>2, <2>1, <2>8 DEF OnTuned
  <2>10. ~ended
    BY <1>2 DEF AppliedInv
  <2>11. Log!OpenWindow(c)
    BY <2>3, <2>6, <2>7, <2>8, <2>9, LogOpensWindow
  <2> QED
    BY <2>3, <2>8, <2>10, <2>11, LogTakes
<1> QED
  BY <1>1, <1>2

LEMMA LinearityStep ==
  ASSUME Types, AppliedInv, Registered, StatementsSucceed, UNCHANGED may, NEW a \in Heard, Book(a),
         NEW a1, Hears(a, a1), OnLinearity
  PROVE  LogStep
<1>1. PICK m \in Lines : m = Head(out) /\ m.t = "linearity" /\ LineFits(may, a, m)
  BY TakenIs DEF OnLinearity
<1>2. a.at \in Visited /\ m.center = a.center
  BY <1>1 DEF LineFits, Visited
<1>5. ~ended
  BY DEF AppliedInv, OnLinearity, Handling
<1>3. /\ windows # <<>> /\ windowId = Len(windows) /\ windowId # None
      /\ ~windows[Len(windows)].closed /\ windows[Len(windows)].center = a.center
  BY <1>2, <1>5, BookedWindow
<1>4. windows' = [windows EXCEPT ![Len(windows)].linear = windows[Len(windows)].center]
      /\ UNCHANGED <<events, ended>>
  BY <1>1, <1>2, <1>3 DEF OnLinearity
<1>6. Log!Verdict
  BY <1>3, <1>4, LogVerdict
<1> QED
  BY <1>5, <1>6, LogTakes

LEMMA StartStep ==
  ASSUME Types, Registered, Ends, StatementsSucceed, UNCHANGED may, ~ended, NEW a \in Heard,
         Footing(a), Book(a), ReplayStart
  PROVE  LogStep
<1>1. PICK ch \in Channels : events' = Started(ch) /\ ch \in line.s /\ openRows[ch] = None
  BY StartIs
<1>2. line # NoLine
  BY <1>1, LineHas DEF Types, LoopTypes
<1>3. a.at \in Visited
  BY <1>2 DEF Footing, Placed, Visited
<1>4. windows # <<>> /\ ~windows[Len(windows)].closed /\ logWindow = Len(windows)
  BY <1>3, BookedWindow
<1>5. \A r \in DOMAIN events : r # None
  BY LenProperties DEF Types, RowTypes, None
<1>6. \A r \in DOMAIN events : events[r].closed = None => events[r].ch # ch
  BY <1>1, <1>5 DEF Ends
<1>7. UNCHANGED <<windows, ended>>
  BY DEF ReplayStart, ReplayUnchanged
<1>8. Log!Hear(ch)
  BY <1>1, <1>4, <1>6, <1>7, LogHears
<1> QED
  BY <1>8, LogTakes

LEMMA DecideStep ==
  ASSUME Types, Ends, StatementsSucceed, UNCHANGED <<may, windows, ended>>, ~ended, NEW a \in Heard,
         Footing(a), line.s = {}, NEW d \in line.due \cup line.fin, Decide(d)
  PROVE  LogStep
<1>1. d \in Decisions
  BY LineHas DEF Types, LoopTypes
<1>2. CASE UNCHANGED events
  BY <1>2, LogStutters DEF LogStep
<1>3. CASE /\ d.k = "h" /\ openRows[d.ch] # None /\ openRows[d.parent] # None
           /\ openRows[d.ch] \in DOMAIN events /\ openRows[d.parent] \in DOMAIN events
           /\ events' = Marked(openRows[d.ch], openRows[d.parent])
  <2>1. PICK r, p : r = openRows[d.ch] /\ p = openRows[d.parent]
    OBVIOUS
  <2>2. d.ch \in Channels /\ d.parent \in Channels
    BY <1>1, <1>3, DecisionFields
  <2>3. r \in DOMAIN events /\ p \in DOMAIN events /\ r # p /\ Undecided(r)
    <3>1. Undecided(r) /\ \A c \in Now(a) \ {d.ch} : openRows[c] # r
      BY <1>3, <2>1, DecidingRow
    <3>2. d.parent \in Now(a) \ {d.ch}
      BY <1>3, DecidingRow
    <3> QED
      BY <1>3, <2>1, <3>1, <3>2
  <2>4. events[r].closed = None /\ events[p].closed = None
    BY <1>3, <2>1, <2>2 DEF Ends
  <2>5. events[r].parent = None /\ events[r].result = None /\ events' = Marked(r, p)
    BY <1>3, <2>1, <2>3 DEF Undecided
  <2>6. r \in Log!OpenRows /\ p \in Log!OpenRows /\ Log!Harmonic(r, p)
    BY <2>3, <2>4, <2>5, LogMarks
  <2> QED
    BY <2>6, LogTakes
<1> QED
  BY <1>1, <1>2, <1>3, DecideCases

LEMMA CollectStep ==
  ASSUME Types, Types', Sound, Once, StatementsSucceed, UNCHANGED <<may, windows, ended>>, ~ended,
         Collect
  PROVE  LogStep
<1>1. PICK S : S = {r \in DOMAIN events : events'[r].result # events[r].result}
  OBVIOUS
<1>2. /\ DOMAIN events' = DOMAIN events
      /\ \A r \in DOMAIN events :
           /\ events'[r].ch = events[r].ch /\ events'[r].window = events[r].window
           /\ events'[r].parent = events[r].parent /\ events'[r].closed = events[r].closed
           /\ \/ events'[r].result = events[r].result
              \/ \E i \in DOMAIN results : results[i].row = r
  BY CollectTypes
<1>3. ASSUME NEW r \in S
      PROVE  events[r].parent = None /\ events[r].result = None /\ events'[r].result # None
  <2>1. r \in DOMAIN events /\ events'[r].result # events[r].result
    BY <1>1, <1>3
  <2>2. r \in RowsOf
    BY <1>2, <2>1 DEF RowsOf
  <2>3. events[r].result = None
    BY <2>1, <2>2 DEF Once
  <2>4. events[r].parent = None
    BY <2>1, <2>2 DEF Sound, Harmonic
  <2> QED
    BY <2>1, <2>3, <2>4
<1>4. /\ S \in SUBSET DOMAIN events
      /\ \A r \in S : events[r].parent = None /\ events[r].result = None
      /\ \A r \in DOMAIN events :
           /\ events'[r].ch = events[r].ch /\ events'[r].window = events[r].window
           /\ events'[r].parent = events[r].parent /\ events'[r].closed = events[r].closed
           /\ r \in S => events'[r].result # None
           /\ r \notin S => events'[r].result = events[r].result
  BY <1>1, <1>2, <1>3
<1>5. \E R \in SUBSET (1 .. Len(LogOf(events))) : Log!Analyse(R)
  BY <1>2, <1>4, LogAnalyses
<1>6. LogEvents = LogOf(events)
  BY LogIs
<1> QED
  BY <1>5, <1>6, LogTakes

LEMMA EndStep ==
  ASSUME Types, Types', Ends, StatementsSucceed, UNCHANGED may, ~ended, NEW a \in Heard, Footing(a),
         ReplayEnd
  PROVE  LogStep
<1>1. Ending \in line.e /\ Ending \in Channels /\ events' = ClosedIn({openRows[Ending]} \ {None})
  BY EndIsClosed
<1>2. line # NoLine
  BY <1>1, LineHas DEF Types, LoopTypes
<1>3. grid.gen # None
  BY <1>2 DEF Footing, Placed, Heard, Places, None
<1>4. PICK S : S = {openRows[Ending]} \ {None}
  OBVIOUS
<1>5. S \in SUBSET DOMAIN events /\ \A r \in S : events[r].closed = None
  BY <1>1, <1>4, OpenRow DEF Ends
<1>6. UNCHANGED <<windows, ended>>
  BY DEF ReplayEnd, ReplayUnchanged
<1>7. S \in SUBSET Log!OpenRows /\ Log!Close(S)
  BY <1>1, <1>3, <1>4, <1>5, <1>6, LogEndsRows
<1> QED
  BY <1>7, LogTakes

LEMMA CloseStep ==
  ASSUME Types, Types', AppliedInv, Registered, Ends, StatementsSucceed, UNCHANGED may,
         NEW a \in Heard, Footing(a), Book(a), NEW a1, Hears(a, a1), OnClose
  PROVE  LogStep
<1>1. PICK m \in Lines : m.t = "close" /\ LineFits(may, a, m)
  BY TakenIs DEF OnClose
<1>2. a.at = "open" /\ a.at \in Visited
  BY <1>1 DEF LineFits, Visited
<1>3. grid.gen # None
  BY <1>2 DEF Footing, Placed, Heard, Places, None
<1>4. windows # <<>> /\ windowId = Len(windows) /\ windowId # None /\ ~windows[Len(windows)].closed
  <2>1. ~ended
    BY DEF AppliedInv, OnClose, Handling
  <2> QED
    BY <1>2, <2>1, BookedWindow
<1>5. PICK S : S = {r \in DOMAIN events : \E c \in Channels : openRows[c] = r}
  OBVIOUS
<1>6. events' = ClosedIn(S)
  BY <1>5 DEF OnClose, ClosedIn
<1>7. \A r \in DOMAIN events : r # None
  BY LenProperties DEF Types, RowTypes, None
<1>8. S \in SUBSET DOMAIN events /\ \A r \in S : events[r].closed = None
  BY <1>5, <1>7 DEF Ends
<1>9. windows' = [windows EXCEPT ![Len(windows)].closed = TRUE] /\ UNCHANGED ended
  BY <1>4 DEF OnClose, WindowsClosed
<1>10. ~ended
  BY DEF AppliedInv, OnClose, Handling
<1>11. Log!CloseWindow
  BY <1>3, <1>4, <1>6, <1>8, <1>9, LogEndsRows
<1> QED
  BY <1>10, <1>11, LogTakes

LEMMA EndRunStep ==
  ASSUME Types, AppliedInv, Registered, StatementsSucceed, UNCHANGED may, NEW a \in Heard, Book(a),
         EndRun
  PROVE  LogStep
<1>1. windows \in Seq(WindowRow) /\ DOMAIN windows = 1 .. Len(windows) /\ Len(windows) \in Nat
      /\ windowId \in {None} \cup DOMAIN windows
  BY LenProperties DEF Types, LoopTypes
<1>2. windows # <<>> => Len(windows) \in DOMAIN windows
  BY <1>1, EmptySeq
<1>3. windows' = IF windows # <<>> /\ ~windows[Len(windows)].closed
                   THEN [windows EXCEPT ![Len(windows)].closed = TRUE] ELSE windows
  <2>1. CASE windowId = None
    <3>1. windows # <<>> => windows[Len(windows)].closed
      BY <1>1, <1>2, <2>1 DEF Book, None
    <3> QED
      BY <2>1, <3>1 DEF EndRun, WindowsClosed
  <2>2. CASE windowId # None
    <3>1. windowId = Len(windows) /\ ~windows[Len(windows)].closed
      BY <2>2 DEF Registered
    <3>2. windows # <<>>
      BY <1>1, <2>2, <3>1
    <3> QED
      BY <2>2, <3>1, <3>2 DEF EndRun, WindowsClosed
  <2> QED
    BY <2>1, <2>2
<1>4. ended' /\ UNCHANGED events /\ ~ended
  BY DEF EndRun, AppliedInv
<1>5. Log!EndRun
  BY <1>3, <1>4, LogEndsRun
<1> QED
  BY <1>4, <1>5, LogTakes

(* Every step is one of SurveyLog, or none.                                *)
LEMMA StepOfLog ==
  ASSUME Types, Types', AppliedInv, Sound, Followed, Promised, [Next]_vars
  PROVE  LogStep
<1>1. UNCHANGED may
  BY DEF Next, Engine, Orchestrator, Worker, TakeJob, FinishJob, WorkerDies, WorkerUnchanged, Sigint,
         Stopped, vars
<1>2. CASE ~StatementsSucceed \/ UNCHANGED <<windows, events, ended>>
  BY <1>1, <1>2, LogStutters DEF LogStep
<1>3. CASE StatementsSucceed /\ Orchestrator
  <2>1. PICK a, b, t, u : Chain(a, b, t, u) /\ Footing(a) /\ Logged(a)
    BY <1>3 DEF Followed
  <2>2. a \in Heard /\ Book(a) /\ Asked /\ Registered /\ Once /\ Ends
    BY <1>3, <2>1 DEF Chain, Spoken, Logged, Promised
  <2>3. PICK a1 : Hears(a, a1)
    BY <1>3, <2>1, OrchestratorChain
  <2>4. CASE Handle
    BY <1>1, <1>2, <1>3, <2>1, <2>2, <2>3, <2>4, TunedStep, LinearityStep, CloseStep
       DEF Handle, OnWindow, OnFrame, EngineEnds, Goes, dbVars
  <2>5. CASE Replay
    <3>1. UNCHANGED <<windows, ended>>
      BY <2>5 DEF Replay, ReplayStart, ReplayDue, ReplayLast, ReplayEnd, ReplayUnchanged
    <3>2. ~ended
      <4>1. line # NoLine
        BY <2>5 DEF Replay, ReplayStart, ReplayDue, ReplayLast, ReplayEnd, NoLine
      <4> QED
        BY <4>1 DEF AppliedInv, Closing
    <3>3. CASE ReplayDue \/ ReplayLast
      <4>1. PICK d \in line.due \cup line.fin : line.s = {} /\ Decide(d)
        BY <3>3 DEF ReplayDue, ReplayLast
      <4> QED
        BY <1>1, <1>3, <2>1, <2>2, <3>1, <3>2, <4>1, DecideStep
    <3> QED
      BY <1>1, <1>3, <2>1, <2>2, <2>5, <3>2, <3>3, StartStep, EndStep DEF Replay
  <2>6. CASE Pumped \/ CollectLast
    <3>1. Collect /\ ~ended /\ UNCHANGED <<windows, ended>>
      BY <2>6 DEF Pumped, CollectLast, AppliedInv
    <3> QED
      BY <1>1, <1>3, <2>2, <3>1, CollectStep
  <2>7. CASE Finish
    BY <1>1, <1>2, <1>3, <2>2, <2>6, <2>7, EndRunStep
       DEF Finish, SendStop, DrainSkips, DrainEnds, Reap, PutNone, Goes, dbVars
  <2>8. CASE OpenWindow \/ PumpOn \/ DwellOver \/ StopSeen \/ WaitTimesOut
    BY <1>2, <2>8 DEF OpenWindow, PumpOn, DwellOver, StopSeen, WaitTimesOut, Goes, dbVars
  <2>9. ~StatementFails
    BY <1>3 DEF StatementFails, FrameFails, CloseFails, WindowFails, CollectFails, Fails,
                StatementsSucceed
  <2> QED
    BY <1>3, <2>4, <2>5, <2>6, <2>7, <2>8, <2>9 DEF Orchestrator
<1>4. CASE Engine \/ Worker \/ WorkerDies \/ Sigint \/ UNCHANGED vars
  BY <1>2, <1>4 DEF Engine, Worker, TakeJob, FinishJob, WorkerDies, WorkerUnchanged, Sigint, vars,
                    dbVars
<1> QED
  BY <1>2, <1>3, <1>4 DEF Next, Stopped

LEMMA InitOfLog == Init => Log!Init
<1> SUFFICES ASSUME Init PROVE Log!Init
  OBVIOUS
<1>1. windows = <<>> /\ events = <<>> /\ ended = FALSE /\ DOMAIN events = {}
  BY DEF Init
<1>2. LogEvents = <<>>
  BY <1>1 DEF LogEvents
<1> QED
  BY <1>1, <1>2 DEF Log!Init, LogWindows, LogEnded

(* The loop implements SurveyLog: as long as no statement fails -- the     *)
(* engine may stall, or be killed, and the analysis process die -- every   *)
(* step that writes to the database is one that SurveyLog allows.          *)
THEOREM LoopImplementsLog == Spec => ImplementsSurveyLog
<1>1. Promised /\ Types /\ AppliedInv /\ Sound /\ Followed /\ [Next]_vars => Promised'
  BY PromisedNext
<1>2. /\ Promised /\ Types /\ AppliedInv /\ Sound /\ Followed /\ [Next]_vars
      => [Log!Next]_(Log!logVars)
  <2> SUFFICES ASSUME Promised, Types, AppliedInv, Sound, Followed, [Next]_vars
               PROVE  [Log!Next]_(Log!logVars)
    OBVIOUS
  <2>1. Types'
    BY NextTypes
  <2> QED
    BY <2>1, StepOfLog DEF LogStep
<1> QED
  BY <1>1, <1>2, PromisedInit, InitOfLog, Invariance, PTL
     DEF Spec, ImplementsSurveyLog, Log!Spec
=============================================================================
