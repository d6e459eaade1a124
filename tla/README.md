# TLA+ specifications of rf-survey

rf-survey listens to two radio receivers on a small field computer, detects
transmissions, and records in one SQLite database which channel was busy, when,
in which coverage window, and what kind of signal it was. These modules model
the parts of it where several threads or processes must agree, or where a
failure can come between two steps, and check what makes the records true.

## 1. Inventory

| Component | Source | State | Operations | Correct when |
|---|---|---|---|---|
| Engine: reader thread | `engine/src/main.rs` 222-364 | window open or not, empty reads in a row | `open`, `stop` commands between reads; samples, overflow, nothing, end of file | every way out closes the window first; nothing is reordered around a retune |
| Engine: dsp thread | `main.rs` 366-620 | detector, open channels, pending analyses, ring | a frame: events start, analyses are decided, events end; open and close a window | a line says what was heard in its own window |
| Engine: process | `main.rs` 78-83, 626-776 | threads, channels, the lock of stdout, the pipe | start, join, flush, `fatal()` | it always exits when told, having said everything |
| Event tracker | `engine/src/dsp.rs` 304-450; `src/survey_prototype.py` 349-419 | counters of hot and cold frames, a short memory of frame starts | one frame | events are what the thresholds and durations define, with their dates |
| Shared sample ring | `engine/src/ring.rs`; `read_ring()` in `src/engine_loop.py` | samples, count, generation | push, reset, copy out and re-check | a copy that is kept is what was asked for |
| Orchestrator | `src/engine_loop.py` 160-620 | window, grid, open rows, deadlines | rotate windows, replay the engine's lines, collect results, finish | each event belongs to the window it was heard in; the run is ended |
| Analysis process | `src/engine_loop.py` 82-149 | job in hand | take a job, copy, analyse, answer | a late result never lands on a row of another band |
| Python capture loop | `src/survey_prototype.py` 176-227, 1213-2541 | the same as engine and orchestrator, in one process | the same, with a worker thread; the gain sweep of `Radio.linearity()`; `CaptureStore` | the same; the gain is the configured one when frames are read; captures stay in their budget |
| Event log | `EventLog`, `src/db.py` | open rows, window id | start, mark_harmonic, apply, close | rows are attributed once and closed once |
| Schema upgrade | `src/db.py` 56-100, `src/migrate.py`, `src/schema_v2.sql` | version stamp, tables, lock file | `init_schema()` | the stamp is the version of the tables; every start succeeds |
| Enrichment and rollup | `src/enrich.py`, `src/bandplan.py` | tables `channels`, `pairs`, the tags of `events` | `tag`, `rollup`, `pair`, `score`, in transactions of their own | the derived tables are a function of the events; notes survive; a tier is backed by what was heard |
| Band plan | `tools/seed_band_plan.py`, `src/bandplan.py` | the list of channels | `add_windows()`, `lookup()` | no frequency belongs to two channels of a service |
| Tone decoding | `src/dcs.py`, `decode_dcs()`, end of `analyze_analog()` | none | a stream of bits to a code, or to none | a row is given the code that was sent |
| Noise floor, overload, spectrum | `dsp.rs` 1-302, 452-533 | history per channel | one frame | the floor is the quiet level, active channels left out |
| Status, deck tools | `src/status.py`, `tools/` | one file per receiver | publish, read | a reader sees whole files |
| Boot and watchdog | `systemd/` | escalation level | restart, renew, reassociate | repairs back off |

**How they interact.** There are two capture loops over the same radio and the
same database. In the newer one the orchestrator starts the engine as a child:
commands go down its stdin, decisions come back as lines on its stdout and are
queued by a thread of the orchestrator. Inside the engine the reader feeds the
dsp thread through a bounded channel (it blocks when full), the dsp thread feeds
the writer through an unbounded one. The dsp thread writes samples into a ring
in shared memory; the analysis process, a fork of the orchestrator, reads slices
of it when it gets to their jobs. Jobs and results are two queues, the first
bounded. The older loop does all of it in one Python process, whose analyses are
made by a second thread. Both receivers' loops write the one database, in which the enricher, a process of its own that
is run now and then or after a survey, derives `channels` and `pairs` from
`events`, and in which the operator writes notes.

**What is hard.** A retune travels behind frames, decisions and results of the
window before it, through three queues; the ring is overwritten while it is
read; results arrive after their rows are closed; the engine, the analysis
process or a database statement may fail at any point of a handler, and
`finish()` runs on whatever that leaves; deadlines; a process killed between two
commits; a rebuild of `channels` whose reads and writes are separate
transactions, while events, analyses and notes are written between them; a code
with no word boundaries, received with bits wrong. `PROJECT.json` lists these
hazards at their lines.

## 2. Modules

| Module | Models | Composition |
|---|---|---|
| `SurveyLog` | what a capture loop promises the database, abstractly | refined by `EngineLoop` and by `CaptureLoop` (`ImplementsSurveyLog` in each) |
| `RustEngine` | reader and dsp threads, up to the lines they emit | extended by `EngineLoop` |
| `EngineLoop`, `EngineLoop_proofs` | orchestrator, analysis process, tables `coverage_windows`, `events`, `runs` | `RustEngine` and orchestrator in one specification; proofs |
| `CaptureLoop`, `CaptureLoop_proofs` | the Python engine, with its analysis thread, the sweep of the gain and the captures | on its own; proofs |
| `EngineProcess`, `EngineProcess_proofs` | the engine's threads as an operating system sees them | on its own; proofs |
| `ShmRing`, `ShmRing_proofs` | the ring, one load or store at a time | on its own; proofs |
| `Squelch` | what a transmission is, over whole frames | refined by `EventTracker` |
| `EventTracker`, `EventTracker_proofs` | `Detector.step()` after the floor, `EventTracker.update()` | refinement of `Squelch`; proofs |
| `SchemaInit`, `SchemaInit_proofs` | `init_schema()` and `migrate.apply()` for several processes | on its own; proofs |
| `BandPlan` | `add_windows()`, `lookup()`, the choice among services | operators; extended by `Rollup` |
| `Rollup` | how a row of `channels` is made of the events of one key, its tier, the pairs | operators; extended by `Enrich` and `Evidence` |
| `Enrich`, `Enrich_proofs` | `run_all()` on a database in use: detector, enricher, operator, kills | over `Rollup`; proofs |
| `Dcs` | the Golay code, the decoder, the inverted pairs, the tone of a row | operators; extended by `Evidence` |
| `Evidence`, `Evidence_proofs` | what the rules are given, as it comes in: bits with noise, events, channels | over `Rollup` and `Dcs`; proofs |
| `MC*` | values of constants for TLC | |

### RustEngine and EngineLoop

One variable per piece of state: `reader`, `stalled`, `todo` are the reader
(`todo` is the rest of the messages of the handler it is in, each sent by one
blocking `Send`); `toDsp` is the channel; `det`, `ring`, `open`, `pending` are
the fields of `Dsp`; `out` is everything between `Dsp::emit` and the
orchestrator's inbox, which is a FIFO however it is cut (writer's channel,
pipe, inbox queue). `pc` says where `go()` is: `open`, `tuned` and `window`
(the two `_wait_for` calls of `open_window()`), `pump`, `check` (the loop
conditions), and the stages of `finish()`: `finish`, `drain`, `reap`, `put`,
`collect`, `end`. A line is handled by one action (`OnTuned`, `OnWindow`,
`OnLinearity`, `OnClose`), but a frame's line is replayed act by act
(`Replay*`), because other processes may step between two of its database
statements or jobs.

Data is abstracted to what tells windows apart. A sample's time is a count of
frames; a window is its centre and the engine's generation; a level is left out.
Which channels start or end in a frame and which of two related channels is the
louder are nondeterministic choices, a superset of what the detector does. Two
fields are history: a frame line and an event row remember the generation they
were heard in, which is what the properties compare with.

`finish()` leaves its drain on the `__eof__` that ends the pipe, or when the
engine has exited and the inbox has been empty for half a second (`Quiet`),
whatever is still on its way to the inbox then: nothing in the code asks for
that, so what is left in `out` is never read. It collects until the analysis
process has gone, or for 30 s, after which the process is terminated (`EndRun`)
with what is queued for it, in its hand, or answered since.

A behaviour has the failures of one of `Kinds`: `stall` (empty reads), `overflow`, `fatal`
(a tune fails; the reader never returns, see `EngineProcess`), `crash` (the
engine is killed, with any suffix of its lines lost), `worker` (the analysis
process is killed), `db` (a database statement raises, in any handler, in
`finish()` too), `slow` (the two 30 s of `finish()`, of the drain and of the
last results, may be over at any moment: `Overdue`).

### CaptureLoop

The main thread is `pc` and the rest of the frame in hand (`line`: the channels
that start, the analyses that are due, the channels that end); the analysis
thread is `worker`. `pc` goes through `run()` from the configured radio on
(`configure`, `start`, `register`, `stream`), then `go()` (`open`, `probe`,
`read`, `close`) and the stages of `finish()` (`stop`, `join`, `collect`,
`last`, `end`). `run()`'s first steps are not under `go()`'s `finally`, so what
raises there, SIGINT included, ends the process at once. A frame is read whole,
then handled channel by channel, because the analysis thread steps in between.

Time is counted in frames and the radio's gain in steps of the sweep. A band is
what `FrontEnd` says of it: the floor of its noise, in tenths of a dB, at each
gain, which may be anything but does not change in a run. So a front end that
compresses a little (a last step of 0.7 of the one before, or more) is recorded
as linear, as in the code, and one whose first step is under 2 dB is
inconclusive. `ProbeGain` records one floor, `EndSweep` takes the verdict,
`ProbeHearsNothing` is a gain at which no read delivered a frame, and
`SkipSweep` a sweep that would leave the range of the receiver. `store` is
`CaptureStore`: what has been written, and the rows that point to a file; it
stops for good at its budget and, in a behaviour with `disk`, at `FreeSpace`
(`MIN_FREE_MB`). A statement that fails while results are collected (`DbRaises`)
leaves the files of the results before it, and its own, written and charged.

`may` is the set of failures of a behaviour: `stall` (empty reads, or a radio
that delivers nothing any more: `dead`), `overflow`, `radio` (a call of the
driver raises), `profile` (`check_antenna()` raises), `db`, `disk`, `slow` (the
analysis thread does not answer `stop()` within its 5 s). `keep` is
`--capture-dir` and `top` a configured gain near the receiver's highest: they
are kept there because a behaviour has them or not.

### ShmRing

`push()` is `BeginPush`, one `CopyIn` per sample in any order, `EndPush` (the
store of `written`); `reset()` is two stores. `read_ring()` is four loads of the
header and a copy per sample. A sample is its generation and its index, so a
copy shows what it is of. Steps take effect in program order: neither the Rust
nor the Python code has a fence, and what a weakly ordered processor may make of
that is not modelled.

### EventTracker

The whole of a frame is one action, as in the code. `frames` is history: it is
what `Squelch` is said over. The peak level of an event is left out.

### SchemaInit

The commits of `init_schema()` are separate actions; the tables are the set of
migrations they contain. `Crash` is a `kill`, after which the kernel drops the
lock file; `PowerCut` takes the database back to any commit since the last
sync, as `synchronous = NORMAL` allows under a write-ahead log.

### EngineProcess

Lines are reduced to their kind; what matters is who waits for whom. `lock` is
the lock of stdout, which the writer thread takes once and keeps. `Faults` has
`fatal` (the configuration, the device, the file or a tune fails, and the thread
is left in `fatal()`) and `orphan` (the orchestrator dies: its end of stdin is a
stop, and a write to its pipe fails).

### Rollup and Enrich

A frequency, a time lag and a level are small integers; a row of the band plan
is a record. `Row(evs)` is what `rollup()` computes of the events of one key,
column by column (`Ranked`, `Modal`, `TwiceMedian`, `Tone`, the choice of a
service by deviation), `Tier` is `_tier()` and `Paired` the test of `pair()`.

`Enrich` gives the four passes their real grain: a statement that reads is one
action, a transaction is one action, and what was read is held in `read` until
the transaction that uses it. Between any two of them the detector writes
(`Detect` and `MarkHarmonic` are two statements, `Analyse`, `Close`), the
operator writes a note, or the enricher is `Killed`, which rolls back the open
transaction. The rows of `channels` are a sequence because their position is
their id, which the links and pairs hold. `fresh` and `kept` are history: that
nothing was detected since the enricher was started, and the notes that were
written when no rebuild had read the notes already (a note saved in that short
time is overwritten: `enrich.py:207`; a hazard, and not counted as kept).

### Dcs and Evidence

A word of 23 bits and a stream of bits are the sets of the places of their ones.
`Dcs` has `dcs.py` (the Golay code over its polynomial, the table of syndromes,
the fixed triple, the list of standard codes, the pairs) and `decode_dcs()` from
the sliced bits on, then the order of the tests in `analyze_analog()` and the
row's `tone_state`. What `dcs.py` asserts on import is an `ASSUME` there.
Filters, clock recovery and the spectrum of the tones are numeric and left out:
`Analysis` is given what they come to, the deviation of the strongest tone and
of the whole subaudible band in Hz, and has the code's thresholds on them (a
capture of 0.5 and 100 Hz for a tone; under 0.3 and 150 Hz for a suspected
code).

`Evidence` is the state machine the rules are checked in: a behaviour keys up a
code and lets noise turn bits of it over one at a time, or hears
events on one frequency one at a time with what analysis found of each, or
seeds a list of channels one at a time. Its invariants say what the code's
answers mean in terms of that evidence (four in five, at least half, one
channel per frequency), not how they are computed.

## 3. Runs

| Run | Question | Bounds |
|---|---|---|
| `rotate` | Do events, verdicts, analyses and closes stay in their window? | 2 windows, 3 visits, a recording, or deadlines that pass in `finish()`; 3 reads; 2 channels of which one may be a harmonic of the other; an analysis of 3 frames; channel of 2, job queue of 1, ring of 3 frames |
| `faults` | And when the engine stalls, crashes or cannot tune, the analysis process is killed, or a statement fails? Does the run end? | the same, 2 visits, 2 reads, an analysis of 2 frames; four kinds of behaviour, each with its failures, one of them a recording with deadlines that pass in `finish()` |
| `capture` | The same of the Python loop, with the gain sweep and the captures | 2 windows (one band not yet out of its own noise at the gain, then rising by 10 and 8 dB; one rising by 10 and 6.5), 2 visits, 3 reads, 2 channels, job queue of 1, ring of 3 frames, gain 2 of 0 to 4 (of 0 to 3 with `top`), budget of 3 frames, a disk with room for 1; three sets of failures, or a simulated radio |
| `stall` | Does a dead stream end the run, as the code says? | as `capture`, a dwell of 1 read |
| `exit` | Does the engine exit, with everything said? | channel of 2, pipe of 1 line, 4 frames |
| `fatal` | Is a fatal error reported? | as `exit`, 2 frames |
| `ring_read` | Has the ring what it says? Is a copy that is kept good? | ring of 4 samples, pushes of 1 and 2, 2 generations of up to 7 samples |
| `tracker_squelch` | Is the tracker the definition? | 2 channels, 4 levels, a minimum of 2 and a hang of 3 frames, 5 frames |
| `schema_starts` | Two receivers start at once, are killed, lose power | 2 processes started up to 2 times each, 3 migrations of which one is repeatable, no database or one of any version, a newer one included |
| `enrich` | Are the derived tables right, in use and after kills? | 2 events on a shared repeater output or its input, any order of their statements, enricher and operator unbounded |
| `notes` | Do all notes survive? | 2 events in a segment with no channels |
| `evidence` | Do codes, tones, services and windows mean what the evidence says? | all 104 codes both ways; 3 words of 023 from a place inside one, with up to 3 bits of the middle word wrong; 5 events; 3 channels of 2 services with any spacing |

Why the bounds are enough: every property of the loops relates one event or job
to at most two windows, so two visits with different centres show a mix-up, and
a third what a window leaves to the one after the next; a queue of one and a
channel of two are already full, partly full and empty; the ring wraps twice
within a generation. The tracker's frames are just enough for an event to begin
and end during or after the first frames, or for a dip to be forgotten; longer
ones, frames of unequal lengths and pushes longer than the ring are covered by
the proofs. Three migrations have one before, one at and one after any
interruption. Two events are enough for a bucket to move (the median of two is
not either), for a pair, and for a link that goes wrong; three bits are what the
Golay code corrects, and three words the fewest of which a majority can differ
from one; five events are the fewest for which four in five is not all of them.

Deadlock is checked in `rotate`, `capture`, `ring_read` and `enrich`: a loop may
stop only when it is done, which is a step of its own. It is off in `faults`,
where `finish()` may block for good (below), in `EngineProcess` (an exited
process), in `EventTracker` and `Evidence` (their bounds), and in `SchemaInit`
(all processes done).

### Fairness

Liveness (`RunEnds` of both loops, `StopEnds`, `EveryStartFinishes`,
`EarlyFatalIsReported`) assumes weak fairness of each thread or process as a
whole: whatever has a step to take eventually takes one, which the operating
system's scheduler gives. Nothing external is fair: that frames arrive, that a
signal comes, that a fault happens or does not. The device's read has a timeout
of 2 s (`READ_TIMEOUT_US`), so the reader thread too always goes on. An
orchestrator is one process with one thread, so its fairness is one condition,
not one per action; of `CaptureLoop` there are two, its main thread (`Main`) and
its analysis thread (`Worker`). The deadlines of `_wait_for()` pass only when the
engine hangs with nothing left to say (`Late`), and so do the 10 s it is given to
exit (`Stuck`): a live engine is taken to answer within them. Those of
`finish()`, two of 30 s, also pass before a live engine or analysis process is
done, in the behaviours that have `slow`.

### What the violated runs show

* `stall` -- `systemd/README.md:87-88` says the Python engine exits non-zero after
  `STALL_FRAMES` consecutive empty reads. The count is set to zero at every
  retune (`survey_prototype.py:2063`), and those reads take longer than any
  dwell of the shipped profiles: a rotating receiver with a dead stream goes
  round its windows for ever, recording empty coverage. `RunEnds` of `capture`
  holds all the same because there a dwell is as long as the count.
* `notes` -- `enrich.py:207`: "Hand-written notes survive." They are read under
  the frequency of the row and looked up under the key of its bucket. For a row
  that belongs to no channel of the band plan the key is a bin and the frequency
  a median, so the note is not found and the rebuild deletes it.
  `ChannelNotesSurvive` of `enrich` says what does hold: on a channel's row a
  note is kept.
* `fatal` -- `fatal()` prints, and the writer thread holds the lock of stdout
  for life, so a failed device open or tune is never reported and the process
  never exits; the orchestrator finds out by its own deadline.

### What the models reach and no run reports

These are hazards of `PROJECT.json` whose property states its exception, or
things met while modelling, some of which a comment of the code has otherwise.

* *A last close that is not taken.* "Stop the engine and take everything it
  still has to say, including the close of the last window" (`engine_loop.py`
  566-567), but the drain also ends when the engine has exited and the inbox has
  been empty for half a second (575), without asking whether the reading thread
  has passed on all there is in the pipe. The close is then never handled, and
  its events have no end in a run that has one. That thread has to be held up
  for half a second, so this is rare; `ClosedInOwnWindow` says that nothing but
  lines that were not read leaves an event open.
* *An analysis process that is too slow.* After 30 s `finish()` terminates it,
  and the analyses that were queued are lost although the comment above
  (595-596) lets them finish; `AnalysesApplied` excludes it (`Overdue`), and says
  that the process has not outlived the run.
* *A note saved in the middle of a rebuild.* `rollup()` reads the notes before
  its transaction, so a note that is saved in between is deleted with its row
  (`enrich.py:215`, 328-342). `ChannelNotesSurvive` says nothing of it.
* *A dead analysis process.* `finish()` ends it with a blocking `jobs.put(None)`
  (`engine_loop.py:598`): if it has died with the queue full, `finish()` stays
  there, the window and the run are not ended, and systemd kills it. `RunEnds`
  of `EngineLoop` excludes it. A dead analysis process is not restarted
  (`engine_loop.py:177`).
* *A baseline that was cut short.* A process killed between the baseline script,
  which stamps version 2, and the write that restores the version leaves a
  database no later start can upgrade (`db.py:88`); `StartsSucceed` leaves such
  a database out.
* *A window without a row.* If the INSERT of a new coverage window fails,
  `finish()` still replays what the engine hears in the new band until it obeys
  the stop, with `log.window_id` that of the window before; `WindowOfEvent` asks
  for statements that succeed. An engine that dies leaves open rows without an
  end, and a second failure inside `finish()` leaves the run without one.
* *A slice at the edge.* `held()` accepts a slice that begins exactly one
  capacity behind `written` while a push is overwriting its start, so a copy is
  exact only with a frame of margin, which is what `CleanWithMargin` says; the
  ring is seconds longer than a slice, so this needs a job that is nearly aged.
* *`stop()` gives up.* A worker that is not done within 5 s loses the queued
  analyses, although `finish()` says they are finished first; `AnalysesApplied`
  excludes it (`gaveUp`).
* *Before `go()`.* A start-up that fails or is interrupted leaves a run row
  without an end.
* *`check_antenna()`* raises a `TypeError` on a profile whose reference floor
  was never measured (`survey_prototype.py:2107-2108`): the failure `profile`.
* *The upward sweep* takes its verdict from gains above the configured one: a band
  may be called compressed that compresses only there, which is why
  `LinearAtConfiguredGain` speaks of linear verdicts only. The first frame after
  it may still hold samples of the higher gain, which the detector's warm-up
  absorbs.
* *A CTCSS tone as a code.* The docstring of `decode_dcs()` has it that a sliced
  tone does not have the structure of a code (`survey_prototype.py:508-509`). Some
  do: given the slices of 110.9, 146.2, 151.4 or 192.8 Hz the decoder answers a
  code. `analyze_analog()` says so and tests the capture ratio first (758-775),
  which is one guard of `Analysis`; tones are not among the streams of `Evidence`.

## 4. Proofs

TLAPS checks, for every value of the constants that satisfies the named
assumptions (`EngineConstants`, `LoopConstants`, `RingConstants`,
`TrackerConstants`, `SchemaConstants`, `CaptureConstants`, `ChannelsAssumption`,
`HeardAssumption`, `PlanAssumption`, `EventsAssumption`, `AnalyzeAssumption`,
`FrontEndAssumption`, `StreamAssumption`;
that of `EngineProcess` is not needed):

* **EngineLoop** -- all eight invariants of its runs (`TypeCorrect`,
  `FailureIsReported`, `QueuedIsApplied`, `AnalysisOfOwnWindow`,
  `HarmonicsStayMarked`, `WindowIsLogged`, `EventsAreClosed`, `NothingIsLost`)
  and `RowsNameTheirWindow`, for any grid, windows, queue bounds, numbers of reads
  and sets of failures. None but the exit status is inductive, because at any time
  the database lags behind the engine by what is in four queues: commands, the
  reader's messages, the engine's lines, and the rest of the line in hand. Their
  contents are described by automata (`CmdNext`, `MsgNext`, `LineNext`), and
  `Chain` says each queue is a run of its automaton from what its receiver has
  seen to what its sender has done (`Leads`). So taking the head of a queue moves
  one end of the run and appending to it the other, and what a line announces
  fits what was handled before it. The rest of `Followed` speaks only of the
  place `a` the orchestrator has reached: `Placed` and `Deciding` (which channels
  the rest of the line may name), `Rows` (whose row each channel's open row is,
  and that an undecided one has neither job, result nor parent), `Awaited` (only
  the window asked for last can still be announced, and only while it is waited
  for), `Logged` (the i-th row of `coverage_windows` is generation i, closed
  unless it is the current one) and `Mirrored` (a row has no end exactly while
  its channel is open). `Sound` is about jobs, results and parents, `AppliedInv`
  about the way the analysis process goes: it has answered every job before it
  exits, or is terminated by `EndRun` when time is up. `EventsAreClosed` does not
  say that nothing is open in the end, which the drain does not see to, but what
  it takes: past `Reap` the engine has gone (`Reaped`) and has nothing open, so
  what is open at the place the orchestrator has reached ends in a line between
  the two (`HeardToEnd`), and that line is still in `out`.
  `LoopImplementsLog` is the refinement: `Spec => ImplementsSurveyLog`, whatever
  stalls, is killed or dies. Under the mapping of the tables (`LogWindows`,
  `LogEvents`, `LogEnded`) each step that writes to the database is the step of
  `SurveyLog` of the same name, and all others stutter (`StepOfLog`). It needs
  `Promised` on top of the invariant: what is asked for, announced and recorded are
  windows of the profile (`Asked`), the open window is the last row (`Registered`),
  a row has at most one job or result and none once it has been analysed (`Once`),
  and a row has no end exactly while a channel's open row is that row (`Ends`).
  Where a statement fails nothing is claimed, and the mapped tables stay empty.
  The conditions in the theorems are the code's: a killed analysis process loses
  what is queued; a failed statement leaves rows open and may leave a window
  without a row; a killed engine says neither the verdict nor the end of what was
  open.

* **ShmRing** -- `OwnBandHolds`, `CleanWithMarginHolds`, `HasWhatItHoldsAlways`.
  None is inductive: what the reader ends up with depends on what was in memory
  while it copied. `RingInv` adds which samples are in memory, push in progress
  included (`MemoryInv`), what a job of the current generation would find there
  (`JobInv`), and what the reader has of it (`OutInv`). Between the sample asked
  for and the one found there may be whole laps of the ring (`Lap`); the lemma
  `OneLap`, on remainders, rules them out when there is a margin. Numbers of
  samples and generations are unbounded but for the model's bounds, which are
  any natural numbers.
* **EventTracker** -- `TrackerIsSquelch`, `EventsAreInOrder`, `TrackerTypes`.
  `TrackerInv` says the counters are the lengths of the current runs of hot and
  of cold frames (`Counters`), `recent` is the end of the list of frames
  (`Memory`), frames are dated in order (`Dates`), and each edge of an event is
  the start of a frame outside the run that would decide the next one (`Edges`).
* **SchemaInit** -- `TypeCorrect` and `StampSound`, whatever the faults;
  `LockSuffices` and `StartsDoNotFail` without faults, for any number of processes: its invariant says
  what each step of the holder of the lock has left of the database, and that
  nobody else is inside.
* **CaptureLoop** -- `ExitIsHonest` and `GainIsRestored`, for any windows, front
  ends, bounds and sets of failures. `LoopInv` adds to what the properties say:
  why the loop may be ending (`Endings`: a stop was asked for, a simulation has
  had all its windows, or something raised), that a sweep in progress has heard
  the floors of its own gains in the band of the last row (`InSweep`), and that
  outside a sweep the gain is the configured one (`Configured`). `OnRecord` keeps
  what a linear verdict was given for, which is the lemma `LinearVerdict`: the
  floor of that band, over three gains that begin or end at the configured one,
  rises by 2 dB or more and then by 0.7 of that or more (`RisesOn`).
  `AnalysisIsOfOwnSignal`, `QueuedAreApplied` and `FailuresLoseOneEventEach` are
  about the rows. `EventsInv` says that a job and an answer are of the band, the
  time and the visit on the row they name (`JobsRight`), that the open row of a
  channel was heard on it in this window (`RowsOpen`), that what the loop holds of
  a frame is still to be done to rows of this window (`LineInv`), and that the
  only thing left open is what an exception got in the way of (`Booked`). `LostInv`
  counts: the events that are open and are no channel's any more are never more than
  the exceptions there have been. Two steps of the
  argument do not show in a run on a small instance: that what begins in a frame
  is within the reach back of the first sample analysed, and that when the
  dwell ends the analysis of what is open still covers it, which needs
  `AnalyzeAssumption` (what is analysed is longer than the reach back,
  `survey_prototype.py:1977`).
  `LoopImplementsLog` is the refinement of `SurveyLog`, through exceptions too: an
  exception cuts a write short, and what had reached the tables by then is still a
  step of `SurveyLog` (`AnswersStep` for the answers stored so far, `RowsClosedStep`
  for the rows closed so far). `SurveyLog` records one analysis of a row and only
  while it is no harmonic, so the proof needs `Once`: a row is asked about in at
  most one place -- queued, in the thread's hand, answered, or still to be asked
  about in the frame in hand -- and only while it has neither result nor parent.
  `KeptIsWithinBudget` is about what a batch of answers adds up to. `StoreInv` says
  the store is within its budget and has only rows with a result. A batch is stored
  by a fold, and what it comes to after any number of answers is not an instance of
  the library's induction; `StoresAtAll` (the fold is defined) and `StoredAllWithin`
  (it stays within the budget) argue from the least number of answers for which it
  would not be so (`LeastNatural`). A file that cannot be written leaves the store
  at the answers before it and the table at those up to it, so a row in the store
  has its result there as well (`StoreAnswers`).
* **EngineProcess** -- `ExitHasSaidAll`, for a channel, a pipe and a stream of
  any length and whatever fails. `ProcessInv` says that what was taken, the pipe,
  the writer's buffer and its channel are, one after the other, all that was said
  (`Flow`, until `fatal()` writes past the writer); that the writer has an empty
  buffer while it waits and is gone only when the channel is empty and both `main`
  and `dsp` have dropped their end (`Waiting`); and that the reason `dsp` returned
  with is the last thing said (`LastWord`).
* **Evidence** -- `WindowsAreDisjoint`: whatever channels are seeded, in whatever
  order, no frequency is claimed by two of a service. `MedianRulesOut` and
  `ToneIsAgreed` are about any number of events with any measurements
  (`HeardAssumption`: a tone is filed with its value and with nothing else, as in
  `analyze_analog()` and `apply()`, and deviations, strengths and limits are
  natural numbers). The first rests on what a median is: `RankedIs` shows that the
  k-th smallest value, the least with k or more at or under it, has fewer than k under
  it (`Highest`: of finitely many values one is highest, without an induction, as the
  sets of those above each are well founded), and `HalfOverMedian` that half the values
  are over what the median is over. The second rests on `ModalIsAgreed`: what four in five agree on is the
  most common value, however ties are broken.
  `EachHasOneReading` and `ReadAsNormal` are about the 104 codes, but for any window
  that is long enough to be looked at (three words of bits, `StreamAssumption`;
  `MIN_TONE_SECONDS` are four), any place in the word it begins at and any three bits
  of it wrong. What is computed of the table itself they take from the three `ASSUME`s
  of `Dcs`, which name no constant of the model: TLC evaluates them in full, as
  `dcs.py` does on import (`PerfectCode`, `InversePairs`) or as Python's `int(code, 8)`
  does (`OctalDigits`). From there the argument is that the remainder of a sum is the
  sum of the remainders (`ModGSum`), so a word with three errors has the syndrome of
  the errors alone (`Corrects`); a word begun elsewhere, or inverted, is in the code
  as well (`Cyclic`, which `dcs.py` says in a comment: of x times a polynomial the same
  places are cancelled, `OncePlaced`); a word of the code is its data (`SameData`), so
  one that decodes to a code is that code's word (`DecodedIsEncoded`); a frame of the
  stream is the word turned, but for the places where a bit is wrong (`FrameIs`), and
  the majority of the frames is too (`MajorityIs`), in three places at most
  (`FewPlaces`); so what is found from one place on is what the turned word decodes to
  (`FoundAtIs`), and all that is found is what the word can be read as (`FoundIs`),
  which is one code (`AirReadings`).
  `FiledByRatio` goes through what `analyze_analog()` and `apply()` make of a dwell, a
  tone and a band, whatever is decoded, so that `ReadAsNormal` has the code in the
  row as well.
  The invariant is only `StreamRight`: how what is received differs from what is sent.
* **Enrich** -- `OffersHaveInputs`, `LinksAreOfKeys`, `NotesStay` and
  `RunsAreRepeatable`, for any plan, events and notes and wherever the enricher is
  killed. `PairInv` says why the order
  of the passes is enough: a rebuild takes the tiers of all rows away before `pair()`
  clears the marks they rested on, and none has one again until `ScoreWrite`, which
  writes what was computed of the marks as they still are. `LinkInv` says of every
  row, those the enricher still holds included, that its frequency stands for the
  key it was made under (`RowRight`) and that no other row has it: a median of a
  bucket is in the bucket (`RowStandsForKey`), and a bin that no row of the plan
  covers never has the key of a channel (`KeyOfKey`, `SettledKey`). `NotesInv`
  follows a note through the rebuild; it is found again on a channel because there
  the frequency the note is read under is the key it is looked up under.
  `PlanAssumption` is what the rows of `tools/seed_band_plan.py` satisfy: rows
  that match a frequency equally well are of one kind and centre, a channel is
  narrower than any segment, and reaches half a bin or more to either side of its
  centre. The third is why `round(f / FREQ_BIN_HZ)` (`enrich.py:236`) never makes
  an uncovered frequency look like a channel. `Derived` says of each step of a
  run nothing came in between how far the tables have come: tags, rows, links, pairs,
  marks, tiers. The passes write plans and links into the events the rows are
  made of, so it rests on `RowSame`: the row of a key, with its majorities, its
  medians and the first of its closest events, is a function of what the detector
  measured and of the ids, so it is the same before and after a pass.

Only model-checked: all liveness (liveness under fairness and `ENABLED` are out of
the prover's reach), and, as assumptions TLC evaluates, the three facts about the
Golay code and the table of codes that `Dcs` names. Every invariant a run checks is
proved.

## 5. Not modelled

* The numeric code: spectrum, noise floor, overload monitor, filters and
  demodulators, the capture ratio. It has no protocol of its own; the tracker
  takes any sequence of levels it could produce, and the loops any sequence of
  detections. So what the noise floor does with a carrier that is masked by a
  neighbour, or while its history fills, is not shown.
* Status files (published by an atomic rename) and the deck's tools, which read.
* The network watchdog's escalation, the radio driver's binding (`RustEngine`
  and `CaptureLoop` take its outcomes), the simulated radio, bench and field
  tools, command lines.
* Of the orchestrator: its construction, the operator's messages. Of the Python
  loop: the statistics, the status file, the verdict of the antenna check.
* A clock that steps (`time.time()` in the deadlines), a processor that reorders
  the ring's loads and stores (`ring.rs:87`), two enrichers at once, and a band
  plan that is seeded again after its list was edited (old windows stay, as the
  key of a row has its lower edge in it).

## 6. Plan

1. Done: both capture loops as implementations of `SurveyLog`; the ring, the
   tracker and the schema upgrade; the engine's lifecycle; enrichment, the rules
   of the rollup, the band plan and the DCS code.
2. Next to model: the noise floor coupled with `EventTracker` (is a step in the
   floor ever an event for ever), and the watchdog's escalation.
