# A TLA+ development of the jitterentropy dashboard

`src/app` is a Windows dashboard for the Jitterentropy RNG: a native host
process with an embedded page, a wrapper around one process-wide entropy
collector, a health monitor, a benchmark and a set of statistics.
`src/jitterentropy-library` is the vendored library it drives. This directory
holds TLA+ modules translated from that code, TLC configurations that check
them on small instances, and proofs of the main results for every instance.

File and line references below are to `src/`.

## 1. The system

| Component | State it keeps | Operations | What makes it correct |
| --- | --- | --- | --- |
| RNG wrapper, `app/rng_wrapper.c` | `rng_collector`, `current_settings`, `entropy_self_test_complete`, all under `rng_lock` | `init_rng`, `get_random_bytes`, `shutdown_rng`, `rng_configure`, `rng_get_settings`, `rng_get_status_json` | one user of the collector at a time; the collector belongs to the settings in force, which were self-tested; in FIPS mode a failure handler is installed |
| Host process, `app/main_gui.cpp` | busy flag, cancel flag, worker handle, result mailbox, session histogram, timeline, a copy of the settings | bridge messages (generate, benchmark, cancelBenchmark, clearHistory, configure), the 30 ms telemetry timer, window destruction, two kinds of worker thread | one job at a time, every admitted job gives its slot back, a stop reaches the job it was meant for, results reach a frame, the process ends cleanly |
| Benchmark, `app/benchmark.c` | a local buffer | `run_benchmark` on the worker thread | starts from a fresh collector and leaves none |
| Health monitor, `app/health_monitor.c` | counters, a 300-call history ring, a 256-sample jitter ring, under `stats_lock` | record, clear, three snapshots | rings lose, repeat and reorder nothing; counters and rings agree |
| Page, `app/gui/index.html` | last frame, running job, form state, log | clicks, frames | never stuck on "busy" or "Applying" |
| Bridge parser, `app/bridge_json.h` | none | `ParseFlatObject`, `GetInt`, ... | exact conversion within a range |
| Statistics, `app/entropy_stats.c` | none | RCT, APT, runs, monobit, ... | agree with their definitions |
| Command line, `app/main.c` | options | one pass | order of its steps, exit code |
| Library: collector lifecycle, `jitterentropy-base.c` | the collector, the self-test flag, the forced-timer switch | `jent_entropy_init_ex`, alloc, read, read_safe, free, health reset | nothing leaks, the reset ladder ends, identity, account and memory cap survive a reset |
| Library: noise source, `jitterentropy-noise.c` | `startup_state`, previous time, the sponge | `jent_random_data`, three measurements | a block counts its own non-stuck deltas only; startup samples both sources |
| Library: health tests, `jitterentropy-health.c` | counters of RCT, APT, lag predictor, RCT with memory | insert, init, duplicate | the incremental tests are the tests of SP 800-90B; a reset forgets no alarm |
| Library: gcd analysis, `jitterentropy-gcd.c` | the common divisor | analyze | an accepted timer varies and has a usable divisor |
| Library: timer thread, `jitterentropy-timer.c` | thread, counter, stop flag | settick, unsettick, read | a reader never waits for a thread that is gone |
| Kernel test interface, `linux_kernel/jitterentropy_testing.c` | ring, reader and writer, enabled and boot flags | store, read of the debugfs file | samples in order and none twice, boot samples kept, no lost wake-up |
| Status report, SHA-3, platform layers, tools | | | not modelled, section 6 |

How they interact. The page sends JSON messages; WebView2 calls the host's
handler on the UI thread. `generate` and `benchmark` claim `g_rng_busy`, wait
for the previous thread to be gone (`ReapWorkerHandle`), reset the cancel flag
and create a worker. The worker takes `g_rng_busy_lock`, calls the wrapper,
which takes `rng_lock` and calls the library, records into the health monitor,
publishes a result into the one-place mailbox and clears the busy flag. Every
30 ms the UI thread builds a frame: jitter, counters, library status (a *try*
lock), history, the mailbox (emptied), the busy flag and the timeline, in that
order, each in a critical section of its own. `configure` runs wholly on the UI
thread, and so does the end of the window, which waits for the worker.

The hard behaviours are therefore: steps of the worker between two steps of one
frame; the short time in which a worker has cleared the busy flag and is still
alive; a Cancel that races an admission; a result not taken before the next job
ends; a long collector call under a lock the UI thread also uses; failing
allocations and `CreateThread`; and the end of the process at any moment. In
the library: a health test that calls `jent_random_data` from inside
`jent_random_data`, the reset ladder, counters handed from one collector to the
next, global switches that close, and the counting thread. In the kernel
module: a ring whose writers decide without its lock whether they are wanted,
and a reader that sleeps holding another. `PROJECT.json` lists each hazard at
its line with the properties that cover it.

## 2. The modules

### `RngWrapper`, with `RngWrapperProofs`, `MCRngWrapper`

`call[t]` says where thread `t` is inside the wrapper, `rng_lock` who owns the
critical section. Calls that run library code under the lock are split where
another thread can notice: `init_rng` is `InitRng`, `EntropyInit` (the
self-test, passing or failing), `CollectorAlloc`; `get_random_bytes` is
`GetRandomBytes`, `ReadEntropySafe`, `RecordAttempt`; `shutdown_rng` is
`ShutdownRng` and, after it left the lock, `ClearInitialized`;
`rng_get_status_json` is `StatusBegin` and `StatusEnd`. `rng_configure` is one
step. A collector is represented by the settings it was built from; a health
reset inside a read, which replaces it by one with a higher rate and perhaps
more memory, leaves it represented by the settings it descends from. Library
calls may have any outcome their API allows. `cb_switch_blocked` and `fips_cb`
are the library's callback switch (`jitterentropy-health.c:25-39`), set by
`jent_entropy_init_ex`.

`tested` is a history variable: the settings of the last self-test that
passed. A call with a NULL buffer or zero length touches nothing modelled here
and is left out.

### `GuiHost`, `JobSlot`, with their proofs and `MCGuiHost`

Extends `RngWrapper`: worker threads and the UI thread are its threads, and the
host's steps call its actions. `job[w].pc` is a worker's place in
`GenerateWorkerThread` or in `BenchmarkWorkerThread` around `run_benchmark`;
a call of the wrapper moves the worker to where it goes on when the call has
returned. `ui` is the UI thread's place: it takes a message, a tick or the
window's end only when idle. A frame is `TickStart`, `TickStatus`, `TickTake`,
`TickBusy`, `TickTimeline`, `TickPost`, in the order of `BuildTelemetryJson`.
Admission is `HandleJob`, `ReapDone` or `ReapTimeout`, and `CreateWorker` or
`CreateFails`. Clearing the history is `HandleClear` and `ClearTimeline`, one
lock after the other, with workers free to run in between. Every allocation and API call that the code tests may fail.

Abstractions. A generate of `n` chunks and a benchmark of `n` calls share one
loop. The session histogram is the set of settings whose collectors' bytes it
counts. A result keeps its action, who published it and the class of its status
that the page tells apart (`index.html:1080-1083`). `g_worker_thread_lock` is
only ever taken by the UI thread and is left out. The worker may run before
`CreateThread` has returned to the UI thread; only the UI thread reads the
handle, so storing it is part of the same step. `stop_asked` is a history
variable.

`JobSlot` is what the host promises with no threads at all: an admitted job, a
stop that stays with it, an outcome, and settings that change only while there
is no job. `ImplementsJobSlot` maps the busy flag, the cancel flag and the
worker's place to it.

### `SampleRing`, `BoundedLog`, `HealthMonitor`, `EntropyStats`, `FrameStats`

`SampleRing` is the ring used twice in `health_monitor.c`; `BoundedLog` is the
sequence of the last `Size` samples it should be. `HealthMonitor` instantiates
the ring for the call history and for the jitter samples and adds the counters,
`ClearHistory` and the frame's three snapshots, between which the worker may
record. `snap` is the frame under construction with the counters it has copied.
Time stamps and seconds are left out (average latency and throughput
are quotients recomputed on every snapshot). So is the FIPS counter: nothing
reaches it (finding 1).

`EntropyStats` has the tests and statistics of `entropy_stats.c` as functions in
integers: a probability is a numerator over a known power of two, an entropy
estimate a natural number. `FrameStats` composes the two the way
`BuildTelemetryJson` does: the frame's RCT and APT verdicts are computed from
the ring's snapshot, so their windows move with the oldest sample.

### `JentHealth`, `JentPowerUp`, with `JentHealthProofs` and `MCJentHealth`

`ec` is the health part of `struct rand_data`. `Measure(d)` is `jent_stuck`: lag
predictor, APT, the second and third differences taken from the lag history,
RCT. `HealthInit` is the `jent_health_init` between two startup stages,
`HealthReset` the new collector of `jent_health_failure_reset` with the three
duplicated states: after any failure, because a startup also resets on a
permanent one, and to any higher rate, because self tests that fail skip some.
Deltas are unsigned modulo `Modulus`; the common divisor has
already been divided out. `seen`, `stucks`, `reset` and `window` are history:
the properties define each test over the whole sequence and compare. `window`
is the first and the last value of the APT's current window, which a reset
does not always leave where it was (section 5).
`JentPowerUp` adds `jent_time_entropy_init`'s verdict on the same sequence, with
`jent_gcd_analyze`.

### `JentRandomData`, `JentCollector`, with `JentCollectorProofs` and `MCJentCollector`

`JentRandomData` is the control of `jent_random_data`: `stack` holds the calls
in progress, because `jent_rct_mem_insert` calls `jent_random_data` again until
its recovery loop is over. A frame is a call's stage, whether it is primed, and
the deltas it still wants; `rd` is what all of them share. A measurement is
stuck or not and raises any set of alarms of the other tests, which is what
`JentHealth` may do. Before a startup stage ends the health test state is
initialized again, as in the code.

`JentCollector` extends it with the API: `EntropyInit` (a self test runs on a
collector of its own and is an operator on the globals), `CollectorAlloc` with
its startup loop, `ReadCall` for `jent_read_entropy` and `_safe`, the reset
(`ResetSelfTest`, then the new collector, then its startup, nested in the
startup or the read it interrupts) and `CollectorFreeCall`. Every allocation,
thread creation and self test may fail. `heap` counts the objects of each kind;
an allocation that fails half-way is one step that leaves it as it was, so what
`NothingLeaks` says is about replacements and failed startups. `thread` and `ticked` are the counting thread. `hist` is what a caller knows of
its handle.

### `JentTesting`, with `JentTestingProofs` and `MCJentTesting`

The kernel module's recording of raw time stamps. `Store` is
`jent_testing_store` in the four steps another thread can notice: the unlocked
test whether a sample is wanted, the lock, what is done under it, the wake-up.
`Session` is `jent_testing_extract_user` from the read lock to its release, the
measurements and copies of each chunk included; a measurement takes at least one
stamp per word, and more while they are recorded. The reader's drained check
under the lock (`NoData`) and its later look at the boot flag (`EndOrWait`) are
two steps. A sample is its number in the
order of storing. `boot_raw_hires_test` may be written at any time. Locks are
those of the module; the spin lock's owner is never interrupted.

## 3. What is model-checked

| Run | Shows | Bounds |
| --- | --- | --- |
| `rng_wrapper` | the wrapper's three invariants | three threads, so that two can queue behind a third; two settings, of which one is FIPS; symmetry of the threads |
| `gui_host` | ten invariants of the host and its refinement of `JobSlot` | two worker slots (a leaked thread needs a second), two settings, up to two chunks or calls; 1.4 million states |
| `gui_live` | a slot is freed, a result is taken, the window's end ends | one setting, one chunk: the properties do not depend on which settings or how many chunks |
| `health_monitor` | counters against history, verdicts and report against definitions, both rings against the log | history of 3, jitter ring of 4, four calls, so that the history wraps and is overwritten; calls of one length, or failed ones; bytes of two bits, APT windows of 2: the ring holds two |
| `jent_health` | the incremental tests against their definitions, resets, the power-up verdict | eight deltas out of four values modulo 16 (equal, even and odd, differences that wrap), APT windows of 4, a lag history of 4 in a window of 7: both windows end and begin again; `osr` 2 to 4, so up to two resets in a row or one over a skipped rate, one re-initialization |
| `jent_collector` | startups, reads, recoveries and resets | three flag sets (forced internal timer, FIPS with a memory cap, NTG.1), `osr` 1 to 3, so two rungs; two calls of two blocks, blocks and windows of three deltas, or six, with the oversampling rate and FIPS; recovery of two rounds; 3.8 million states |
| `jent_testing` | order, freshness, boot recording, wake-ups | two readers and one other instance, a ring of 4 that wraps within six stores, chunks of 2 words, one write of the parameter |
| `rng_fips`, `gui_lost`, `gui_stamp`, `jent_resume`, `jent_startup` | the findings of section 5 | as above; `jent_resume` with NTG.1's divided cutoffs, `jent_startup` with NTG.1 and one call |

The host's runs check deadlock: a host that quit has an explicit `Ended` step.
The library's runs and `jent_testing` do not, because they stop when their
callers' bounds are used up.

The properties in words.

- *Handover*: `OneJobAtATime`, `NoLeakedWorker`, `NoUseAfterDelete`,
  `UiNeverWaitsForCollector` (where the UI thread enters `rng_lock` without
  trying, no worker is inside). *Stopping*: `StopIsNotForgotten`, and through
  `JobSlot` that a job ends cancelled only if it was stopped: together the
  comment at `main_gui.cpp:212-216`. *Display*: `FrameShowsSettings`,
  `OneConfigurationInSession`, `InitializedIsHonest`,
  `PendingTimelineHasResult`. *Benchmark*: `BenchmarkReleasesCollector`, with
  the one path excluded that returns before it has touched a collector.
- *Monitor*: `HistoryMatchesCalls`, `RingsAreLogs`; `FrameIsConsistent`, about
  what a frame copied in two critical sections: its history shows every call its
  counters count, up to the ring's size, and apart from the calls recorded in
  between is part of the copied totals;
  `FrameVerdictsAreTests` and `ReportIsSound` hold of every content the ring
  reaches.
- *Health tests*: `RctIsRunLength`, `AptIsProportion`, `LagScoresAreHits` are
  equivalences between the alarm and a formula over the whole sequence.
  `ResetKeepsStuckRun` and `ResetKeepsProportion`: a source that goes on failing
  through a reset is given up. `AcceptedTimerIsUsable`: deltas
  that pass the power-up test vary, and the divisor it keeps is their greatest,
  never zero.
- *Collector*: `NothingLeaks`, `TimerRunsWhileMeasuring`,
  `HandleKeepsAccount`, `MemoryCapRespected`, `StartupSamplesBoth` (a startup
  that ended has run both of NTG.1's stages without a failure), `LadderClimbs`,
  `BlockIsComplete` (a call that returns without a failure has measured the
  non-stuck deltas its block needs, however many recoveries it interrupted).
- *Test interface*: `UnreadAreNewest`, `RecordingIsFresh`,
  `OwnSamplesSuffice`, `BootKeepsEarliest`, `SleeperIsWoken`.

Fairness. `gui_live`: Windows schedules every runnable thread, so a worker that
can take a step and the UI thread inside a handler do. A worker blocked on
`rng_lock` competes only with the moment the tick holds it, and a released
critical section wakes its waiters, hence strong fairness for workers. The
timer: `TickStart` is strongly fair, because `WM_TIMER` is delivered whenever
the queue runs empty, which the page's messages cannot prevent for ever. No
fairness is assumed of the user, of `CreateThread` or of any library call's
outcome; that a library call returns at all is part of the workers' fairness,
and the ten-second exit of `main_gui.cpp:1015` is modelled for when it does
not. `jent_startup`: the library and its thread run on, and the noise source
keeps giving values that are not stuck to whichever loop asks; that is all a
caller can hope for, and the call still does not return. `jent_testing`: a
thread inside a store runs on; nobody has to read, measure or send a signal.

## 4. What is proved

`tlapm` checks every theorem to the last leaf, for every set of threads, every
set of settings, every number of worker slots and readers, every ring size,
every set of flags, every ladder of oversampling rates and every table of
cutoffs. All 36 invariants, action properties and refinements that the passing
runs check are theorems; the four liveness properties are not.

`RngWrapperProofs`: `RngTypes`, `CollectorHasOneUser`, `SettingsAreInForce`,
`SettingsWereTested`. None of the last three is inductive alone. The inductive
invariant adds that the thread which owns `rng_lock` is the one inside a locked
call; that between reading the settings and the allocation the copy in `flags`
equals the settings and no collector lives; and that a completed self-test, or
one followed by the allocation, was for the settings in force. The lock then
excludes `rng_configure` from exactly the interval in which it would do harm.
Its part without return codes, `RngCore`, is stated so that the host, which
writes return codes of its own, can use it too.
Assumptions: `SettingsAssumption`, `FreeAssumption`.

`SampleRingProofs`: `RingTypes` and `IndexNeverWraps` from the invariant that
the write index counts the samples until the ring is full, and
`RingImplementsLog`: a full snapshot's `i`-th sample lies at a known place
(`Place`), so recording appends at the end and, once full, drops the head.
`HealthMonitorProofs` instantiates it twice (`RingsStayLogs`) and adds
`HistoryIsCounted`: history and call counter are raised and cleared together;
and `TotalsAreCovered`: what a frame's history adds up to never exceeds the
counters. The bytes are a fold over the snapshot, so the fold is first shown to
be the last of a row of partial sums (`FoldExists`, `TotalIsSummed`), from which
follows what appending a sample and dropping the oldest do to it
(`TotalOfAppend`, `TotalOfTail`, with `BlanksOf...` for the failures); the
ring's refinement says that a record does no more than that.
`MonitorTypes` and `FramesAreConsistent` complete it. A frame copies the counters
and then the history, each under the monitor's lock but not both under one; what
it put together still shows every counted call, up to the ring's size, because
calls only grow between the two copies: `ClearHistory` is a step of the same
thread that takes frames. What the history shows beyond the copied counters are
its last samples, one for each call recorded since (`LateCalls`); without them
it is a part of the copied totals, which is why the invariant carries the copied
counters and says of the rest of the history what `TotalsAreCovered` says of all
of it. `FramesAreConsistent` states `FrameIsConsistent`; no run checks
`MonitorTypes` or what `TotalsAreCovered` states.
Assumptions: `RingConstantsOK` of each ring, from the monitor's own on its
sizes and inputs.

`FrameVerdicts` and `ReportStaysSound`, of `FrameStats`, need no invariant but
the ring's: it makes the snapshot the ring's contents in their order wherever
it is written at (`WindowIsOld`). The rest is what the functions of
`entropy_stats.c` compute, for every row of samples. Each loop is a fold, and a
fold over a row is shown to be the last of a row of intermediate results, on
which a step can be reasoned about. The repetition test's: after `k` samples
the longest run found is one that lies there and no longer one does (`HasRun`,
`RunsUpTo`). The binomial tail is a sum over a set, taken in an order the
library does not fix; it is equal to the total of a row of terms, whatever the
order (`SumIsTotal`, `TailIsTotal`), so it falls as its lower end rises
(`TailFalls`), and the search from the top ends at the exact quantile
(`CritBinomIsQuantile`). Products and powers are shown to be what the
community module's `choose` and `Power` compute before they are compared.

`ReportOfBytes` is the report on any bytes of any width. The counts of a
histogram with weights sum up to the weights of the bytes in their order
(`WeightedTotal`), which gives the number of bytes and, with the weights
`Ones(<< b >>)`, that the ones of the stream are those of its bytes
(`BytesOnesAddUp`); for that a byte's bits are found in the stream by division
with remainder (`StreamIs`). `RunsAreChanges` follows the bit across the bytes'
borders. That the chi-square statistic and the variance are not negative is the
inequality of Cauchy and Schwarz, by induction on the number of values
(`CauchySchwarz`, from `Spread`); that the covariance with the next byte, the
last byte's being the first, lies between the variance and its opposite needs
it for the sums of neighbours too (`NeighboursBelowSquares`, `PairsAreSeries`).
`ReportStaysSound` puts the ring's contents in: as a jitter sample is no byte by
itself, that is a hypothesis of the theorem, which the run's latencies satisfy.
Assumptions: `BitsAssumption`, a byte has bits; `JitterHealthAssumption`, rate,
estimate and window are positive numbers, as `normalize_alpha`, `normalize_h`
and the window's constant have it.

`GuiHostProofs`: `OneJobInSlot`, `NoWorkerIsLeaked`, `UiNeverWaits`. The
inductive invariant `HostInv` adds what each place of the UI thread may rely on
in the middle of a message (a claimed slot in `reap` and `create`, no handle in
`create`, no thread after `destroy_wait`, `UiInv`) and that a worker inside the
wrapper is at one of four places of its job while the owner of `rng_lock` is in
a locked call (`CallInv`). Without the first, freeing the slot in `ReapTimeout`
or `CreateFails` could free it under a running job; from the second follows
that whoever holds the lock owns the slot, so the UI thread, which uses the
lock only when the slot is free or the thread is gone, never waits for a read.

`GuiSessionProofs`: the host's seven other invariants. `HostCallsWrapper` shows
first that every step of the host is a step of the wrapper or leaves it alone,
which carries `RngCore` over. `SessionInv` then says, per place of each thread,
which call it can be in (`PlaceInv`), what its return code tells of the
collector and of the settings (`OriginInv`, `DisplayInv`, `HonestInv`,
`BenchInv`), which settings the produced bytes came from and where a real
result is on its way (`HistInv`, `MailInv`). The parts lean on each other:
that the histogram is of one configuration needs that a job in its loop has a
collector of the settings in force, which needs that only the slot's owner
calls the wrapper.

The same module proves `HostIsJobSlot`, the refinement of `JobSlot`. `OwnerInv`
adds that a claimed slot has an owner, that a new job starts with the cancel
flag down, and that only a job asked to stop returns "cancelled". `SlotFacts`
tells the abstract slot from the owner's place; each action is then shown to be
`Admit`, `Stop`, `Finish`, `Release`, `GiveUp`, `Configure` or unseen.
`HostTypes` adds the types of all that the host keeps, on top of
these: a job's chunks stay in range only because a read is never under way
without chunks left (`ChunksInv`), and a job starts with chunks only because the
UI thread passes no empty request on (`RequestInv`). No run checks it.

Assumptions of the three: the wrapper's, `ThreadAssumption`,
`ChunkAssumption`, `ResultAssumption`, `SlotAssumption`; `CreateThread`, the
waits and every library call may fail at any time.

`JentTestingProofs`: `TestingTypes`, `ReadersExclude`, `UnreadIsNewest`,
`RecordingsAreFresh`, `SessionsSuffice`, `BootIsKept`. The code takes the
writer's position before it takes the ring's lock, sleeps in between, and lets
any number of threads store meanwhile. The invariant therefore says of each
reader, at each of its places, what survives that: what it has looked at is
still at or behind the writer (`LookIsSafe`), what it took is older than what
is unread (`TakenIsOlder`) and younger than the opening (`TakenIsFresh`), and
the words it still needs are either there or still to be measured by itself
(`WordsFit`, `EnoughComes`, `NoSleep`). `OneSession` is the exclusion by the
read lock, which all of these need; `BootPhase` ties the boot flag to the
number of samples. Assumption: `RingAssumption`, the ring is longer than a
chunk and a chunk holds at least a word.

`JentCollectorProofs`: `CollectorTypes`, `HeapIsGivenBack`, `TimerRuns`,
`AccountIsKept`, `MemoryIsCapped`, `StartupIsSampled`, `ReplacementsClimb`,
`BlocksAreComplete`. Three layers. First the operators on a collector's data
and the invariant of `jent_random_data` alone, `DataInv`: the shape of the
stack (an inner call only under one that is in a recovery), which frame may
read the time, and which stages a startup state stands for. Then one
`...Effect` lemma per step, which reduces allocations, self tests and thread
starts to what they leave. Then one lemma per conjunct of `Inv`: the place in
the call determines the stack and the collector (`Where`), the heap is what
the collectors at that place own (`HeapIsOwned`), and the ladder, the account,
the cap and the thread follow from it (`Operating`, `Account`, `Cap`,
`Ladder`, `Replacing`). No property of a finished call is inductive without
`Where`, because the same reset is nested in a startup and in a read.
Assumptions: `RandomDataAssumption`, `CollectorAssumption`.

`JentHealthProofs`: `HealthTypes`, `RunsAreCounted`, `ProportionIsCounted`,
`LagsAreScored`, `StuckRunsSurvive`, `ProportionSurvives`. A property here
relates an alarm to a formula over the whole sequence, while a step sees one
count, so the invariant says what each count means: the RCT's is the number of
stuck results at the end of `stucks` (`RctCounts`), the APT's the occurrences
of the open window's first value (`AptWindow`, `AptCounts`), the lag history
the latest deltas, each at the slot of its number modulo the size
(`LagFollows`); after a reset, how far they stand above the count the reset
started with (`AptResumes`, `RctResumes`). Then the formulas are shown to grow
as the counts do: a run lies in a sequence with one value more if it lay in it
before or ends with that value (`RunGrows`), a value counts in one window
because two window starts are a window apart (`RemaindersMeet`,
`WindowsGrow`), a delta takes no slot that is still in use (`StoredFollows`).
That the walk which raises the scoreboard also ends at a best predictor is an
induction on its rounds (`BestIsUnbeaten`): the set of rounds after which it
fails would have a least member (`LeastOf`). Assumptions: `DeltaAssumption`,
`SizeAssumption` and `CutoffAssumption`, which the code's tables satisfy: one
occurrence never fails the APT, and NTG.1's divisor of 8 is at most the
smallest cutoff it divides.

The last part proves `AcceptedTimers`, `AcceptedTimerIsUsable` of the power-up
test, and with it what `jent_gcd64` computes for all numbers: the recursive
equation of Euclid's loop has a solution (`LoopExists`) and every solution is
the greatest common divisor (`LoopIsGcd`, by the least second number for which
it would not be). The fold over the deltas then is the divisor of all of them
(`RunningGcdIs`), a history that does not vary has no sum of changes
(`NoChangeNoSum`), and a common divisor of the divided deltas times the one
found would divide all, hence is 1 (`DividedIsCoprime`). It needs nothing of
the state but `HealthTypes`, and `CacheAssumption`: the number of warming
measurements is one.

Only model-checked: liveness (`SleeperIsWoken` and the host's three), because
the proof system has no support for fairness and `ENABLED`. What the proofs do
not reach because the model leaves it out: the statistics' logarithms, roots
and rounding.

## 5. Where the code and its words part

1. `rng_fips`: `rng_wrapper.c:112-118` says the handler "Runs when
   jent_read_entropy_safe() hits a health failure while the collector is in
   FIPS/NTG.1 mode". `init_rng` sets it after `jent_entropy_init_ex`, which
   closes the switch (`jitterentropy-base.c:966-967`); the setter returns
   `-EAGAIN`, unread. The handler is never installed.
2. `gui_lost`: `main_gui.cpp:179-182` says "An unconsumed real result is never
   overwritten". Rejections give way; the workers' own publishing
   (`main_gui.cpp:336`, `402`) and a failed `CreateThread`
   (`main_gui.cpp:224`) do not. The busy flag falls before any frame took the
   result, so a second request may be admitted in between.
3. `gui_stamp`: `main_gui.cpp:239-240` says "the frame that delivers the result
   is the one that stamps serialization". A frame that took a rejection, and is
   still being built when the worker records its timeline, stamps it instead.
4. `jent_resume`: `jitterentropy-health.c:646-651` says a reset re-initializes
   the RCT "to the intermittent error value based on the new OSR". It stores
   30 times the rate (line 652), but NTG.1 divides both cutoffs by 8: the count
   stands above the permanent cutoff, and one stuck delta ends the collector.
5. `jent_startup`: `jitterentropy-health.c:563-573` says that a recovery without
   an error was a false positive "that we can ignore". During a startup its
   calls of `jent_random_data` run the startup stages too; the interrupted
   stage then counts `startup_state` below its last value
   (`jitterentropy-noise.c:614`), and the loop of the allocation
   (`jitterentropy-base.c:768`) never ends.

Smaller things met while modelling, which no run is about:

- The page drops the answer to a configure that succeeded when a result is
  pending (`main_gui.cpp:786`), and goes on showing "Applying"
  (`gui/index.html:1905-1909`). A frame reads the mailbox before the busy flag
  (`main_gui.cpp:446`, `457`): an earlier job's result, or a lost rejection,
  leaves the page's running job wrong until the next frame
  (`index.html:1124`, `1803-1820`).
- The power-up test forces FIPS on its collector, which
  `jent_entropy_collector_alloc_internal` refuses together with
  `JENT_DISABLE_MEMORY_ACCESS` (`jitterentropy-base.c:566-571`): the settings
  flag for it at `rng_wrapper.h:35` can never initialize.
- `selftest_run` stays up after a failed gcd self test
  (`jitterentropy-base.c:969-981`). The divisor found with the hardware timer
  stays when the internal timer takes over.
- `jitterentropy-internal.h:367-371` says that every `jent_read_entropy` call
  increments `read_invocations` and that `jent_read_entropy_safe` decrements it
  once per re-initialization. The code raises it only where a read succeeded
  (`jitterentropy-base.c:326-330`) and lowers it nowhere: one request counts at
  most once, a failed one not at all. `HandleKeepsAccount` is about the identity
  and the bytes.
- `rct_mem_duplicate` carries a count that the new collector's window never
  uses (`jitterentropy-health.c:608-611`); the common table's cutoff is the
  whole window, which only NTG.1's is not; after a recovery, the rest of the
  outer block is measured outside the window; without FIPS nothing ends the
  loop on a source that stays stuck.
- The stuck test takes its previous deltas from the lag history, which the end
  of a lag window wipes (`jitterentropy-health.c:209`): the two deltas after it
  are compared with zeros. A tie between predictors does not always go to
  the shortest lag, as line 186 has it: a shorter one that draws level does not
  replace the one in use.
- A reset right at the end of an APT window, when the old collector would take
  a new base, lets that window go on for one more value
  (`jitterentropy-health.c:361-380`, `408-434`), and a second reset there for
  one more again. `ResetKeepsProportion` is therefore stated for the window the
  collector is in, not for a multiple of the window's size. From the rate on
  where both cutoffs are the same, it says nothing before the base has come
  again.
- Test interface: the 1024th boot sample pushes the reader past the first, so
  1023 are readable; a request with a fraction of a word sleeps until another
  instance stores, holding the read lock; an interrupted read drops the words
  already drained; a store may set the boot flag to 2 after the reader cleared
  it.

## 6. Not modelled, and the plan

Left out for good: WebView2, drawing and wording, SHA-3, the status report,
platform layers, the library's recording and validation tools,
floating-point p-values, and real time.

Left for later, in this order:

1. `Dashboard`: the page's state and the two message channels, composed with
   `GuiHost`, for the two hazards at `main_gui.cpp:457` and `786` that live in
   the page's state.
2. `bridge_json.h` as functions over small inputs, and the one pass of the
   command line.

## 7. Running it

    tlc -workers 2 -config MCGuiHost.cfg MCGuiHost
    tlapm GuiSessionProofs.tla

Operators described as faulty variants in the modules are the mutants of
`PROJECT.json`: put in place of the definition that follows them, each makes
TLC report the property named there.
