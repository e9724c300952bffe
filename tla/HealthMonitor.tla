---------------------------- MODULE HealthMonitor ----------------------------
(***************************************************************************)
(* The counters and rings of app/health_monitor.c.  The worker records     *)
(* from inside rng_wrapper.c; the UI thread takes three separate snapshots *)
(* for a telemetry frame (jitter, counters, history) with the worker free  *)
(* to record between them, and clears everything on "clearHistory".        *)
(* Seconds are left out: average latency and throughput are quotients of   *)
(* the counters, recomputed in every snapshot.                             *)
(***************************************************************************)
EXTENDS Integers, Sequences, SequencesExt

CONSTANTS
  HISTORY_RING_SIZE,
  JITTER_RING_SIZE,
  ByteCounts,   \* byte counts of a successful call
  Latencies,    \* values of a jitter sample
  MaxCalls      \* bound on generation_call_count and on the failures

ASSUME RingSizeAssumption ==
  HISTORY_RING_SIZE \in Nat \ {0} /\ JITTER_RING_SIZE \in Nat \ {0}
ASSUME ByteAssumption == ByteCounts \subseteq Nat \ {0}
ASSUME LatencyAssumption == 0 \in Latencies

VARIABLES
  stats,                  \* current_stats
  history_ring, history_write_index, history_samples_written,
  jitter_ring, jitter_write_index, jitter_samples_written,
  snap                    \* the telemetry tick's progress and its copied counters

historyVars == << history_ring, history_write_index, history_samples_written >>
jitterVars  == << jitter_ring, jitter_write_index, jitter_samples_written >>
vars == << stats, historyVars, jitterVars, snap >>

(* byte_count of a history sample; its time stamps are left out. *)
Sample == ByteCounts \cup {0}

History == INSTANCE SampleRing WITH
  Size <- HISTORY_RING_SIZE, Value <- Sample, Blank <- 0, ring <- history_ring,
  write_index <- history_write_index, samples_written <- history_samples_written

Jitter == INSTANCE SampleRing WITH
  Size <- JITTER_RING_SIZE, Value <- Latencies, Blank <- 0, ring <- jitter_ring,
  write_index <- jitter_write_index, samples_written <- jitter_samples_written

NoStats == [initialized |-> FALSE, bytes |-> 0, calls |-> 0, failures |-> 0]
NoSnap == [at |-> "idle", stats |-> NoStats]

Init ==
  /\ stats = NoStats
  /\ History!RingInit
  /\ Jitter!RingInit
  /\ snap = NoSnap

-----------------------------------------------------------------------------
SetInitialized(b) ==
  /\ stats' = [stats EXCEPT !.initialized = b]
  /\ UNCHANGED << historyVars, jitterVars, snap >>

(* A failed init_rng. *)
RecordFailure ==
  /\ stats.failures < MaxCalls
  /\ stats' = [stats EXCEPT !.failures = @ + 1]
  /\ UNCHANGED << historyVars, jitterVars, snap >>

(* Faulty variant: a failure is not counted. *)
RecordAttemptUncounted(success, byte_count) ==
  /\ stats.calls < MaxCalls
  /\ stats' = [stats EXCEPT !.calls = @ + 1, !.bytes = @ + byte_count]
  /\ History!Record(IF success THEN byte_count ELSE 0)
  /\ UNCHANGED << jitterVars, snap >>

(* health_monitor_record_generation_attempt: the bytes of a failed attempt
   count, but its history sample shows none. *)
RecordGenerationAttempt(success, byte_count) ==
  /\ stats.calls < MaxCalls /\ stats.failures < MaxCalls
  /\ stats' = [stats EXCEPT !.calls = @ + 1,
                            !.bytes = @ + byte_count,
                            !.failures = IF success THEN @ ELSE @ + 1]
  /\ History!Record(IF success THEN byte_count ELSE 0)
  /\ UNCHANGED << jitterVars, snap >>

RecordJitterSample(us) ==
  /\ Jitter!Record(us)
  /\ UNCHANGED << stats, historyVars, snap >>

(* Faulty variant: the history ring is forgotten. *)
ClearCountersOnly ==
  /\ snap.at = "idle"
  /\ stats' = [NoStats EXCEPT !.initialized = stats.initialized]
  /\ Jitter!Clear
  /\ UNCHANGED << historyVars, snap >>

(* Faulty variant: cleared by a thread that may do so within a tick. *)
ClearWithinTick ==
  /\ stats' = [NoStats EXCEPT !.initialized = stats.initialized]
  /\ History!Clear
  /\ Jitter!Clear
  /\ UNCHANGED snap

(* health_monitor_clear_history, on the UI thread, hence not within a tick. *)
ClearHistory ==
  /\ snap.at = "idle"
  /\ stats' = [NoStats EXCEPT !.initialized = stats.initialized]
  /\ History!Clear
  /\ Jitter!Clear
  /\ UNCHANGED snap

-----------------------------------------------------------------------------
(* The snapshots of BuildTelemetryJson, in its order; of what they copy, the
   counters are kept until the frame is complete. *)
SnapshotJitter ==
  /\ snap.at = "idle"
  /\ snap' = [snap EXCEPT !.at = "stats"]
  /\ UNCHANGED << stats, historyVars, jitterVars >>

SnapshotStats ==
  /\ snap.at = "stats"
  /\ snap' = [snap EXCEPT !.at = "history", !.stats = stats]
  /\ UNCHANGED << stats, historyVars, jitterVars >>

(* The history snapshot completes the frame. *)
FrameHistory == History!Snapshot(HISTORY_RING_SIZE)

SnapshotHistory ==
  /\ snap.at = "history"
  /\ snap' = NoSnap
  /\ UNCHANGED << stats, historyVars, jitterVars >>

Next ==
  \/ \E b \in BOOLEAN : SetInitialized(b)
  \/ RecordFailure
  \/ \E n \in ByteCounts : RecordGenerationAttempt(TRUE, n)
  \/ \E n \in ByteCounts \cup {0} : RecordGenerationAttempt(FALSE, n)
  \/ \E us \in Latencies : RecordJitterSample(us)
  \/ ClearHistory
  \/ SnapshotJitter \/ SnapshotStats \/ SnapshotHistory

Spec == Init /\ [][Next]_vars

-----------------------------------------------------------------------------
(* The history holds the last calls that the counters count, no more and no
   fewer, whatever was cleared or overwritten in between. *)
HistoryMatchesCalls ==
  history_samples_written =
    IF stats.calls < HISTORY_RING_SIZE THEN stats.calls ELSE HISTORY_RING_SIZE

(* Bytes and failures the history shows are part of the totals: bytes a
   failed call produced are in the total only, and every sample without
   bytes is a counted failure. *)
TotalsCoverHistory ==
  /\ FoldLeft(+, 0, FrameHistory) <= stats.bytes
  /\ Cardinality({ i \in DOMAIN FrameHistory : FrameHistory[i] = 0 }) <= stats.failures

(* The calls recorded since the frame copied its counters, and what the
   history that it is about to copy shows of the calls before them. *)
LateCalls == stats.calls - snap.stats.calls
CountedHistory == SubSeq(FrameHistory, 1, Len(FrameHistory) - LateCalls)

(* One frame is put together in critical sections between which the worker
   records.  Its history still shows every call that its counters count, up to
   the size of the ring; and of what it shows, all but the late calls, which
   are the last, is part of the copied totals. *)
FrameIsConsistent ==
  snap.at = "history" =>
    /\ LateCalls >= 0
    /\ \/ Len(FrameHistory) = HISTORY_RING_SIZE
       \/ Len(FrameHistory) >= snap.stats.calls
    /\ FoldLeft(+, 0, CountedHistory) <= snap.stats.bytes
    /\ Cardinality({ i \in DOMAIN CountedHistory : CountedHistory[i] = 0 })
         <= snap.stats.failures

(* Each ring is a bounded log for as long as the process runs. *)
RingsAreLogs == History!ImplementsLog /\ Jitter!ImplementsLog
=============================================================================
