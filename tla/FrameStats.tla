------------------------------ MODULE FrameStats ------------------------------
(***************************************************************************)
(* What a telemetry frame says of the jitter ring (main_gui.cpp:416-422):  *)
(* the health monitor composed with the statistics.  The frame's verdicts  *)
(* are computed from its snapshot of the ring, so their windows move along *)
(* with the oldest sample of the ring.                                     *)
(***************************************************************************)
EXTENDS HealthMonitor, EntropyStats

CONSTANTS
  JITTER_HEALTH_ALPHA,       \* a: the rate is 2^-a
  JITTER_HEALTH_H_BITS,
  JITTER_HEALTH_APT_WINDOW

ASSUME JitterHealthAssumption ==
  /\ JITTER_HEALTH_ALPHA \in Nat \ {0} /\ JITTER_HEALTH_H_BITS \in Nat \ {0}
  /\ JITTER_HEALTH_APT_WINDOW \in Nat \ {0}

JitterWindow == Jitter!Snapshot(JITTER_RING_SIZE)

JitterRctCutoff == RctCutoff(JITTER_HEALTH_ALPHA, JITTER_HEALTH_H_BITS)
JitterAptCutoff ==
  AptCutoff(JITTER_HEALTH_APT_WINDOW, JITTER_HEALTH_ALPHA, JITTER_HEALTH_H_BITS)

JitterRct == RctPassed(JitterWindow, JitterRctCutoff)
JitterApt == AptPassed(JitterWindow, JITTER_HEALTH_APT_WINDOW, JitterAptCutoff)

(* The last n jitter samples are equal. *)
LastEqual(n) ==
  /\ jitter_samples_written >= n
  /\ \A i \in 1 .. n : jitter_ring[(jitter_write_index - i) % JITTER_RING_SIZE]
                         = jitter_ring[(jitter_write_index - 1) % JITTER_RING_SIZE]

(* SP 800-90B 4.4.1 and 4.4.2 of the ring's contents, whatever the place the
   ring is written at: a frame's repetition test fails exactly if so many
   neighbours are equal, its proportion test only with a cutoff that is the
   exact binomial quantile, and samples that are all equal fail both as soon
   as they fill a window and a cutoff. *)
FrameVerdictsAreTests ==
  LET n == jitter_samples_written
      Old(i) == jitter_ring[(jitter_write_index + JITTER_RING_SIZE - n + i - 1)
                              % JITTER_RING_SIZE]
      w == JITTER_HEALTH_APT_WINDOW
      Quantile(k) ==
        UpperTail(w, JITTER_HEALTH_H_BITS, k + 1) * Power(2, JITTER_HEALTH_ALPHA)
          <= Power(2, JITTER_HEALTH_H_BITS * w)
  IN  snap.at = "idle" =>
      /\ JitterRct <=> \A i \in 1 .. n - JitterRctCutoff + 1 :
                         \E j \in 1 .. JitterRctCutoff - 1 : Old(i + j) # Old(i)
      /\ Quantile(JitterAptCutoff - 1)
      /\ \A k \in 0 .. JitterAptCutoff - 2 : ~Quantile(k)
      /\ n >= w /\ JitterAptCutoff <= w /\ LastEqual(n) => ~JitterApt

(* The report on bytes: the counts are of all bytes, the bits and their runs
   those of one stream that does not stop at a byte's border, and the
   correlation is a number between -1 and 1 or undefined. *)
SoundReport(data) ==
  LET bits == Stream(data)
      h == Histogram(data)
  IN  /\ SumFunction(h) = Len(data)
      /\ Ones(data) = SumFunction([b \in Byte |-> h[b] * Ones(<< b >>)])
      /\ ChiSquareNum(data) >= 0
      /\ data # << >> =>
           ObservedRuns(data) =
             1 + Cardinality({ i \in 2 .. Len(bits) : bits[i] # bits[i - 1] })
      /\ SerialDen(data) >= 0
      /\ -SerialDen(data) <= SerialNum(data) /\ SerialNum(data) <= SerialDen(data)

(* It is looked at on what the jitter ring holds, where that is bytes. *)
ReportIsSound == snap.at = "idle" => SoundReport(JitterWindow)
=============================================================================
