----------------------------- MODULE EntropyStats -----------------------------
(***************************************************************************)
(* The statistics of app/entropy_stats.c, in integers: a probability is a  *)
(* quotient with a known denominator, a false-positive rate alpha is 2^-a, *)
(* an entropy estimate h_bits a natural number.  Logarithms, roots and the *)
(* p-values computed from them are left out.                               *)
(***************************************************************************)
EXTENDS Integers, Sequences, FiniteSets, FiniteSetsExt, SequencesExt, Combinatorics

CONSTANT BITS   \* bits of a byte

ASSUME BitsAssumption == BITS \in Nat \ {0}

(* b to the power of n. *)
Power(b, n) ==
  LET p[k \in 0 .. n] == IF k = 0 THEN 1 ELSE b * p[k - 1]
  IN  p[n]

Byte == 0 .. Power(2, BITS) - 1
Bit(b, i) == (b \div Power(2, i)) % 2

-----------------------------------------------------------------------------
(* entropy_stats_rct, the generic repetition count test. *)
RctCutoff(a, h) == 1 + (a + h - 1) \div h

(* Faulty variant: the longest run is looked at when the next one starts. *)
LongestRunLate(samples) ==
  LET Step(r, i) ==
        IF samples[i] = samples[i - 1] THEN [r EXCEPT !.run = @ + 1]
        ELSE [run |-> 1, max |-> IF r.run > r.max THEN r.run ELSE r.max]
  IN  FoldLeft(Step, [run |-> 1, max |-> 1],
               [i \in 1 .. Len(samples) - 1 |-> i + 1]).max

LongestRun(samples) ==
  LET Step(r, i) ==
        IF samples[i] = samples[i - 1]
        THEN [run |-> r.run + 1, max |-> IF r.run + 1 > r.max THEN r.run + 1 ELSE r.max]
        ELSE [r EXCEPT !.run = 1]
  IN  FoldLeft(Step, [run |-> 1, max |-> 1],
               [i \in 1 .. Len(samples) - 1 |-> i + 1]).max

RctPassed(samples, cutoff) == samples = << >> \/ LongestRun(samples) < cutoff

-----------------------------------------------------------------------------
(* entropy_stats_apt.  The upper tail P(X >= k) of a binomial distribution
   of n trials with p = 2^-h, times 2^(h*n). *)
UpperTail(n, h, k) ==
  MapThenSumSet(LAMBDA j : choose(n, j) * Power(Power(2, h) - 1, n - j), k .. n)

(* Faulty variant: the tail is compared before the next term is added. *)
CritBinomLate(n, h, a) ==
  LET down[k \in 0 .. n] ==
        IF UpperTail(n, h, k + 1) * Power(2, a) > Power(2, h * n) \/ k = 0 THEN k ELSE down[k - 1]
  IN  down[n]

(* crit_binom: from n downwards until the tail exceeds alpha. *)
CritBinom(n, h, a) ==
  LET down[k \in 0 .. n] ==
        IF UpperTail(n, h, k) * Power(2, a) > Power(2, h * n) \/ k = 0 THEN k ELSE down[k - 1]
  IN  down[n]

AptCutoff(w, a, h) == 1 + CritBinom(w, h, a)

(* Where the windows start that lie in the samples as a whole. *)
WindowStarts(n, w) == { i \in 1 .. n : (i - 1) % w = 0 /\ i + w - 1 <= n }

WindowsFailed(samples, w, cutoff) ==
  { i \in WindowStarts(Len(samples), w) :
      Cardinality({ j \in i .. i + w - 1 : samples[j] = samples[i] }) >= cutoff }

AptPassed(samples, w, cutoff) == WindowsFailed(samples, w, cutoff) = {}

-----------------------------------------------------------------------------
(* entropy_stats_report, test by test. *)
Histogram(data) ==
  [b \in Byte |-> Cardinality({ i \in 1 .. Len(data) : data[i] = b })]

(* BINS * sum of squares - n^2, over n: the chi-square statistic. *)
ChiSquareNum(data) ==
  LET h == Histogram(data) IN
  Power(2, BITS) * SumFunction([b \in Byte |-> h[b] * h[b]]) - Len(data) * Len(data)

Stream(data) ==
  [i \in 1 .. BITS * Len(data) |->
     Bit(data[(i - 1) \div BITS + 1], (i - 1) % BITS)]

Ones(data) ==
  LET bits == Stream(data) IN Cardinality({ i \in DOMAIN bits : bits[i] = 1 })

(* Faulty variant: every byte starts a run of its own. *)
RunsPerByte(data) ==
  LET bits == Stream(data) IN
  Cardinality({ i \in 1 .. Len(bits) :
                  (i - 1) % BITS = 0 \/ bits[i] # bits[i - 1] })

(* prev_bit lives across the bytes and starts at -1. *)
ObservedRuns(data) ==
  LET bits == Stream(data)
      Step(r, bit) == [ prev |-> bit,
                        runs |-> IF bit = r.prev THEN r.runs ELSE r.runs + 1 ]
  IN  FoldLeft(Step, [prev |-> -1, runs |-> 0], bits).runs

(* Numerator and denominator of the serial correlation, with wraparound. *)
ByteSum(data) == FoldLeft(+, 0, data)

SerialNum(data) ==
  Len(data) * FoldLeft(+, 0, [i \in DOMAIN data |->
                                data[i] * data[(i % Len(data)) + 1]])
    - ByteSum(data) * ByteSum(data)

SerialDen(data) ==
  Len(data) * FoldLeft(+, 0, [i \in DOMAIN data |-> data[i] * data[i]])
    - ByteSum(data) * ByteSum(data)
=============================================================================
