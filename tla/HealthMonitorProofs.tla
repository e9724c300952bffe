-------------------------- MODULE HealthMonitorProofs --------------------------
(***************************************************************************)
(* Every step of the health monitor is a step of each of its rings or      *)
(* leaves it alone, so what SampleRingProofs shows of a ring holds of both *)
(* of them, for all sizes.  The counters are then compared with what the   *)
(* history adds up to, a frame's verdicts with the tests they stand for,   *)
(* and the report's statistics with what they are about.                   *)
(***************************************************************************)
EXTENDS FrameStats, FiniteSetTheorems, SequenceTheorems,
        WellFoundedInduction, TLAPS

HistoryRing == INSTANCE SampleRingProofs WITH
  Size <- HISTORY_RING_SIZE, Value <- Sample, Blank <- 0, ring <- history_ring,
  write_index <- history_write_index, samples_written <- history_samples_written

JitterRing == INSTANCE SampleRingProofs WITH
  Size <- JITTER_RING_SIZE, Value <- Latencies, Blank <- 0, ring <- jitter_ring,
  write_index <- jitter_write_index, samples_written <- jitter_samples_written

LEMMA StepOfHistory ==
  ASSUME [Next]_vars
  PROVE  [HistoryRing!RingNext]_(HistoryRing!ringVars)
<1> USE DEF HistoryRing!RingNext, HistoryRing!ringVars, historyVars, jitterVars
<1>1. CASE UNCHANGED vars
  BY <1>1 DEF vars
<1>2. ASSUME NEW n \in ByteCounts \cup {0}, NEW success \in BOOLEAN,
             RecordGenerationAttempt(success, n)
      PROVE  HistoryRing!RingNext
  BY <1>2 DEF RecordGenerationAttempt, History!Record, HistoryRing!Record, Sample
<1>3. CASE ClearHistory
  BY <1>3 DEF ClearHistory, History!Clear, HistoryRing!Clear
<1>4. CASE \E us \in Latencies : RecordJitterSample(us)
  BY <1>4 DEF RecordJitterSample
<1>5. CASE RecordFailure \/ \E b \in BOOLEAN : SetInitialized(b)
  BY <1>5 DEF RecordFailure, SetInitialized
<1>6. CASE SnapshotJitter \/ SnapshotStats \/ SnapshotHistory
  BY <1>6 DEF SnapshotJitter, SnapshotStats, SnapshotHistory
<1>7. QED
  BY <1>1, <1>2, <1>3, <1>4, <1>5, <1>6 DEF Next

LEMMA StepOfJitter ==
  ASSUME [Next]_vars
  PROVE  [JitterRing!RingNext]_(JitterRing!ringVars)
<1> USE DEF JitterRing!RingNext, JitterRing!ringVars, historyVars, jitterVars
<1>1. CASE UNCHANGED vars
  BY <1>1 DEF vars
<1>2. ASSUME NEW n \in ByteCounts \cup {0}, NEW success \in BOOLEAN,
             RecordGenerationAttempt(success, n)
      PROVE  UNCHANGED JitterRing!ringVars
  BY <1>2 DEF RecordGenerationAttempt
<1>3. CASE ClearHistory
  BY <1>3 DEF ClearHistory, Jitter!Clear, JitterRing!Clear
<1>4. CASE \E us \in Latencies : RecordJitterSample(us)
  BY <1>4 DEF RecordJitterSample, Jitter!Record, JitterRing!Record
<1>5. CASE RecordFailure \/ \E b \in BOOLEAN : SetInitialized(b)
  BY <1>5 DEF RecordFailure, SetInitialized
<1>6. CASE SnapshotJitter \/ SnapshotStats \/ SnapshotHistory
  BY <1>6 DEF SnapshotJitter, SnapshotStats, SnapshotHistory
<1>7. QED
  BY <1>1, <1>2, <1>3, <1>4, <1>5, <1>6 DEF Next

LEMMA HistoryImplementsLog == Spec => HistoryRing!ImplementsLog
<1>1. Init => HistoryRing!RingInit
  BY DEF Init, History!RingInit, HistoryRing!RingInit
<1>2. HistoryRing!RingConstantsOK
  BY RingSizeAssumption, ByteAssumption DEF HistoryRing!RingConstantsOK, Sample
<1>3. QED
  BY <1>1, <1>2, StepOfHistory, HistoryRing!RingImplementsLog, PTL
     DEF Spec, HistoryRing!RingSpec

LEMMA SameHistory == HistoryRing!ImplementsLog => History!ImplementsLog
BY PTL DEF HistoryRing!ImplementsLog, History!ImplementsLog,
       HistoryRing!Log!LogSpec, History!Log!LogSpec,
       HistoryRing!Log!LogInit, History!Log!LogInit,
       HistoryRing!Log!LogNext, History!Log!LogNext,
       HistoryRing!Log!LogClear, History!Log!LogClear,
       HistoryRing!Log!LogRecord, History!Log!LogRecord,
       HistoryRing!Snapshot, History!Snapshot,
       HistoryRing!StartIndex, History!StartIndex

LEMMA JitterImplementsLog == Spec => JitterRing!ImplementsLog
<1>1. Init => JitterRing!RingInit
  BY DEF Init, Jitter!RingInit, JitterRing!RingInit
<1>2. JitterRing!RingConstantsOK
  BY RingSizeAssumption, LatencyAssumption DEF JitterRing!RingConstantsOK
<1>3. QED
  BY <1>1, <1>2, StepOfJitter, JitterRing!RingImplementsLog, PTL
     DEF Spec, JitterRing!RingSpec

LEMMA SameJitter == JitterRing!ImplementsLog => Jitter!ImplementsLog
BY PTL DEF JitterRing!ImplementsLog, Jitter!ImplementsLog,
       JitterRing!Log!LogSpec, Jitter!Log!LogSpec,
       JitterRing!Log!LogInit, Jitter!Log!LogInit,
       JitterRing!Log!LogNext, Jitter!Log!LogNext,
       JitterRing!Log!LogClear, Jitter!Log!LogClear,
       JitterRing!Log!LogRecord, Jitter!Log!LogRecord,
       JitterRing!Snapshot, Jitter!Snapshot,
       JitterRing!StartIndex, Jitter!StartIndex

-----------------------------------------------------------------------------
(* Both rings are bounded logs for as long as the process runs, for every ring
   size and every interleaving of recording, clearing and snapshots
   (health_monitor.c:167-174, 193-281, 312-326). *)
THEOREM RingsStayLogs == Spec => RingsAreLogs
BY HistoryImplementsLog, JitterImplementsLog, SameHistory, SameJitter, PTL
   DEF RingsAreLogs
-----------------------------------------------------------------------------
Counted == stats \in [initialized : BOOLEAN, bytes : Nat, calls : Nat, failures : Nat]

LEMMA NoStatsCounted ==
  ASSUME NEW b \in BOOLEAN
  PROVE  /\ [NoStats EXCEPT !.initialized = b] \in
              [initialized : BOOLEAN, bytes : Nat, calls : Nat, failures : Nat]
         /\ [NoStats EXCEPT !.initialized = b].calls = 0
BY DEF NoStats

(* The counters' record with other numbers in it. *)
LEMMA CountedRecord ==
  ASSUME NEW r \in [initialized : BOOLEAN, bytes : Nat, calls : Nat, failures : Nat],
         NEW c \in Nat, NEW b \in Nat, NEW f \in Nat
  PROVE  LET q == [r EXCEPT !.calls = c, !.bytes = b, !.failures = f] IN
         /\ q \in [initialized : BOOLEAN, bytes : Nat, calls : Nat, failures : Nat]
         /\ q.calls = c /\ q.bytes = b /\ q.failures = f
OBVIOUS

(* A call is counted, and its sample moves the number of samples on. *)
LEMMA CallKeepsMatch ==
  ASSUME Counted, HistoryMatchesCalls, NEW success \in BOOLEAN,
         NEW n \in ByteCounts \cup {0}, RecordGenerationAttempt(success, n)
  PROVE  Counted' /\ HistoryMatchesCalls'
<1> DEFINE c == stats.calls + 1
           b == stats.bytes + n
           f == IF success THEN stats.failures ELSE stats.failures + 1
<1>1. c \in Nat /\ b \in Nat /\ f \in Nat
  BY ByteAssumption DEF Counted
<1>2. stats' = [stats EXCEPT !.calls = c, !.bytes = b, !.failures = f]
  BY Zenon DEF RecordGenerationAttempt
<1>3. c = stats.calls + 1
  OBVIOUS
<1> HIDE DEF c, b, f
<1>4. Counted' /\ stats'.calls = c
  BY <1>1, <1>2, CountedRecord DEF Counted
<1>5. history_samples_written' =
        IF history_samples_written < HISTORY_RING_SIZE
        THEN history_samples_written + 1 ELSE history_samples_written
  BY DEF RecordGenerationAttempt, History!Record
<1>6. QED
  BY <1>3, <1>4, <1>5, RingSizeAssumption DEF Counted, HistoryMatchesCalls

LEMMA StepKeepsMatch ==
  Counted /\ HistoryMatchesCalls /\ [Next]_vars => Counted' /\ HistoryMatchesCalls'
<1> SUFFICES ASSUME Counted, HistoryMatchesCalls, [Next]_vars
             PROVE  Counted' /\ HistoryMatchesCalls'
  OBVIOUS
<1>1. CASE UNCHANGED << stats, historyVars >>
  BY <1>1 DEF Counted, HistoryMatchesCalls, historyVars
<1>2. ASSUME NEW b \in BOOLEAN, SetInitialized(b)
      PROVE  Counted' /\ HistoryMatchesCalls'
  <2>1. Counted' /\ stats'.calls = stats.calls
    BY <1>2 DEF Counted, SetInitialized
  <2>2. QED
    BY <1>2, <2>1 DEF HistoryMatchesCalls, SetInitialized, historyVars
<1>3. CASE RecordFailure
  <2>1. Counted' /\ stats'.calls = stats.calls
    BY <1>3 DEF Counted, RecordFailure
  <2>2. QED
    BY <1>3, <2>1 DEF HistoryMatchesCalls, RecordFailure, historyVars
<1>4. CASE ClearHistory
  <2>1. stats.initialized \in BOOLEAN
    BY DEF Counted
  <2>2. Counted' /\ stats'.calls = 0
    BY <1>4, <2>1, NoStatsCounted DEF Counted, ClearHistory
  <2>3. QED
    BY <1>4, <2>2, RingSizeAssumption DEF HistoryMatchesCalls, ClearHistory, History!Clear
<1>5. ASSUME NEW success \in BOOLEAN, NEW n \in ByteCounts \cup {0},
             RecordGenerationAttempt(success, n)
      PROVE  Counted' /\ HistoryMatchesCalls'
  BY <1>5, CallKeepsMatch
<1>6. ASSUME NEW us \in Latencies, RecordJitterSample(us)
      PROVE  UNCHANGED << stats, historyVars >>
  BY <1>6 DEF RecordJitterSample
<1>7. CASE SnapshotJitter \/ SnapshotStats \/ SnapshotHistory
  BY <1>1, <1>7 DEF SnapshotJitter, SnapshotStats, SnapshotHistory
<1>8. QED
  BY <1>1, <1>2, <1>3, <1>4, <1>5, <1>6, <1>7 DEF Next, vars

(* The history holds exactly the last calls that the counters count, for every
   ring size: call counter and ring move together and are cleared together
   (health_monitor.c:139, 172-175, 312-326). *)
THEOREM HistoryIsCounted == Spec => []HistoryMatchesCalls
<1>1. Init => Counted /\ HistoryMatchesCalls
  BY RingSizeAssumption
     DEF Init, NoStats, Counted, HistoryMatchesCalls, History!RingInit
<1>2. QED
  BY <1>1, StepKeepsMatch, PTL DEF Spec

-----------------------------------------------------------------------------
LEMMA LeastOf ==
  ASSUME NEW T \in SUBSET Nat, T # {}
  PROVE  \E x \in T : \A y \in T : x <= y
<1> DEFINE R == { ss \in Nat \X Nat : ss[1] < ss[2] }
<1>1. R = OpToRel(<, Nat)
  BY DEF OpToRel
<1>2. IsWellFoundedOn(R, Nat)
  BY <1>1, NatLessThanWellFounded, Zenon
<1>3. \E x \in T : \A y \in T : ~ (<<y, x>> \in R)
  <2> HIDE DEF R
  <2> QED BY <1>2, WFMin, Zenon
<1>4. PICK x \in T : \A y \in T : ~ (<<y, x>> \in R)
  BY <1>3
<1>5. ASSUME NEW y \in T, y < x PROVE <<y, x>> \in R
  <2>1. <<y, x>> \in Nat \X Nat
    OBVIOUS
  <2>2. <<y, x>>[1] < <<y, x>>[2]
    BY <1>5
  <2>3. QED
    BY <2>1, <2>2, Zenon
<1>6. \A y \in T : x <= y
  <2>1. \A y \in T : ~ (y < x)
    BY <1>4, <1>5, Zenon
  <2>2. QED
    BY <2>1
<1>7. QED
  BY <1>6

(* The function a fold of additions is the choice of. *)
IsFold(it, h, N) ==
  it = [s \in SUBSET N |-> IF s = {} THEN 0 ELSE it[s \ {Max(s)}] + h[Max(s)]]

LEMMA MaxIs ==
  ASSUME NEW S \in SUBSET Nat, NEW m \in S, \A y \in S : m >= y
  PROVE  Max(S) = m
<1>1. Max(S) \in S /\ \A y \in S : Max(S) >= y
  BY Zenon DEF Max
<1>2. PICK x : x = Max(S)
  OBVIOUS
<1>3. x \in S /\ \A y \in S : x >= y
  BY <1>1, <1>2, Zenon
<1>4. x = m
  BY <1>3
<1>5. QED
  BY <1>2, <1>4, Zenon

LEMMA FoldExists ==
  ASSUME NEW h, NEW n \in Nat
  PROVE  \E it : IsFold(it, h, 1 .. n)
<1> DEFINE T == { k \in Nat : ~\E it : IsFold(it, h, 1 .. k) }
<1>1. SUFFICES ASSUME T # {} PROVE FALSE
  BY Zenon
<1>2. PICK m \in T : \A k \in T : m <= k
  BY <1>1, LeastOf, Zenon
<1>3. CASE m = 0
  <2> DEFINE it == [s \in SUBSET {} |-> 0]
  <2>1. 1 .. 0 = {}
    OBVIOUS
  <2>2. IsFold(it, h, {})
    <3>1. \A s \in SUBSET {} : s = {}
      OBVIOUS
    <3>2. it = [s \in SUBSET {} |-> IF s = {} THEN 0 ELSE it[s \ {Max(s)}] + h[Max(s)]]
      BY <3>1, Zenon
    <3> QED
      BY <3>2, Zenon DEF IsFold
  <2>3. \E f : IsFold(f, h, 1 .. m)
    BY <1>3, <2>1, <2>2, Zenon
  <2> QED
    BY <2>3, Zenon
<1>4. CASE m # 0
  <2>1. m - 1 \in Nat /\ m - 1 < m /\ m \in Nat
    BY <1>4
  <2>2. m - 1 \notin T
    BY <1>2, <2>1
  <2>3. PICK it : IsFold(it, h, 1 .. m - 1)
    BY <2>1, <2>2, Zenon
  <2> DEFINE f == [s \in SUBSET (1 .. m) |->
                     IF m \in s THEN it[s \ {m}] + h[m] ELSE it[s]]
  <2>4. ASSUME NEW s \in SUBSET (1 .. m)
        PROVE  f[s] = IF s = {} THEN 0 ELSE f[s \ {Max(s)}] + h[Max(s)]
    <3>1. s \ {Max(s)} \in SUBSET (1 .. m)
      OBVIOUS
    <3>2. CASE m \in s
      <4>1. Max(s) = m
        BY <2>1, <3>2, MaxIs
      <4>2. f[s] = it[s \ {m}] + h[m] /\ f[s \ {m}] = it[s \ {m}]
        BY <3>1, <3>2, <4>1, Zenon
      <4> QED
        BY <3>2, <4>1, <4>2, Zenon
    <3>3. CASE m \notin s
      <4>1. s \in SUBSET (1 .. m - 1)
        BY <2>1, <3>3
      <4>2. it[s] = IF s = {} THEN 0 ELSE it[s \ {Max(s)}] + h[Max(s)]
        BY <2>3, <4>1, Zenon DEF IsFold
      <4>3. f[s] = it[s] /\ f[s \ {Max(s)}] = it[s \ {Max(s)}]
        BY <3>1, <3>3, Zenon
      <4> QED
        BY <4>2, <4>3, Zenon
    <3> QED
      BY <3>2, <3>3, Zenon
  <2>5. IsFold(f, h, 1 .. m)
    BY <2>4, Zenon DEF IsFold
  <2> QED
    BY <2>5, Zenon
<1> QED
  BY <1>3, <1>4, Zenon

(* The sum of a sequence, and the partial sums that lead to it. *)
Total(h) == FoldLeft(+, 0, h)

SumsOf(h, w) ==
  /\ w[0] = 0
  /\ \A k \in 1 .. Len(h) : w[k] = w[k - 1] + h[k]
  /\ \A k \in 0 .. Len(h) : w[k] \in Nat
  /\ Total(h) = w[Len(h)]

LEMMA TotalIsSummed ==
  ASSUME NEW h \in Seq(Nat)
  PROVE  \E w : SumsOf(h, w)
<1>0. Len(h) \in Nat /\ DOMAIN h = 1 .. Len(h) /\ \A i \in 1 .. Len(h) : h[i] \in Nat
  OBVIOUS
<1> DEFINE it == CHOOSE it : IsFold(it, h, DOMAIN h)
<1>1. Total(h) = it[DOMAIN h]
  BY Zenon DEF Total, FoldLeft, MapThenFoldSet, IsFold
<1>2. IsFold(it, h, 1 .. Len(h))
  BY <1>0, FoldExists, Zenon
<1> HIDE DEF it
<1> DEFINE w == [k \in 0 .. Len(h) |-> it[1 .. k]]
<1>3. w[0] = 0
  <2>1. 1 .. 0 = {} /\ 0 \in 0 .. Len(h)
    BY <1>0
  <2>2. it[{}] = 0
    BY <1>2, Zenon DEF IsFold
  <2> QED
    BY <2>1, <2>2, Zenon
<1>4. ASSUME NEW k \in 1 .. Len(h) PROVE w[k] = w[k - 1] + h[k]
  <2>1. /\ 1 .. k \in SUBSET (1 .. Len(h)) /\ 1 .. k # {}
        /\ k \in 0 .. Len(h) /\ k - 1 \in 0 .. Len(h)
        /\ (1 .. k) \ {k} = 1 .. k - 1
    <3>1. k \in Nat /\ 1 <= k /\ k <= Len(h)
      BY <1>0
    <3>2. 1 .. k # {}
      BY <3>1
    <3>3. (1 .. k) \ {k} = 1 .. k - 1
      BY <3>1
    <3>4. QED
      BY <1>0, <3>1, <3>2, <3>3
  <2>2. Max(1 .. k) = k
    <3>1. 1 .. k \in SUBSET Nat /\ k \in 1 .. k /\ \A y \in 1 .. k : k >= y
      BY <1>0
    <3> QED
      BY <3>1, MaxIs, Zenon
  <2>3. it[1 .. k] = it[(1 .. k) \ {Max(1 .. k)}] + h[Max(1 .. k)]
    BY <1>2, <2>1, Zenon DEF IsFold
  <2> QED
    BY <2>1, <2>2, <2>3, Zenon
<1>5. w[Len(h)] = Total(h)
  <2>1. Len(h) \in 0 .. Len(h)
    BY <1>0
  <2> QED
    BY <1>0, <1>1, <2>1, Zenon
<1>6. ASSUME NEW k \in 0 .. Len(h) PROVE w[k] \in Nat
  <2> HIDE DEF w
  <2> DEFINE T == { j \in Nat : j <= Len(h) /\ w[j] \notin Nat }
  <2>1. SUFFICES ASSUME T # {} PROVE FALSE
    BY <1>0
  <2>2. PICK m \in T : \A j \in T : m <= j
    BY <2>1, LeastOf, Zenon
  <2>3. m # 0
    BY <1>3, <2>2
  <2>4. m \in 1 .. Len(h) /\ m - 1 \in Nat /\ m - 1 <= Len(h) /\ m - 1 < m
    BY <1>0, <2>2, <2>3
  <2>5. m - 1 \notin T
    BY <2>2, <2>4
  <2>6. w[m - 1] \in Nat
    BY <2>4, <2>5
  <2>7. w[m] = w[m - 1] + h[m]
    BY <1>4, <2>4
  <2> QED
    BY <1>0, <2>2, <2>4, <2>6, <2>7
<1> HIDE DEF w
<1> QED
  BY <1>3, <1>4, <1>5, <1>6, Zenon DEF SumsOf

(* g is in h, from place d on. *)
Within(g, h, d) ==
  Len(g) + d <= Len(h) /\ \A i \in 1 .. Len(g) : h[i + d] = g[i]

(* Sums that grow alike stay equally far apart. *)
LEMMA SumsKeepApart ==
  ASSUME NEW g \in Seq(Nat), NEW h \in Seq(Nat), NEW v, NEW w, NEW d \in Nat,
         Within(g, h, d), SumsOf(g, v), SumsOf(h, w)
  PROVE  w[Len(g) + d] = v[Len(g)] + w[d]
<1> DEFINE n == Len(g)
           c == w[d]
<1>1. n \in Nat /\ Len(h) \in Nat /\ \A i \in 1 .. n : g[i] \in Nat
  OBVIOUS
<1>2. c \in Nat
  <2>1. d \in 0 .. Len(h)
    BY <1>1 DEF Within
  <2>2. QED
    BY <2>1, Zenon DEF SumsOf
<1>3. n + d <= Len(h) /\ \A i \in 1 .. n : h[i + d] = g[i]
  BY DEF Within
<1>4. SUFFICES w[n + d] = v[n] + c
  OBVIOUS
<1>5. Len(g) = n /\ w[d] = c
  OBVIOUS
<1> HIDE DEF n, c
<1> DEFINE T == { k \in Nat : k <= n /\ w[k + d] # v[k] + c }
<1>6. SUFFICES ASSUME T # {} PROVE FALSE
  <2>1. n \in T \/ w[n + d] = v[n] + c
    BY <1>1
  <2>2. QED
    BY <2>1, <1>6, Zenon
<1>7. PICK m \in T : \A k \in T : m <= k
  BY <1>6, LeastOf, Zenon
<1>8. v[0] = 0
  BY Zenon DEF SumsOf
<1>9. m # 0
  <2>1. w[0 + d] = c /\ v[0] + c = c
    BY <1>2, <1>8, <1>5
  <2>2. QED
    BY <1>7, <2>1
<1>10. /\ m \in 1 .. n /\ m - 1 \in Nat /\ m - 1 <= n /\ m - 1 < m
      /\ m \in 1 .. Len(g) /\ m - 1 \in 0 .. Len(g)
      /\ m + d \in 1 .. Len(h) /\ (m + d) - 1 = (m - 1) + d
  BY <1>7, <1>9, <1>1, <1>3, <1>5
<1>11. m - 1 \notin T
  BY <1>7, <1>10
<1>12. w[(m - 1) + d] = v[m - 1] + c
  BY <1>10, <1>11
<1>13. v[m] = v[m - 1] + g[m] /\ v[m - 1] \in Nat
  BY <1>10, Zenon DEF SumsOf
<1>14. w[m + d] = w[(m - 1) + d] + h[m + d]
  BY <1>10, Zenon DEF SumsOf
<1>15. h[m + d] = g[m] /\ g[m] \in Nat
  BY <1>10, <1>1, <1>3
<1>16. w[m + d] = v[m] + c
  BY <1>12, <1>13, <1>14, <1>15, <1>2
<1>17. QED
  BY <1>7, <1>16

LEMMA TotalOfNone == Total(<< >>) = 0
<1>1. << >> \in Seq(Nat) /\ Len(<< >>) = 0
  OBVIOUS
<1>2. PICK w : SumsOf(<< >>, w)
  BY <1>1, TotalIsSummed, Zenon
<1>3. QED
  BY <1>1, <1>2, Zenon DEF SumsOf

LEMMA TotalOfAppend ==
  ASSUME NEW h \in Seq(Nat), NEW x \in Nat
  PROVE  Total(h) \in Nat /\ Total(Append(h, x)) = Total(h) + x
<1>1. PICK a \in Seq(Nat) : a = Append(h, x)
  BY AppendProperties
<1>2. /\ Len(h) \in Nat /\ Len(a) = Len(h) + 1 /\ a[Len(a)] = x
      /\ \A i \in 1 .. Len(h) : a[i] = h[i] /\ h[i] \in Nat
  BY <1>1, AppendProperties
<1>3. PICK v : SumsOf(h, v)
  BY TotalIsSummed, Zenon
<1>4. PICK w : SumsOf(a, w)
  BY TotalIsSummed, Zenon
<1>5. w[0] = 0
  BY <1>4, Zenon DEF SumsOf
<1>6. w[Len(h) + 0] = v[Len(h)] + w[0]
  <2>1. \A i \in 1 .. Len(h) : h[i] \in Nat /\ a[i + 0] = h[i]
    BY <1>2
  <2>2. Within(h, a, 0) /\ 0 \in Nat
    BY <1>2, <2>1 DEF Within
  <2>3. QED
    BY <1>3, <1>4, <2>2, SumsKeepApart
<1>7. v[Len(h)] \in Nat /\ Total(h) = v[Len(h)]
  <2>1. Len(h) \in 0 .. Len(h)
    BY <1>2
  <2>2. QED
    BY <1>3, <2>1, Zenon DEF SumsOf
<1>8. Total(a) = w[Len(a) - 1] + a[Len(a)]
  <2>1. Len(a) \in 1 .. Len(a)
    BY <1>2
  <2>2. QED
    BY <1>4, <2>1, Zenon DEF SumsOf
<1>9. Len(a) - 1 = Len(h) /\ Len(h) + 0 = Len(h) /\ v[Len(h)] + w[0] = v[Len(h)]
  BY <1>2, <1>5, <1>7
<1>10. Total(a) = Total(h) + x
  BY <1>2, <1>6, <1>7, <1>8, <1>9, Zenon
<1>11. QED
  BY <1>1, <1>7, <1>10, Zenon

LEMMA TotalOfTail ==
  ASSUME NEW h \in Seq(Nat), h # << >>
  PROVE  Total(Tail(h)) \in Nat /\ Total(Tail(h)) <= Total(h)
<1>1. PICK g \in Seq(Nat) : g = Tail(h)
  BY HeadTailProperties
<1>2. /\ Len(h) \in Nat \ {0} /\ Len(g) = Len(h) - 1
      /\ h[1] \in Nat
      /\ \A i \in 1 .. Len(g) : g[i] \in Nat /\ h[i + 1] = g[i]
  BY <1>1, HeadTailProperties, EmptySeq
<1>3. PICK v : SumsOf(g, v)
  BY TotalIsSummed, Zenon
<1>4. PICK w : SumsOf(h, w)
  BY TotalIsSummed, Zenon
<1>5. w[1] = h[1]
  <2>1. 1 \in 1 .. Len(h) /\ 1 - 1 = 0
    BY <1>2
  <2>2. w[1] = w[1 - 1] + h[1] /\ w[0] = 0
    BY <1>4, <2>1, Zenon DEF SumsOf
  <2>3. QED
    BY <1>2, <2>1, <2>2
<1>6. w[Len(g) + 1] = v[Len(g)] + h[1]
  <2>1. Within(g, h, 1) /\ 1 \in Nat
    BY <1>2 DEF Within
  <2>2. w[Len(g) + 1] = v[Len(g)] + w[1]
    BY <1>3, <1>4, <2>1, SumsKeepApart
  <2>3. QED
    BY <1>5, <2>2, Zenon
<1>7. v[Len(g)] \in Nat /\ Total(g) = v[Len(g)]
  <2>1. Len(g) \in 0 .. Len(g)
    BY <1>2
  <2>2. QED
    BY <1>3, <2>1, Zenon DEF SumsOf
<1>8. Total(h) = w[Len(h)] /\ Len(h) = Len(g) + 1
  BY <1>2, <1>4 DEF SumsOf
<1>9. PICK t \in Nat : t = Total(g) /\ t = v[Len(g)]
  BY <1>7, Zenon
<1>10. Total(h) = t + h[1]
  BY <1>6, <1>8, <1>9, Zenon
<1>11. t <= t + h[1]
  BY <1>2
<1>12. QED
  BY <1>1, <1>9, <1>10, <1>11, Zenon

-----------------------------------------------------------------------------
(* The samples without bytes, by their places. *)
Blanks(h) == { i \in DOMAIN h : h[i] = 0 }

LEMMA BlanksOfAppend ==
  ASSUME NEW h \in Seq(Nat), NEW x \in Nat
  PROVE  /\ Cardinality(Blanks(h)) \in Nat
         /\ Cardinality(Blanks(Append(h, x)))
              = IF x = 0 THEN Cardinality(Blanks(h)) + 1 ELSE Cardinality(Blanks(h))
<1> DEFINE a == Append(h, x)
           n == Len(h) + 1
<1>1. /\ DOMAIN h = 1 .. Len(h) /\ Len(h) \in Nat /\ DOMAIN a = 1 .. n
      /\ a[n] = x /\ \A i \in 1 .. Len(h) : a[i] = h[i]
  BY AppendProperties
<1>2. Blanks(h) \in SUBSET (1 .. Len(h)) /\ n \notin Blanks(h)
  BY <1>1 DEF Blanks
<1>3. IsFiniteSet(Blanks(h))
  <2>1. IsFiniteSet(1 .. Len(h))
    BY <1>1, FS_Interval
  <2>2. QED
    BY <1>2, <2>1, FS_Subset, Zenon
<1>4. Blanks(a) = IF x = 0 THEN Blanks(h) \cup {n} ELSE Blanks(h)
  BY <1>1 DEF Blanks
<1>5. /\ Cardinality(Blanks(h)) \in Nat
      /\ Cardinality(Blanks(h) \cup {n}) = Cardinality(Blanks(h)) + 1
  BY <1>2, <1>3, FS_CardinalityType, FS_AddElement, Zenon
<1>6. QED
  BY <1>4, <1>5, Zenon

LEMMA BlanksOfTail ==
  ASSUME NEW h \in Seq(Nat), h # << >>
  PROVE  /\ Cardinality(Blanks(Tail(h))) \in Nat
         /\ Cardinality(Blanks(Tail(h))) <= Cardinality(Blanks(h))
<1> DEFINE g == Tail(h)
           f == [i \in Blanks(g) |-> i + 1]
<1>1. /\ g \in Seq(Nat) /\ Len(h) \in Nat \ {0} /\ Len(g) = Len(h) - 1
      /\ DOMAIN h = 1 .. Len(h) /\ DOMAIN g = 1 .. Len(g)
      /\ \A i \in 1 .. Len(g) : h[i + 1] = g[i]
  BY HeadTailProperties, EmptySeq
<1> HIDE DEF g
<1>2. /\ Blanks(h) \in SUBSET (1 .. Len(h)) /\ Blanks(g) \in SUBSET (1 .. Len(g))
      /\ \A i \in Blanks(g) : i + 1 \in Blanks(h)
  BY <1>1 DEF Blanks
<1>3. IsFiniteSet(Blanks(h)) /\ IsFiniteSet(Blanks(g))
  <2>1. IsFiniteSet(1 .. Len(h)) /\ IsFiniteSet(1 .. Len(g))
    BY <1>1, FS_Interval
  <2>2. QED
    BY <1>2, <2>1, FS_Subset, Zenon
<1>4. f \in Injection(Blanks(g), Blanks(h))
  BY <1>2 DEF Injection, IsInjective
<1>5. Cardinality(Blanks(g)) <= Cardinality(Blanks(h))
  BY <1>3, <1>4, FS_Injection, Zenon
<1>6. Cardinality(Blanks(g)) \in Nat
  BY <1>3, FS_CardinalityType, Zenon
<1>7. QED
  BY <1>5, <1>6, Zenon DEF g

-----------------------------------------------------------------------------
(* The bytes and the failures a history accounts for, each as the numbers
   that a step can only let grow as far as the counters do. *)
Covered(s, h) ==
  Total(h) <= s.bytes /\ Cardinality(Blanks(h)) <= s.failures

LEMMA CoversMeans == TotalsCoverHistory <=> Covered(stats, FrameHistory)
BY Zenon DEF TotalsCoverHistory, Covered, Total, Blanks

(* A recorded sample adds its bytes, or a blank. *)
LEMMA RecordKeepsCover ==
  ASSUME NEW h \in Seq(Nat), NEW x \in Nat, NEW size \in Nat \ {0}, NEW g,
         g = IF Len(h) < size THEN Append(h, x) ELSE Append(Tail(h), x),
         NEW s, NEW t, s.bytes \in Nat, s.failures \in Nat,
         t.bytes \in Nat, t.failures \in Nat,
         s.bytes + x <= t.bytes,
         (IF x = 0 THEN s.failures + 1 ELSE s.failures) <= t.failures,
         Covered(s, h)
  PROVE  Covered(t, g)
<1>1. PICK r \in Seq(Nat) :
        g = Append(r, x) /\ Total(r) <= Total(h)
        /\ Cardinality(Blanks(r)) <= Cardinality(Blanks(h))
  <2>1. CASE Len(h) < size
    <3>1. Total(h) \in Nat /\ Cardinality(Blanks(h)) \in Nat
      BY TotalOfAppend, BlanksOfAppend, Zenon
    <3>2. Total(h) <= Total(h) /\ Cardinality(Blanks(h)) <= Cardinality(Blanks(h))
      BY <3>1
    <3>3. g = Append(h, x)
      BY <2>1
    <3>4. QED
      BY <3>2, <3>3, Zenon
  <2>2. CASE ~ (Len(h) < size)
    <3>1. h # << >> /\ Tail(h) \in Seq(Nat)
      <4>1. Len(h) # 0
        BY <2>2
      <4>2. h # << >>
        BY <4>1
      <4>3. QED
        BY <4>2
    <3>2. g = Append(Tail(h), x)
      BY <2>2
    <3>3. Total(Tail(h)) <= Total(h) /\ Cardinality(Blanks(Tail(h))) <= Cardinality(Blanks(h))
      BY <3>1, TotalOfTail, BlanksOfTail, Zenon
    <3>4. QED
      BY <3>1, <3>2, <3>3, Zenon
  <2>3. QED
    BY <2>1, <2>2, Zenon
<1>2. /\ Total(r) \in Nat /\ Total(g) = Total(r) + x
      /\ Cardinality(Blanks(r)) \in Nat
      /\ Cardinality(Blanks(g)) = IF x = 0 THEN Cardinality(Blanks(r)) + 1
                                           ELSE Cardinality(Blanks(r))
  BY <1>1, TotalOfAppend, BlanksOfAppend, Zenon
<1>3. PICK a, b, c, d : /\ a = Total(r) /\ b = Total(h)
                        /\ c = Cardinality(Blanks(r)) /\ d = Cardinality(Blanks(h))
  OBVIOUS
<1>4. Total(h) \in Nat /\ Cardinality(Blanks(h)) \in Nat
  BY TotalOfAppend, BlanksOfAppend, Zenon
<1>5. /\ a \in Nat /\ c \in Nat /\ b \in Nat /\ d \in Nat /\ a <= b /\ c <= d
      /\ b <= s.bytes /\ d <= s.failures
  BY <1>1, <1>2, <1>3, <1>4, Zenon DEF Covered
<1>6. a + x <= t.bytes /\ (IF x = 0 THEN c + 1 ELSE c) <= t.failures
  <2>1. PICK sb \in Nat, sf \in Nat, tb \in Nat, tf \in Nat :
          sb = s.bytes /\ sf = s.failures /\ tb = t.bytes /\ tf = t.failures
    BY Zenon
  <2>2. /\ sb + x <= tb /\ (IF x = 0 THEN sf + 1 ELSE sf) <= tf
        /\ b <= sb /\ d <= sf
    BY <1>5, <2>1, Zenon
  <2>3. a + x <= tb
    BY <1>5, <2>1, <2>2
  <2>4. (IF x = 0 THEN c + 1 ELSE c) <= tf
    <3>1. CASE x = 0
      BY <1>5, <2>1, <2>2, <3>1
    <3>2. CASE x # 0
      BY <1>5, <2>1, <2>2, <3>2
    <3>3. QED
      BY <3>1, <3>2, Zenon
  <2>5. QED
    BY <2>1, <2>3, <2>4, Zenon
<1>7. QED
  BY <1>2, <1>3, <1>6, Zenon DEF Covered

CoverInv == Counted /\ HistoryRing!RingInv /\ Covered(stats, FrameHistory)

LEMMA FrameIsLog ==
  ASSUME HistoryRing!RingInv
  PROVE  FrameHistory \in Seq(Nat)
<1>1. HistoryRing!FullSnapshot
  BY HistoryRing!SnapshotPlaces
<1>2. FrameHistory = HistoryRing!Snapshot(HISTORY_RING_SIZE)
  BY DEF FrameHistory, History!Snapshot, HistoryRing!Snapshot,
         History!StartIndex, HistoryRing!StartIndex
<1>3. Sample \subseteq Nat
  BY ByteAssumption DEF Sample
<1>4. FrameHistory \in Seq(Sample)
  BY <1>1, <1>2, Zenon DEF HistoryRing!FullSnapshot
<1>5. PICK h \in Seq(Sample) : h = FrameHistory
  BY <1>4, Zenon
<1>6. /\ Len(h) \in Nat /\ h = [i \in 1 .. Len(h) |-> h[i]]
      /\ \A i \in 1 .. Len(h) : h[i] \in Sample
  OBVIOUS
<1>7. h \in [1 .. Len(h) -> Nat]
  BY <1>3, <1>6
<1>8. QED
  <2>1. PICK n \in Nat : n = Len(h)
    BY <1>6
  <2>2. h \in [1 .. n -> Nat]
    BY <1>7, <2>1, Zenon
  <2>3. h \in Seq(Nat)
    BY <2>2
  <2>4. QED
    BY <1>5, <2>3, Zenon

(* What a step of the ring does to the frame's history. *)
LEMMA RecordMovesFrame ==
  ASSUME HistoryRing!RingInv, HistoryRing!RingInv', NEW x \in Sample,
         History!Record(x)
  PROVE  FrameHistory' = IF Len(FrameHistory) < HISTORY_RING_SIZE
                         THEN Append(FrameHistory, x)
                         ELSE Append(Tail(FrameHistory), x)
<1>1. HistoryRing!FullSnapshot
  BY HistoryRing!SnapshotPlaces
<1>2. HistoryRing!FullSnapshot'
  BY HistoryRing!SnapshotPlaces, PTL
<1>3. HistoryRing!RingConstantsOK
  BY DEF HistoryRing!RingInv
<1>4. HistoryRing!Record(x)
  BY DEF History!Record, HistoryRing!Record
<1>5. HistoryRing!Log!LogRecord(x)
  BY <1>1, <1>2, <1>3, <1>4, HistoryRing!RecordMapsToLog
<1>6. QED
  BY <1>5 DEF HistoryRing!Log!LogRecord, FrameHistory, History!Snapshot,
              HistoryRing!Snapshot, History!StartIndex, HistoryRing!StartIndex

LEMMA EmptyIsCovered == Total(<< >>) <= 0 /\ Cardinality(Blanks(<< >>)) <= 0
<1>1. Blanks(<< >>) = {}
  BY DEF Blanks
<1>2. Total(<< >>) = 0 /\ Cardinality(Blanks(<< >>)) = 0
  BY <1>1, TotalOfNone, FS_EmptySet, Zenon
<1>3. QED
  BY <1>2

LEMMA SameFrame ==
  ASSUME UNCHANGED historyVars
  PROVE  FrameHistory' = FrameHistory
BY DEF historyVars, FrameHistory, History!Snapshot, History!StartIndex

LEMMA StepKeepsCover ==
  CoverInv /\ HistoryRing!RingInv' /\ [Next]_vars => CoverInv'
<1> SUFFICES ASSUME CoverInv, HistoryRing!RingInv', [Next]_vars
             PROVE  Counted' /\ Covered(stats, FrameHistory)'
  BY DEF CoverInv
<1>1. ASSUME UNCHANGED historyVars, Counted',
             stats'.bytes = stats.bytes,
             stats'.failures \in {stats.failures, stats.failures + 1}
      PROVE  Covered(stats, FrameHistory)'
  <2>1. PICK h : h = FrameHistory /\ h = FrameHistory'
    BY <1>1, SameFrame
  <2>2. h \in Seq(Nat)
    BY <2>1, FrameIsLog DEF CoverInv
  <2>3. PICK d \in Nat : d = Cardinality(Blanks(h))
    BY <2>2, BlanksOfAppend, Zenon
  <2>4. PICK f \in Nat, g \in Nat : f = stats.failures /\ g = stats'.failures
    BY <1>1 DEF CoverInv, Counted
  <2>5. Total(h) <= stats.bytes /\ d <= f
    BY <2>1, <2>3, <2>4, Zenon DEF CoverInv, Covered
  <2>6. d <= g
    BY <1>1, <2>4, <2>5
  <2>7. QED
    BY <1>1, <2>1, <2>3, <2>4, <2>5, <2>6, Zenon DEF Covered
<1>2. CASE UNCHANGED << stats, historyVars >>
  BY <1>1, <1>2 DEF CoverInv, Counted
<1>3. ASSUME NEW b \in BOOLEAN, SetInitialized(b)
      PROVE  Counted' /\ Covered(stats, FrameHistory)'
  BY <1>1, <1>3 DEF CoverInv, Counted, SetInitialized
<1>4. CASE RecordFailure
  BY <1>1, <1>4 DEF CoverInv, Counted, RecordFailure
<1>5. CASE ClearHistory
  <2>1. Counted'
    <3>1. stats.initialized \in BOOLEAN
      BY DEF CoverInv, Counted
    <3>2. QED
      BY <1>5, <3>1, NoStatsCounted DEF Counted, ClearHistory
  <2>2. stats'.bytes = 0 /\ stats'.failures = 0
    BY <1>5 DEF ClearHistory, NoStats
  <2>3. FrameHistory' = << >>
    <3>1. HistoryRing!FullSnapshot'
      BY HistoryRing!SnapshotPlaces, PTL
    <3>2. HistoryRing!Clear
      BY <1>5 DEF ClearHistory, History!Clear, HistoryRing!Clear
    <3>3. HistoryRing!Log!LogClear
      BY <3>1, <3>2, HistoryRing!ClearMapsToLog
    <3>4. QED
      BY <3>3 DEF HistoryRing!Log!LogClear, FrameHistory, History!Snapshot,
                  HistoryRing!Snapshot, History!StartIndex, HistoryRing!StartIndex
  <2>4. QED
    BY <2>1, <2>2, <2>3, EmptyIsCovered, Zenon DEF Covered
<1>6. ASSUME NEW success \in BOOLEAN, NEW n \in ByteCounts \cup {0},
             success => n \in ByteCounts, RecordGenerationAttempt(success, n)
      PROVE  Counted' /\ Covered(stats, FrameHistory)'
  <2> DEFINE x == IF success THEN n ELSE 0
  <2>1. n \in Nat /\ x \in Sample /\ x \in Nat /\ History!Record(x)
    BY <1>6, ByteAssumption DEF RecordGenerationAttempt, Sample
  <2>2. Counted' /\ stats'.bytes = stats.bytes + n
        /\ stats'.failures = IF success THEN stats.failures ELSE stats.failures + 1
    <3>1. PICK c \in Nat, b \in Nat, f \in Nat :
            /\ c = stats.calls + 1 /\ b = stats.bytes + n
            /\ f = IF success THEN stats.failures ELSE stats.failures + 1
      BY <2>1 DEF CoverInv, Counted
    <3>2. stats' = [stats EXCEPT !.calls = c, !.bytes = b, !.failures = f]
      BY <1>6, <3>1, Zenon DEF RecordGenerationAttempt
    <3>3. Counted' /\ stats'.bytes = b /\ stats'.failures = f
      BY <3>2, CountedRecord DEF CoverInv, Counted
    <3>4. QED
      BY <3>1, <3>3, Zenon
  <2>3. FrameHistory \in Seq(Nat)
    BY FrameIsLog DEF CoverInv
  <2>4. FrameHistory' = IF Len(FrameHistory) < HISTORY_RING_SIZE
                        THEN Append(FrameHistory, x)
                        ELSE Append(Tail(FrameHistory), x)
    BY <2>1, RecordMovesFrame, Zenon DEF CoverInv
  <2>5. /\ stats.bytes \in Nat /\ stats.failures \in Nat
        /\ stats'.bytes \in Nat /\ stats'.failures \in Nat
    BY <2>2 DEF CoverInv, Counted
  <2>6. /\ stats.bytes + x <= stats'.bytes
        /\ (IF x = 0 THEN stats.failures + 1 ELSE stats.failures) <= stats'.failures
    <3>1. CASE success
      <4>1. n # 0
        BY <1>6, <3>1, ByteAssumption
      <4>2. x = n
        BY <3>1
      <4>3. QED
        BY <2>1, <2>2, <2>5, <3>1, <4>1, <4>2
    <3>2. CASE ~success
      BY <2>1, <2>2, <2>5, <3>2
    <3>3. QED
      BY <3>1, <3>2
  <2>7. PICK g : g = FrameHistory'
    BY Zenon
  <2>8. PICK h \in Seq(Nat) : h = FrameHistory
    BY <2>3, Zenon
  <2>9. g = IF Len(h) < HISTORY_RING_SIZE THEN Append(h, x) ELSE Append(Tail(h), x)
    BY <2>4, <2>7, <2>8, Zenon
  <2>10. Covered(stats, h) /\ HISTORY_RING_SIZE \in Nat \ {0}
    BY <2>8, RingSizeAssumption, Zenon DEF CoverInv
  <2>11. Covered(stats', g)
    BY <2>1, <2>5, <2>6, <2>9, <2>10, RecordKeepsCover, Zenon
  <2>12. QED
    BY <2>2, <2>7, <2>11, Zenon DEF Covered
<1>7. ASSUME NEW us \in Latencies, RecordJitterSample(us)
      PROVE  UNCHANGED << stats, historyVars >>
  BY <1>7 DEF RecordJitterSample
<1>8. CASE SnapshotJitter \/ SnapshotStats \/ SnapshotHistory
  BY <1>2, <1>8 DEF SnapshotJitter, SnapshotStats, SnapshotHistory
<1>9. QED
  BY <1>2, <1>3, <1>4, <1>5, <1>6, <1>7, <1>8 DEF Next, vars

LEMMA CoverHolds == Spec => [](CoverInv /\ HistoryRing!RingInv)
<1>1. Spec => [](HistoryRing!RingInv)
  <2>1. Init => HistoryRing!RingInit
    BY DEF Init, History!RingInit, HistoryRing!RingInit
  <2>2. HistoryRing!RingConstantsOK
    BY RingSizeAssumption, ByteAssumption DEF HistoryRing!RingConstantsOK, Sample
  <2>3. QED
    BY <2>1, <2>2, StepOfHistory, HistoryRing!RingInvariant, PTL
       DEF Spec, HistoryRing!RingSpec
<1>2. Init /\ HistoryRing!RingInv => CoverInv
  <2> SUFFICES ASSUME Init, HistoryRing!RingInv
               PROVE  Counted /\ Covered(stats, FrameHistory)
    BY DEF CoverInv
  <2>1. Counted /\ stats.bytes = 0 /\ stats.failures = 0
    BY DEF Init, NoStats, Counted
  <2>2. FrameHistory = << >>
    BY RingSizeAssumption DEF Init, History!RingInit, FrameHistory, History!Snapshot
  <2>3. QED
    BY <2>1, <2>2, EmptyIsCovered, Zenon DEF Covered
<1>3. QED
  BY <1>1, <1>2, StepKeepsCover, PTL DEF Spec

(* The bytes and the failures that a frame's history shows are covered by the
   counters, for every ring size and whatever was overwritten or cleared:
   a failed call's bytes are in the total only, and a sample without bytes is a
   counted failure (health_monitor.c:138-176, 208-232, 312-326). *)
THEOREM TotalsAreCovered == Spec => []TotalsCoverHistory
<1>1. CoverInv => TotalsCoverHistory
  BY CoversMeans DEF CoverInv
<1>2. QED
  BY <1>1, CoverHolds, PTL

-----------------------------------------------------------------------------
(* Sums of rows and over sets, for the tails of the proportion test. *)
(* A row that repeats another one, but for one place at which it is higher, or
   is higher in several. *)
LEMMA TotalRises ==
  ASSUME NEW g \in Seq(Nat), NEW h \in Seq(Nat), Len(g) = Len(h),
         \A i \in 1 .. Len(h) : g[i] <= h[i]
  PROVE  Total(g) <= Total(h)
<1>1. PICK v : SumsOf(g, v)
  BY TotalIsSummed, Zenon
<1>2. PICK w : SumsOf(h, w)
  BY TotalIsSummed, Zenon
<1>3. PICK n \in Nat : n = Len(g) /\ n = Len(h)
  OBVIOUS
<1>4. /\ v[0] = 0 /\ w[0] = 0 /\ Total(g) = v[n] /\ Total(h) = w[n]
      /\ \A k \in 1 .. n : v[k] = v[k - 1] + g[k] /\ w[k] = w[k - 1] + h[k]
      /\ \A k \in 0 .. n : v[k] \in Nat /\ w[k] \in Nat
  BY <1>1, <1>2, <1>3, Zenon DEF SumsOf
<1>5. \A k \in 1 .. n : g[k] \in Nat /\ h[k] \in Nat /\ g[k] <= h[k]
  BY <1>3
<1> DEFINE T == { k \in Nat : k <= n /\ ~(v[k] <= w[k]) }
<1>6. SUFFICES ASSUME T # {} PROVE FALSE
  <2>1. n \in T \/ v[n] <= w[n]
    BY <1>3
  <2>2. QED
    BY <1>4, <1>6, <2>1, Zenon
<1>7. PICK m \in T : \A k \in T : m <= k
  BY <1>6, LeastOf, Zenon
<1>8. m # 0
  BY <1>4, <1>7
<1>9. m \in 1 .. n /\ m - 1 \in Nat /\ m - 1 <= n /\ m - 1 < m /\ m - 1 \in 0 .. n
  BY <1>7, <1>8
<1>10. m - 1 \notin T
  BY <1>7, <1>9
<1>11. v[m - 1] <= w[m - 1]
  BY <1>9, <1>10
<1>12. v[m] <= w[m]
  <2>1. PICK a \in Nat, b \in Nat, c \in Nat, d \in Nat :
          a = v[m - 1] /\ b = w[m - 1] /\ c = g[m] /\ d = h[m]
    BY <1>4, <1>5, <1>9, Zenon
  <2>2. v[m] = a + c /\ w[m] = b + d /\ a <= b /\ c <= d
    BY <1>4, <1>5, <1>9, <1>11, <2>1, Zenon
  <2>3. a + c <= b + d
    BY <2>2
  <2>4. QED
    BY <2>2, <2>3, Zenon
<1>13. QED
  BY <1>7, <1>12

LEMMA TotalRisesBy ==
  ASSUME NEW g \in Seq(Nat), NEW h \in Seq(Nat), Len(g) = Len(h),
         NEW x \in 1 .. Len(h), NEW d \in Nat, h[x] = g[x] + d,
         \A i \in 1 .. Len(h) : i # x => h[i] = g[i]
  PROVE  Total(h) = Total(g) + d
<1>1. PICK v : SumsOf(g, v)
  BY TotalIsSummed, Zenon
<1>2. PICK w : SumsOf(h, w)
  BY TotalIsSummed, Zenon
<1>3. PICK n \in Nat : n = Len(g) /\ n = Len(h)
  OBVIOUS
<1>4. /\ v[0] = 0 /\ w[0] = 0 /\ Total(g) = v[n] /\ Total(h) = w[n]
      /\ \A k \in 1 .. n : v[k] = v[k - 1] + g[k] /\ w[k] = w[k - 1] + h[k]
      /\ \A k \in 0 .. n : v[k] \in Nat /\ w[k] \in Nat
  BY <1>1, <1>2, <1>3, Zenon DEF SumsOf
<1>5. x \in 1 .. n /\ \A k \in 1 .. n : /\ g[k] \in Nat /\ h[k] \in Nat
                       /\ h[k] = IF k = x THEN g[k] + d ELSE g[k]
  BY <1>3
<1> DEFINE P(k) == w[k] = IF k < x THEN v[k] ELSE v[k] + d
           T == { k \in Nat : k <= n /\ ~P(k) }
<1>6. SUFFICES ASSUME T # {} PROVE FALSE
  <2>1. n \in T \/ P(n)
    BY <1>3
  <2>2. ~(n < x)
    BY <1>5
  <2>3. QED
    BY <1>4, <1>6, <2>1, <2>2, Zenon
<1>7. PICK m \in T : \A k \in T : m <= k
  BY <1>6, LeastOf, Zenon
<1>8. m # 0
  BY <1>4, <1>5, <1>7
<1>9. m \in 1 .. n /\ m - 1 \in Nat /\ m - 1 <= n /\ m - 1 < m /\ m - 1 \in 0 .. n
  BY <1>7, <1>8
<1>10. m - 1 \notin T
  BY <1>7, <1>9
<1>11. P(m - 1)
  BY <1>9, <1>10
<1>12. PICK a \in Nat, b \in Nat, c \in Nat, e \in Nat :
         /\ a = v[m - 1] /\ b = w[m - 1] /\ c = g[m] /\ e = h[m]
  BY <1>4, <1>5, <1>9, Zenon
<1>13. v[m] = a + c /\ w[m] = b + e
  BY <1>4, <1>9, <1>12, Zenon
<1>14. b = (IF m - 1 < x THEN a ELSE a + d) /\ e = IF m = x THEN c + d ELSE c
  BY <1>5, <1>9, <1>11, <1>12, Zenon
<1>15. b + e = IF m < x THEN a + c ELSE (a + c) + d
  BY <1>9, <1>14
<1>16. P(m)
  BY <1>13, <1>15, Zenon
<1>17. QED
  BY <1>7, <1>16, Zenon

(* The sum of the values t[j] for the places j in S. *)
Row(t, S) == [j \in DOMAIN t |-> IF j \in S THEN t[j] ELSE 0]

LEMMA RowIsSeq ==
  ASSUME NEW t \in Seq(Nat), NEW S
  PROVE  Row(t, S) \in Seq(Nat) /\ Len(Row(t, S)) = Len(t)
<1>1. PICK n \in Nat : n = Len(t)
  OBVIOUS
<1>2. DOMAIN t = 1 .. n /\ \A j \in 1 .. n : t[j] \in Nat
  BY <1>1
<1>3. PICK r : r = Row(t, S)
  BY Zenon
<1>4. r \in [1 .. n -> Nat]
  BY <1>2, <1>3 DEF Row
<1>5. r \in Seq(Nat) /\ Len(r) = n
  BY <1>4
<1>6. QED
  BY <1>1, <1>3, <1>5, Zenon

LEMMA TotalOfRow ==
  ASSUME NEW t \in Seq(Nat), NEW S \in SUBSET (DOMAIN t), NEW x \in S
  PROVE  Total(Row(t, S)) = t[x] + Total(Row(t, S \ {x}))
<1>1. PICK n \in Nat : n = Len(t)
  OBVIOUS
<1>2. DOMAIN t = 1 .. n /\ \A j \in 1 .. n : t[j] \in Nat
  BY <1>1
<1>3. PICK g, h : g = Row(t, S \ {x}) /\ h = Row(t, S)
  BY Zenon
<1>4. /\ g \in Seq(Nat) /\ h \in Seq(Nat) /\ Len(g) = n /\ Len(h) = n
  BY <1>1, <1>3, RowIsSeq
<1>5. \A j \in 1 .. n : /\ g[j] = (IF j \in S \ {x} THEN t[j] ELSE 0)
                        /\ h[j] = (IF j \in S THEN t[j] ELSE 0)
  BY <1>2, <1>3, Zenon DEF Row
<1>6. x \in 1 .. n /\ t[x] \in Nat
  BY <1>2
<1>7. h[x] = g[x] + t[x] /\ \A j \in 1 .. n : j # x => h[j] = g[j]
  BY <1>5, <1>6
<1>8. Total(h) = Total(g) + t[x]
  <2>1. Len(g) = Len(h) /\ x \in 1 .. Len(h) /\ \A j \in 1 .. Len(h) : j # x => h[j] = g[j]
    BY <1>4, <1>6, <1>7, Zenon
  <2>2. PICK d \in Nat : d = t[x] /\ h[x] = g[x] + d
    BY <1>6, <1>7, Zenon
  <2>3. Total(h) = Total(g) + d
    BY <1>4, <2>1, <2>2, TotalRisesBy, Zenon
  <2>4. QED
    BY <2>2, <2>3, Zenon
<1>9. Total(g) \in Nat
  BY <1>4, TotalOfAppend, Zenon
<1>10. Total(g) + t[x] = t[x] + Total(g)
  BY <1>6, <1>9
<1>11. QED
  BY <1>3, <1>8, <1>10, Zenon

(* A sum over a set, in whatever order its elements are chosen. *)
IsSum(it, t, N) ==
  it = [s \in SUBSET N |->
          IF s = {} THEN 0
          ELSE t[CHOOSE x \in s : TRUE] + it[s \ {CHOOSE x \in s : TRUE}]]

LEMMA TotalOfZeros ==
  ASSUME NEW r \in Seq(Nat), \A j \in 1 .. Len(r) : r[j] = 0
  PROVE  Total(r) = 0
<1>1. PICK w : SumsOf(r, w)
  BY TotalIsSummed, Zenon
<1>2. PICK n \in Nat : n = Len(r)
  OBVIOUS
<1>3. w[0] = 0 /\ Total(r) = w[n] /\ \A k \in 1 .. n : w[k] = w[k - 1] + 0
  BY <1>1, <1>2, Zenon DEF SumsOf
<1> DEFINE T == { k \in Nat : k <= n /\ w[k] # 0 }
<1>4. SUFFICES ASSUME T # {} PROVE FALSE
  <2>1. n \in T \/ w[n] = 0
    OBVIOUS
  <2>2. QED
    BY <1>3, <1>4, <2>1, Zenon
<1>5. PICK m \in T : \A k \in T : m <= k
  BY <1>4, LeastOf, Zenon
<1>6. m # 0
  BY <1>3, <1>5
<1>7. m \in 1 .. n /\ m - 1 \in Nat /\ m - 1 <= n /\ m - 1 < m
  BY <1>5, <1>6
<1>8. m - 1 \notin T
  BY <1>5, <1>7
<1>9. w[m - 1] = 0 /\ w[m] = w[m - 1] + 0
  BY <1>3, <1>7, <1>8
<1>10. QED
  BY <1>5, <1>9

LEMMA TotalOfEmptyRow ==
  ASSUME NEW t \in Seq(Nat)
  PROVE  Total(Row(t, {})) = 0
<1>1. PICK r \in Seq(Nat) : r = Row(t, {})
  BY RowIsSeq, Zenon
<1>2. \A j \in 1 .. Len(r) : r[j] = 0
  BY <1>1, RowIsSeq DEF Row
<1>3. QED
  BY <1>1, <1>2, TotalOfZeros, Zenon

LEMMA SumIsTotal ==
  ASSUME NEW t \in Seq(Nat), NEW N \in SUBSET (DOMAIN t)
  PROVE  /\ \E it : IsSum(it, t, N)
         /\ \A it : IsSum(it, t, N) => it[N] = Total(Row(t, N))
<1>1. \E it : IsSum(it, t, N)
  <2> DEFINE it == [s \in SUBSET N |-> Total(Row(t, s))]
  <2>1. ASSUME NEW s \in SUBSET N
        PROVE  it[s] = IF s = {} THEN 0
                       ELSE t[CHOOSE x \in s : TRUE] + it[s \ {CHOOSE x \in s : TRUE}]
    <3>1. CASE s = {}
      BY <3>1, TotalOfEmptyRow, Zenon
    <3>2. CASE s # {}
      <4>1. PICK x \in s : x = CHOOSE y \in s : TRUE
        BY <3>2, Zenon
      <4>2. s \in SUBSET (DOMAIN t) /\ s \ {x} \in SUBSET N
        OBVIOUS
      <4>3. Total(Row(t, s)) = t[x] + Total(Row(t, s \ {x}))
        BY <4>2, TotalOfRow, Zenon
      <4>4. it[s] = Total(Row(t, s)) /\ it[s \ {x}] = Total(Row(t, s \ {x}))
        BY <4>2, Zenon
      <4>5. it[s] = t[x] + it[s \ {x}]
        BY <4>3, <4>4, Zenon
      <4>6. QED
        BY <3>2, <4>1, <4>5, Zenon
    <3>3. QED
      BY <3>1, <3>2, Zenon
  <2>2. IsSum(it, t, N)
    BY <2>1, Zenon DEF IsSum
  <2>3. QED
    BY <2>2, Zenon
<1>2. ASSUME NEW it, IsSum(it, t, N) PROVE it[N] = Total(Row(t, N))
  <2> DEFINE W == { s \in SUBSET N : it[s] # Total(Row(t, s)) }
             T == { Cardinality(s) : s \in W }
  <2>1. \A s \in SUBSET N : IsFiniteSet(s)
    <3>1. PICK n \in Nat : n = Len(t)
      OBVIOUS
    <3>2. DOMAIN t = 1 .. n /\ IsFiniteSet(1 .. n)
      BY <3>1, FS_Interval
    <3>3. N \in SUBSET (1 .. n)
      BY <3>2
    <3>4. QED
      BY <3>2, <3>3, FS_Subset
  <2>2. SUFFICES ASSUME W # {} PROVE FALSE
    BY <2>2, Zenon
  <2>3. T \in SUBSET Nat /\ T # {}
    BY <2>1, <2>2, FS_CardinalityType, Zenon
  <2>4. PICK m \in T : \A k \in T : m <= k
    BY <2>3, LeastOf, Zenon
  <2>5. PICK s \in SUBSET N : it[s] # Total(Row(t, s)) /\ m = Cardinality(s)
    BY <2>4, Zenon
  <2>6. s # {}
    BY <1>2, <2>5, TotalOfEmptyRow, Zenon DEF IsSum
  <2>7. PICK x \in s : x = CHOOSE y \in s : TRUE
    BY <2>6, Zenon
  <2>8. it[s] = t[x] + it[s \ {x}]
    BY <1>2, <2>6, <2>7, Zenon DEF IsSum
  <2>9. s \ {x} \in SUBSET N /\ s \in SUBSET (DOMAIN t)
    BY Zenon
  <2>10. Cardinality(s \ {x}) = m - 1 /\ m \in Nat
    BY <2>1, <2>3, <2>4, <2>5, <2>7, FS_RemoveElement, Zenon
  <2>11. Cardinality(s \ {x}) \notin T
    BY <2>4, <2>10
  <2>12. it[s \ {x}] = Total(Row(t, s \ {x}))
    BY <2>9, <2>11, Zenon
  <2>13. Total(Row(t, s)) = t[x] + Total(Row(t, s \ {x}))
    BY <2>7, <2>9, TotalOfRow, Zenon
  <2>14. QED
    BY <2>5, <2>8, <2>12, <2>13, Zenon
<1>3. QED
  BY <1>1, <1>2, Zenon

-----------------------------------------------------------------------------
(* A product of numbers, as the function of the number of factors. *)
IsProduct(f, c, n) ==
  f = [k \in 0 .. n |-> IF k = 0 THEN 1 ELSE c[k] * f[k - 1]]

LEMMA ProductExists ==
  ASSUME NEW c, NEW n \in Nat
  PROVE  \E f : IsProduct(f, c, n)
<1> DEFINE T == { k \in Nat : ~\E f : IsProduct(f, c, k) }
<1>1. SUFFICES ASSUME T # {} PROVE FALSE
  BY Zenon
<1>2. PICK m \in T : \A k \in T : m <= k
  BY <1>1, LeastOf, Zenon
<1>3. CASE m = 0
  <2> DEFINE f == [k \in 0 .. 0 |-> 1]
  <2>1. \A k \in 0 .. 0 : k = 0
    OBVIOUS
  <2>2. f = [k \in 0 .. 0 |-> IF k = 0 THEN 1 ELSE c[k] * f[k - 1]]
    BY <2>1, Zenon
  <2>3. QED
    BY <1>2, <1>3, <2>2, Zenon DEF IsProduct
<1>4. CASE m # 0
  <2>1. m - 1 \in Nat /\ m - 1 < m /\ m \in Nat
    BY <1>4
  <2>2. m - 1 \notin T
    BY <1>2, <2>1
  <2>3. PICK g : IsProduct(g, c, m - 1)
    BY <2>1, <2>2, Zenon
  <2> DEFINE f == [k \in 0 .. m |-> IF k = m THEN c[m] * g[m - 1] ELSE g[k]]
  <2>4. ASSUME NEW k \in 0 .. m
        PROVE  f[k] = IF k = 0 THEN 1 ELSE c[k] * f[k - 1]
    <3>1. CASE k = m
      <4>1. m - 1 \in 0 .. m /\ m - 1 # m
        BY <2>1
      <4>2. f[m - 1] = g[m - 1]
        BY <4>1, Zenon
      <4>3. QED
        BY <1>4, <3>1, <4>2, Zenon
    <3>2. CASE k # m
      <4>1. k \in 0 .. m - 1 /\ (k # 0 => k - 1 \in 0 .. m /\ k - 1 # m)
        BY <2>1, <3>2
      <4>2. g[k] = IF k = 0 THEN 1 ELSE c[k] * g[k - 1]
        BY <2>3, <4>1, Zenon DEF IsProduct
      <4>3. f[k] = g[k] /\ (k # 0 => f[k - 1] = g[k - 1])
        BY <3>2, <4>1, Zenon
      <4>4. QED
        BY <4>2, <4>3, Zenon
    <3>3. QED
      BY <3>1, <3>2, Zenon
  <2>5. IsProduct(f, c, m)
    BY <2>4, Zenon DEF IsProduct
  <2>6. QED
    BY <1>2, <2>5, Zenon
<1>5. QED
  BY <1>3, <1>4, Zenon

LEMMA ProductIsIn ==
  ASSUME NEW c, NEW n \in Nat, NEW f, IsProduct(f, c, n),
         NEW B \in {Nat, Nat \ {0}}, \A k \in 1 .. n : c[k] \in B
  PROVE  f[n] \in B
<1>1. 1 \in B /\ B \in SUBSET Nat /\ \A a, b \in B : a * b \in B
  <2>1. CASE B = Nat
    BY <2>1
  <2>2. CASE B = Nat \ {0}
    BY <2>2
  <2>3. QED
    BY <2>1, <2>2, Zenon
<1> DEFINE T == { k \in Nat : k <= n /\ f[k] \notin B }
<1>2. SUFFICES ASSUME T # {} PROVE FALSE
  <2>1. n \in Nat /\ n <= n
    OBVIOUS
  <2>2. QED
    BY <1>2, <2>1, Zenon
<1>3. PICK m \in T : \A k \in T : m <= k
  BY <1>2, LeastOf, Zenon
<1>4. m \in 0 .. n
  BY <1>3
<1>5. f[m] = IF m = 0 THEN 1 ELSE c[m] * f[m - 1]
  BY <1>4, Zenon DEF IsProduct
<1>6. m # 0
  BY <1>1, <1>3, <1>5, Zenon
<1>7. m - 1 \in Nat /\ m - 1 <= n /\ m - 1 < m /\ m \in 1 .. n
  BY <1>4, <1>6
<1>8. m - 1 \notin T
  BY <1>3, <1>7
<1>9. f[m - 1] \in B /\ c[m] \in B
  BY <1>7, <1>8, Zenon
<1>10. QED
  BY <1>1, <1>3, <1>5, <1>6, <1>9, Zenon

LEMMA ProductIsUnique ==
  ASSUME NEW c, NEW n \in Nat, NEW m \in Nat, NEW f, NEW g, n <= m,
         IsProduct(f, c, n), IsProduct(g, c, m)
  PROVE  f[n] = g[n]
<1> DEFINE T == { k \in Nat : k <= n /\ f[k] # g[k] }
<1>1. SUFFICES ASSUME T # {} PROVE FALSE
  <2>1. n \in Nat /\ n <= n
    OBVIOUS
  <2>2. QED
    BY <1>1, <2>1, Zenon
<1>2. PICK k \in T : \A i \in T : k <= i
  BY <1>1, LeastOf, Zenon
<1>3. k \in 0 .. n /\ k \in 0 .. m
  BY <1>2
<1>4. /\ f[k] = IF k = 0 THEN 1 ELSE c[k] * f[k - 1]
      /\ g[k] = IF k = 0 THEN 1 ELSE c[k] * g[k - 1]
  BY <1>3, Zenon DEF IsProduct
<1>5. k # 0
  BY <1>2, <1>4, Zenon
<1>6. k - 1 \in Nat /\ k - 1 <= n /\ k - 1 < k
  BY <1>3, <1>5
<1>7. k - 1 \notin T
  BY <1>2, <1>6
<1>8. f[k - 1] = g[k - 1]
  BY <1>6, <1>7, Zenon
<1>9. QED
  BY <1>2, <1>4, <1>5, <1>8, Zenon

LEMMA PowerIsNat ==
  ASSUME NEW b \in Nat, NEW n \in Nat
  PROVE  Power(b, n) \in Nat /\ (b # 0 => Power(b, n) # 0)
<1> DEFINE c == [k \in Nat |-> b]
           IsP(p) == p = [k \in 0 .. n |-> IF k = 0 THEN 1 ELSE b * p[k - 1]]
           q == CHOOSE p : IsP(p)
<1>1. \A p : IsP(p) <=> IsProduct(p, c, n)
  <2>1. \A k \in 0 .. n : c[k] = b
    OBVIOUS
  <2>2. ASSUME NEW p
        PROVE  [k \in 0 .. n |-> IF k = 0 THEN 1 ELSE b * p[k - 1]]
                 = [k \in 0 .. n |-> IF k = 0 THEN 1 ELSE c[k] * p[k - 1]]
    BY <2>1, Zenon
  <2>3. QED
    BY <2>2, Zenon DEF IsProduct
<1>2. Power(b, n) = q[n]
  BY Zenon DEF Power
<1>3. IsProduct(q, c, n)
  BY <1>1, ProductExists, Zenon
<1> HIDE DEF q
<1>4. n \in 0 .. n /\ \A k \in 1 .. n : c[k] = b
  OBVIOUS
<1> HIDE DEF c
<1>5. CASE b = 0
  <2>1. \A k \in 1 .. n : c[k] \in Nat
    BY <1>4, Zenon
  <2>2. q[n] \in Nat
    BY <1>3, <2>1, ProductIsIn, Zenon
  <2>3. QED
    BY <1>2, <1>5, <2>2, Zenon
<1>6. CASE b # 0
  <2>1. \A k \in 1 .. n : c[k] \in Nat \ {0}
    BY <1>4, <1>6
  <2>2. q[n] \in Nat \ {0}
    BY <1>3, <2>1, ProductIsIn, Zenon
  <2>3. QED
    BY <1>2, <2>2, Zenon
<1>7. QED
  BY <1>5, <1>6

(* The factorials and binomial coefficients of the library module. *)
LEMMA FactorialIsPositive ==
  ASSUME NEW n \in Nat
  PROVE  factorial[n] \in Nat \ {0}
<1> DEFINE c == [k \in Nat |-> k]
           IsF(f) == f = [k \in Nat |-> IF k = 0 THEN 1 ELSE k * f[k - 1]]
           g == [k \in Nat |-> (CHOOSE f : IsProduct(f, c, k))[k]]
<1>1. ASSUME NEW k \in Nat
      PROVE  IsProduct(CHOOSE f : IsProduct(f, c, k), c, k)
  BY ProductExists, Zenon
<1>2. ASSUME NEW k \in Nat
      PROVE  /\ g[k] = IF k = 0 THEN 1 ELSE k * g[k - 1]
             /\ g[k] \in Nat \ {0}
  <2>1. PICK p : p = CHOOSE f : IsProduct(f, c, k)
    BY Zenon
  <2>2. IsProduct(p, c, k) /\ g[k] = p[k] /\ k \in 0 .. k
    <3>1. k \in 0 .. k
      OBVIOUS
    <3>2. QED
      BY <1>1, <2>1, <3>1, Zenon
  <2>3. p[k] = IF k = 0 THEN 1 ELSE c[k] * p[k - 1]
    BY <2>2, Zenon DEF IsProduct
  <2>4. ASSUME k # 0 PROVE g[k] = k * g[k - 1]
    <3>1. k - 1 \in Nat /\ k - 1 <= k /\ c[k] = k
      BY <2>4
    <3>2. PICK q : q = CHOOSE f : IsProduct(f, c, k - 1)
      BY Zenon
    <3>3. IsProduct(q, c, k - 1) /\ g[k - 1] = q[k - 1]
      BY <1>1, <3>1, <3>2, Zenon
    <3>4. IsProduct(q, c, k - 1) /\ IsProduct(p, c, k)
      BY <2>2, <3>3, Zenon
    <3> HIDE DEF c, g
    <3>5. q[k - 1] = p[k - 1]
      <4>1. PICK i \in Nat : i = k - 1 /\ i <= k
        BY <3>1, Zenon
      <4>2. IsProduct(q, c, i)
        BY <3>4, <4>1, Zenon
      <4>3. q[i] = p[i]
        BY <3>4, <4>1, <4>2, ProductIsUnique
      <4>4. QED
        BY <4>1, <4>3, Zenon
    <3>6. QED
      BY <2>2, <2>3, <2>4, <3>1, <3>3, <3>5, Zenon
  <2>5. g[k] = IF k = 0 THEN 1 ELSE k * g[k - 1]
    BY <2>2, <2>3, <2>4, Zenon
  <2>6. \A i \in 1 .. k : c[i] \in Nat \ {0}
    OBVIOUS
  <2>7. p[k] \in Nat \ {0}
    <3> HIDE DEF c, g
    <3>1. QED
      BY <2>2, <2>6, ProductIsIn, Zenon
  <2>8. QED
    BY <2>2, <2>5, <2>7, Zenon
<1>3. \E f : IsF(f)
  <2>1. g = [k \in Nat |-> g[k]]
    OBVIOUS
  <2> HIDE DEF g
  <2>2. g = [k \in Nat |-> IF k = 0 THEN 1 ELSE k * g[k - 1]]
    BY <1>2, <2>1, Zenon
  <2>3. QED
    BY <2>2, Zenon
<1> HIDE DEF g
<1>4. IsF(factorial)
  BY <1>3, Zenon DEF factorial
<1> DEFINE T == { k \in Nat : factorial[k] \notin Nat \ {0} }
<1>5. SUFFICES ASSUME T # {} PROVE FALSE
  BY Zenon
<1>6. PICK m \in T : \A k \in T : m <= k
  BY <1>5, LeastOf, Zenon
<1>7. factorial[m] = IF m = 0 THEN 1 ELSE m * factorial[m - 1]
  BY <1>4, <1>6, Zenon
<1>8. m # 0
  BY <1>6, <1>7
<1>9. m \in Nat \ {0} /\ m - 1 \in Nat /\ m - 1 < m
  BY <1>6, <1>8
<1>10. m - 1 \notin T
  BY <1>6, <1>9
<1>11. PICK a \in Nat \ {0} : a = factorial[m - 1]
  BY <1>9, <1>10, Zenon
<1>12. factorial[m] = m * a
  BY <1>7, <1>8, <1>11, Zenon
<1>13. m * a \in Nat \ {0}
  BY <1>9, <1>11
<1>14. QED
  BY <1>6, <1>12, <1>13, Zenon

LEMMA ChooseIsNat ==
  ASSUME NEW n \in Nat, NEW k \in 0 .. n
  PROVE  choose(n, k) \in Nat
<1>1. n - k \in Nat /\ k \in Nat
  OBVIOUS
<1>2. PICK a \in Nat, b \in Nat \ {0}, c \in Nat \ {0} :
        a = factorial[n] /\ b = factorial[k] /\ c = factorial[n - k]
  <2>1. factorial[n] \in Nat
    BY FactorialIsPositive
  <2>2. QED
    BY <1>1, <2>1, FactorialIsPositive, Zenon
<1>3. PICK d \in Nat \ {0} : d = b * c
  <2>1. b * c \in Nat \ {0}
    OBVIOUS
  <2>2. QED
    BY <2>1, Zenon
<1>4. a \div d \in Nat
  BY Z3
<1>5. choose(n, k) = a \div d
  BY <1>2, <1>3, Zenon DEF choose
<1>6. QED
  BY <1>4, <1>5, Zenon

-----------------------------------------------------------------------------
(* The terms of a binomial tail, as a row, and the tail as their sum. *)
Term(n, h, j) == choose(n, j) * Power(Power(2, h) - 1, n - j)

Terms(n, h) == [j \in 1 .. n |-> Term(n, h, j)]

LEMMA TermsAreNat ==
  ASSUME NEW n \in Nat, NEW h \in Nat
  PROVE  Terms(n, h) \in Seq(Nat) /\ DOMAIN Terms(n, h) = 1 .. n
         /\ \A j \in 1 .. n : Terms(n, h)[j] = Term(n, h, j)
<1>1. PICK b \in Nat : b = Power(2, h) - 1
  <2>1. Power(2, h) \in Nat /\ Power(2, h) # 0
    <3>1. 2 \in Nat /\ 2 # 0
      OBVIOUS
    <3>2. QED
      BY <3>1, PowerIsNat, Zenon
  <2>2. PICK c \in Nat : c = Power(2, h) /\ c # 0
    BY <2>1, Zenon
  <2>3. c - 1 \in Nat
    BY <2>2
  <2>4. QED
    BY <2>2, <2>3, Zenon
<1>2. ASSUME NEW j \in 1 .. n PROVE Term(n, h, j) \in Nat
  <2>1. j \in 0 .. n /\ n - j \in Nat
    OBVIOUS
  <2>2. PICK x \in Nat, y \in Nat : x = choose(n, j) /\ y = Power(b, n - j)
    BY <2>1, ChooseIsNat, PowerIsNat, Zenon
  <2>3. x * y \in Nat
    OBVIOUS
  <2>4. QED
    BY <1>1, <2>2, <2>3, Zenon DEF Term
<1>3. PICK t : t = Terms(n, h)
  BY Zenon
<1>4. t \in [1 .. n -> Nat]
  BY <1>2, <1>3 DEF Terms
<1>5. t \in Seq(Nat) /\ DOMAIN t = 1 .. n
  BY <1>4
<1>6. QED
  BY <1>3, <1>5, Zenon DEF Terms

IsTail(it, n, h, N) ==
  it = [s \in SUBSET N |->
          IF s = {} THEN 0
          ELSE Term(n, h, CHOOSE x \in s : TRUE) + it[s \ {CHOOSE x \in s : TRUE}]]

LEMMA TailIsTotal ==
  ASSUME NEW n \in Nat, NEW h \in Nat, NEW k \in 1 .. n + 1
  PROVE  UpperTail(n, h, k) = Total(Row(Terms(n, h), k .. n))
<1> DEFINE N == k .. n
           it == CHOOSE it : IsTail(it, n, h, N)
<1>1. UpperTail(n, h, k) = it[N]
  BY Zenon DEF UpperTail, MapThenSumSet, MapThenFoldSet, IsTail, Term
<1>2. PICK t \in Seq(Nat) : t = Terms(n, h) /\ DOMAIN t = 1 .. n
                            /\ \A j \in 1 .. n : t[j] = Term(n, h, j)
  BY TermsAreNat, Zenon
<1>3. N \in SUBSET (1 .. n)
  OBVIOUS
<1> HIDE DEF N
<1>4. ASSUME NEW f PROVE IsTail(f, n, h, N) <=> IsSum(f, t, N)
  <2>1. ASSUME NEW s \in SUBSET N, s # {}
        PROVE  t[CHOOSE x \in s : TRUE] = Term(n, h, CHOOSE x \in s : TRUE)
    <3>1. (CHOOSE x \in s : TRUE) \in s
      BY <2>1, Zenon
    <3>2. QED
      BY <1>2, <1>3, <3>1, Zenon
  <2>2. ASSUME NEW s \in SUBSET N
        PROVE  (IF s = {} THEN 0
                ELSE Term(n, h, CHOOSE x \in s : TRUE) + f[s \ {CHOOSE x \in s : TRUE}])
               = (IF s = {} THEN 0
                  ELSE t[CHOOSE x \in s : TRUE] + f[s \ {CHOOSE x \in s : TRUE}])
    <3>1. CASE s = {}
      BY <3>1, Zenon
    <3>2. CASE s # {}
      <4>1. PICK x : x = CHOOSE y \in s : TRUE
        BY Zenon
      <4>2. t[x] = Term(n, h, x)
        BY <2>1, <3>2, <4>1, Zenon
      <4>3. Term(n, h, x) + f[s \ {x}] = t[x] + f[s \ {x}]
        BY <4>2, Zenon
      <4>5. QED
        BY <3>2, <4>1, <4>3, Zenon
    <3>3. QED
      BY <3>1, <3>2, Zenon
  <2>3. QED
    BY <2>2, Zenon DEF IsTail, IsSum
<1>5. IsSum(it, t, N)
  <2>1. \E f : IsSum(f, t, N)
    BY <1>2, <1>3, SumIsTotal, Zenon
  <2>2. QED
    BY <1>4, <2>1, Zenon
<1> HIDE DEF it
<1>6. it[N] = Total(Row(t, N))
  BY <1>2, <1>3, <1>5, SumIsTotal, Zenon
<1>7. QED
  BY <1>1, <1>2, <1>6, Zenon DEF N

LEMMA TailFalls ==
  ASSUME NEW n \in Nat, NEW h \in Nat, NEW k \in 1 .. n + 1, NEW l \in k .. n + 1
  PROVE  /\ UpperTail(n, h, k) \in Nat /\ UpperTail(n, h, l) \in Nat
         /\ UpperTail(n, h, l) <= UpperTail(n, h, k)
<1>1. l \in 1 .. n + 1 /\ l .. n \subseteq k .. n
  OBVIOUS
<1>2. PICK t \in Seq(Nat) : t = Terms(n, h) /\ DOMAIN t = 1 .. n
  BY TermsAreNat, Zenon
<1>3. PICK g \in Seq(Nat), f \in Seq(Nat) :
        /\ g = Row(t, l .. n) /\ f = Row(t, k .. n)
        /\ Len(g) = Len(t) /\ Len(f) = Len(t)
  BY RowIsSeq, Zenon
<1>4. Len(t) = n /\ \A i \in 1 .. n : t[i] \in Nat
  BY <1>2
<1>5. \A i \in 1 .. Len(f) : g[i] <= f[i]
  <2>1. ASSUME NEW i \in 1 .. n PROVE g[i] <= f[i]
    <3>1. /\ g[i] = (IF i \in l .. n THEN t[i] ELSE 0)
          /\ f[i] = (IF i \in k .. n THEN t[i] ELSE 0)
      BY <1>2, <1>3, Zenon DEF Row
    <3>2. QED
      BY <1>1, <1>4, <3>1
  <2>2. QED
    BY <1>3, <1>4, <2>1, Zenon
<1>6. Total(g) <= Total(f) /\ Total(g) \in Nat /\ Total(f) \in Nat
  BY <1>3, <1>5, TotalRises, TotalOfAppend, Zenon
<1>7. UpperTail(n, h, k) = Total(f)
  BY <1>2, <1>3, TailIsTotal, Zenon
<1>8. UpperTail(n, h, l) = Total(g)
  BY <1>1, <1>2, <1>3, TailIsTotal, Zenon
<1>9. QED
  BY <1>6, <1>7, <1>8, Zenon

LEMMA NoTail ==
  ASSUME NEW n \in Nat, NEW h \in Nat
  PROVE  UpperTail(n, h, n + 1) = 0
<1>1. n + 1 \in 1 .. n + 1 /\ n + 1 .. n = {}
  OBVIOUS
<1>2. PICK t \in Seq(Nat) : t = Terms(n, h)
  BY TermsAreNat, Zenon
<1>3. Total(Row(t, {})) = 0
  BY TotalOfEmptyRow, Zenon
<1>4. UpperTail(n, h, n + 1) = Total(Row(t, n + 1 .. n))
  BY <1>1, <1>2, TailIsTotal, Zenon
<1>5. QED
  BY <1>1, <1>3, <1>4, Zenon

(* The search for the cutoff, downwards from k as long as cond is false. *)
IsSearch(f, cond, n) ==
  f = [k \in 0 .. n |-> IF k \in cond \/ k = 0 THEN k ELSE f[k - 1]]

LEMMA SearchExists ==
  ASSUME NEW cond, NEW n \in Nat
  PROVE  \E f : IsSearch(f, cond, n)
<1> DEFINE T == { k \in Nat : ~\E f : IsSearch(f, cond, k) }
<1>1. SUFFICES ASSUME T # {} PROVE FALSE
  BY Zenon
<1>2. PICK m \in T : \A k \in T : m <= k
  BY <1>1, LeastOf, Zenon
<1>3. CASE m = 0
  <2> DEFINE f == [k \in 0 .. 0 |-> k]
  <2>1. \A k \in 0 .. 0 : k = 0
    OBVIOUS
  <2>2. f = [k \in 0 .. 0 |-> IF k \in cond \/ k = 0 THEN k ELSE f[k - 1]]
    BY <2>1, Zenon
  <2>3. QED
    BY <1>2, <1>3, <2>2, Zenon DEF IsSearch
<1>4. CASE m # 0
  <2>1. m - 1 \in Nat /\ m - 1 < m /\ m \in Nat
    BY <1>4
  <2>2. m - 1 \notin T
    BY <1>2, <2>1
  <2>3. PICK g : IsSearch(g, cond, m - 1)
    BY <2>1, <2>2, Zenon
  <2> DEFINE f == [k \in 0 .. m |-> IF k = m THEN IF m \in cond THEN m ELSE g[m - 1]
                                    ELSE g[k]]
  <2>4. ASSUME NEW k \in 0 .. m
        PROVE  f[k] = IF k \in cond \/ k = 0 THEN k ELSE f[k - 1]
    <3>1. CASE k = m
      <4>1. m - 1 \in 0 .. m /\ m - 1 # m
        BY <2>1
      <4>2. f[m - 1] = g[m - 1]
        BY <4>1, Zenon
      <4>3. QED
        BY <1>4, <3>1, <4>2, Zenon
    <3>2. CASE k # m
      <4>1. k \in 0 .. m - 1 /\ (k # 0 => k - 1 \in 0 .. m /\ k - 1 # m)
        BY <2>1, <3>2
      <4>2. g[k] = IF k \in cond \/ k = 0 THEN k ELSE g[k - 1]
        BY <2>3, <4>1, Zenon DEF IsSearch
      <4>3. f[k] = g[k] /\ (k # 0 => f[k - 1] = g[k - 1])
        BY <3>2, <4>1, Zenon
      <4>4. QED
        BY <4>2, <4>3, Zenon
    <3>3. QED
      BY <3>1, <3>2, Zenon
  <2>5. IsSearch(f, cond, m)
    BY <2>4, Zenon DEF IsSearch
  <2>6. QED
    BY <1>2, <2>5, Zenon
<1>5. QED
  BY <1>3, <1>4, Zenon

LEMMA SearchStops ==
  ASSUME NEW cond, NEW n \in Nat, NEW f, IsSearch(f, cond, n)
  PROVE  /\ f[n] \in 0 .. n /\ (f[n] \in cond \/ f[n] = 0)
         /\ \A j \in f[n] + 1 .. n : j \notin cond
<1> DEFINE P(k) == /\ f[k] \in 0 .. k /\ (f[k] \in cond \/ f[k] = 0)
                   /\ \A j \in f[k] + 1 .. k : j \notin cond
           T == { k \in Nat : k <= n /\ ~P(k) }
<1>1. SUFFICES ASSUME T # {} PROVE FALSE
  <2>1. n \in Nat /\ n <= n
    OBVIOUS
  <2>2. QED
    BY <1>1, <2>1, Zenon
<1>2. PICK m \in T : \A k \in T : m <= k
  BY <1>1, LeastOf, Zenon
<1>3. m \in 0 .. n
  BY <1>2
<1>4. f[m] = IF m \in cond \/ m = 0 THEN m ELSE f[m - 1]
  BY <1>3, Zenon DEF IsSearch
<1>5. ~(m \in cond \/ m = 0)
  <2>1. SUFFICES ASSUME m \in cond \/ m = 0 PROVE P(m)
    BY <1>2, Zenon
  <2>2. f[m] = m
    BY <1>4, <2>1, Zenon
  <2>3. QED
    BY <1>3, <2>1, <2>2
<1>6. m - 1 \in Nat /\ m - 1 <= n /\ m - 1 < m
  BY <1>3, <1>5
<1>7. m - 1 \notin T
  BY <1>2, <1>6
<1>8. P(m - 1)
  BY <1>6, <1>7, Zenon
<1>9. f[m] = f[m - 1]
  BY <1>4, <1>5, Zenon
<1>10. P(m)
  BY <1>3, <1>5, <1>6, <1>8, <1>9
<1>11. QED
  BY <1>2, <1>10, Zenon

(* crit_binom finds the exact quantile. *)
LEMMA CritBinomIsQuantile ==
  ASSUME NEW n \in Nat, NEW h \in Nat, NEW a \in Nat
  PROVE  LET c == CritBinom(n, h, a)
             Rare(k) == UpperTail(n, h, k) * Power(2, a) <= Power(2, h * n)
         IN  /\ c \in 0 .. n /\ Rare(c + 1)
             /\ \A k \in 1 .. c : ~Rare(k)
<1> DEFINE cond == { k \in 0 .. n : UpperTail(n, h, k) * Power(2, a) > Power(2, h * n) }
           IsS(f) ==
             f = [k \in 0 .. n |->
                   IF UpperTail(n, h, k) * Power(2, a) > Power(2, h * n) \/ k = 0
                   THEN k ELSE f[k - 1]]
           f == CHOOSE g : IsS(g)
<1>1. CritBinom(n, h, a) = f[n]
  BY Zenon DEF CritBinom
<1>2. ASSUME NEW g PROVE IsS(g) <=> IsSearch(g, cond, n)
  <2>1. \A k \in 0 .. n :
          k \in cond <=> UpperTail(n, h, k) * Power(2, a) > Power(2, h * n)
    BY Zenon
  <2> HIDE DEF cond
  <2>2. QED
    BY <2>1, Zenon DEF IsSearch
<1>3. IsSearch(f, cond, n)
  <2> HIDE DEF cond
  <2>1. \E g : IsSearch(g, cond, n)
    BY SearchExists, Zenon
  <2>2. QED
    BY <1>2, <2>1, Zenon
<1> HIDE DEF f, IsS
<1>4. /\ f[n] \in 0 .. n /\ (f[n] \in cond \/ f[n] = 0)
      /\ \A j \in f[n] + 1 .. n : j \notin cond
  <2> HIDE DEF cond
  <2>1. QED
    BY <1>3, SearchStops, Zenon
<1>5. PICK c \in 0 .. n : c = f[n]
  BY <1>4, Zenon
<1>6. PICK p \in Nat, q \in Nat : p = Power(2, a) /\ q = Power(2, h * n)
  <2>1. h * n \in Nat /\ 2 \in Nat
    OBVIOUS
  <2>2. QED
    BY <2>1, PowerIsNat, Zenon
<1>7. \A k \in 1 .. n + 1 : UpperTail(n, h, k) \in Nat
  <2>1. \A k \in 1 .. n + 1 : k \in k .. n + 1
    OBVIOUS
  <2>2. QED
    BY <2>1, TailFalls, Zenon
<1>8. UpperTail(n, h, c + 1) * p <= q
  <2>1. CASE c = n
    <3>1. UpperTail(n, h, c + 1) = 0
      BY <2>1, NoTail, Zenon
    <3>2. 0 * p <= q
      OBVIOUS
    <3>3. QED
      BY <3>1, <3>2, Zenon
  <2>2. CASE c # n
    <3>1. c + 1 \in c + 1 .. n /\ c + 1 \in 0 .. n /\ c + 1 \in 1 .. n + 1
      BY <2>2
    <3>2. ~(UpperTail(n, h, c + 1) * p > q)
      BY <1>4, <1>5, <1>6, <3>1, Zenon
    <3>3. PICK u \in Nat : u = UpperTail(n, h, c + 1)
      BY <1>7, <3>1, Zenon
    <3>4. ~(u * p > q) => u * p <= q
      OBVIOUS
    <3>5. QED
      BY <3>2, <3>3, <3>4, Zenon
  <2>3. QED
    BY <2>1, <2>2, Zenon
<1>9. ASSUME NEW k \in 1 .. c, UpperTail(n, h, k) * p <= q PROVE FALSE
  <2>1. c # 0 /\ k \in 1 .. n + 1 /\ c \in k .. n + 1
    BY <1>9
  <2>2. UpperTail(n, h, c) * p > q
    BY <1>4, <1>5, <1>6, <2>1, Zenon
  <2>3. PICK u \in Nat, v \in Nat : u = UpperTail(n, h, c) /\ v = UpperTail(n, h, k) /\ u <= v
    BY <2>1, TailFalls, Zenon
  <2>4. u * p <= v * p
    BY <2>3
  <2>5. u * p > q /\ v * p <= q
    BY <1>9, <2>2, <2>3, Zenon
  <2>6. PICK x \in Nat, y \in Nat : x = u * p /\ y = v * p
    BY <2>3
  <2>7. x > q /\ y <= q /\ x <= y
    BY <2>4, <2>5, <2>6, Zenon
  <2>8. QED
    BY <2>7
<1>10. QED
  BY <1>1, <1>5, <1>6, <1>8, <1>9, Zenon

-----------------------------------------------------------------------------
(* The longest run: what the fold of entropy_stats_rct is after every sample. *)
RunStep(s, r, i) ==
  IF s[i] = s[i - 1]
  THEN [run |-> r.run + 1, max |-> IF r.run + 1 > r.max THEN r.run + 1 ELSE r.max]
  ELSE [r EXCEPT !.run = 1]

NoRun == [run |-> 1, max |-> 1]

Places(s) == [i \in 1 .. Len(s) - 1 |-> i + 1]

IsRunFold(it, s, q, N) ==
  it = [S \in SUBSET N |-> IF S = {} THEN NoRun
                           ELSE RunStep(s, it[S \ {Max(S)}], q[Max(S)])]

LEMMA RunFoldExists ==
  ASSUME NEW s, NEW q, NEW n \in Nat
  PROVE  \E it : IsRunFold(it, s, q, 1 .. n)
<1> DEFINE T == { k \in Nat : ~\E it : IsRunFold(it, s, q, 1 .. k) }
<1>1. SUFFICES ASSUME T # {} PROVE FALSE
  BY Zenon
<1>2. PICK m \in T : \A k \in T : m <= k
  BY <1>1, LeastOf, Zenon
<1>3. CASE m = 0
  <2> DEFINE it == [S \in SUBSET {} |-> NoRun]
  <2>1. 1 .. 0 = {} /\ \A S \in SUBSET {} : S = {}
    OBVIOUS
  <2>2. it = [S \in SUBSET {} |-> IF S = {} THEN NoRun
                                  ELSE RunStep(s, it[S \ {Max(S)}], q[Max(S)])]
    BY <2>1, Zenon
  <2>3. IsRunFold(it, s, q, 1 .. m)
    BY <1>3, <2>1, <2>2, Zenon DEF IsRunFold
  <2>4. QED
    BY <1>2, <2>3, Zenon
<1>4. CASE m # 0
  <2>1. m - 1 \in Nat /\ m - 1 < m /\ m \in Nat
    BY <1>4
  <2>2. m - 1 \notin T
    BY <1>2, <2>1
  <2>3. PICK it : IsRunFold(it, s, q, 1 .. m - 1)
    BY <2>1, <2>2, Zenon
  <2> DEFINE f == [S \in SUBSET (1 .. m) |->
                     IF m \in S THEN RunStep(s, it[S \ {m}], q[m]) ELSE it[S]]
  <2>4. ASSUME NEW S \in SUBSET (1 .. m)
        PROVE  f[S] = IF S = {} THEN NoRun
                      ELSE RunStep(s, f[S \ {Max(S)}], q[Max(S)])
    <3>1. S \ {Max(S)} \in SUBSET (1 .. m)
      OBVIOUS
    <3>2. CASE m \in S
      <4>1. Max(S) = m
        BY <2>1, <3>2, MaxIs
      <4>2. f[S] = RunStep(s, it[S \ {m}], q[m]) /\ f[S \ {m}] = it[S \ {m}]
        BY <3>1, <3>2, <4>1, Zenon
      <4>3. QED
        BY <3>2, <4>1, <4>2, Zenon
    <3>3. CASE m \notin S
      <4>1. S \in SUBSET (1 .. m - 1)
        BY <2>1, <3>3
      <4>2. it[S] = IF S = {} THEN NoRun ELSE RunStep(s, it[S \ {Max(S)}], q[Max(S)])
        BY <2>3, <4>1, Zenon DEF IsRunFold
      <4>3. f[S] = it[S] /\ f[S \ {Max(S)}] = it[S \ {Max(S)}]
        BY <3>1, <3>3, Zenon
      <4>4. QED
        BY <4>2, <4>3, Zenon
    <3>4. QED
      BY <3>2, <3>3, Zenon
  <2>5. IsRunFold(f, s, q, 1 .. m)
    BY <2>4, Zenon DEF IsRunFold
  <2>6. QED
    BY <1>2, <2>5, Zenon
<1>5. QED
  BY <1>3, <1>4, Zenon

RunsOf(s, R) ==
  /\ R[1] = NoRun
  /\ \A j \in 2 .. Len(s) : R[j] = RunStep(s, R[j - 1], j)
  /\ LongestRun(s) = R[Len(s)].max

LEMMA RunsAreFolded ==
  ASSUME NEW V, NEW s \in Seq(V), s # << >>
  PROVE  \E R : RunsOf(s, R)
<1>1. PICK n \in Nat : n + 1 = Len(s)
  <2>1. Len(s) \in Nat /\ Len(s) # 0
    OBVIOUS
  <2>2. Len(s) - 1 \in Nat /\ (Len(s) - 1) + 1 = Len(s)
    BY <2>1
  <2>3. QED
    BY <2>2, Zenon
<1>2. DOMAIN Places(s) = 1 .. n /\ \A i \in 1 .. n : Places(s)[i] = i + 1
  <2>1. Len(s) - 1 = n
    BY <1>1
  <2>2. QED
    BY <2>1, Zenon DEF Places
<1> DEFINE it == CHOOSE it : IsRunFold(it, s, Places(s), DOMAIN Places(s))
<1>3. LongestRun(s) = it[DOMAIN Places(s)].max
  BY Zenon DEF LongestRun, FoldLeft, MapThenFoldSet, IsRunFold, RunStep, NoRun, Places
<1>4. IsRunFold(it, s, Places(s), 1 .. n)
  <2>1. \E f : IsRunFold(f, s, Places(s), 1 .. n)
    BY RunFoldExists, Zenon
  <2>2. QED
    BY <1>2, <2>1, Zenon
<1> HIDE DEF it
<1> DEFINE R == [j \in 1 .. n + 1 |-> it[1 .. j - 1]]
<1>5. R[1] = NoRun
  <2>1. 1 .. 1 - 1 = {} /\ 1 \in 1 .. n + 1 /\ {} \in SUBSET (1 .. n)
    OBVIOUS
  <2>2. it[{}] = NoRun
    BY <1>4, <2>1, Zenon DEF IsRunFold
  <2>3. QED
    BY <2>1, <2>2, Zenon
<1>6. ASSUME NEW j \in 2 .. n + 1 PROVE R[j] = RunStep(s, R[j - 1], j)
  <2>1. PICK k \in 1 .. n : k = j - 1 /\ k + 1 = j
    OBVIOUS
  <2>2. /\ 1 .. k \in SUBSET (1 .. n) /\ 1 .. k # {}
        /\ k \in 1 .. n + 1 /\ j \in 1 .. n + 1
        /\ 1 .. k \in SUBSET Nat /\ k \in 1 .. k /\ \A y \in 1 .. k : k >= y
    <3>1. k \in 1 .. k /\ 1 .. k \in SUBSET Nat /\ \A y \in 1 .. k : k >= y
      OBVIOUS
    <3>2. k \in 1 .. n + 1 /\ j \in 1 .. n + 1 /\ 1 .. k \in SUBSET (1 .. n)
      BY <2>1
    <3>3. QED
      BY <3>1, <3>2, Zenon
  <2>3. (1 .. k) \ {k} = 1 .. k - 1
    OBVIOUS
  <2>4. Max(1 .. k) = k
    BY <2>2, MaxIs, Zenon
  <2>5. it[1 .. k] = RunStep(s, it[(1 .. k) \ {k}], Places(s)[k])
    BY <1>4, <2>2, <2>4, Zenon DEF IsRunFold
  <2>6. it[1 .. k] = RunStep(s, it[1 .. k - 1], j)
    BY <1>2, <2>1, <2>3, <2>5, Zenon
  <2>7. R[j] = it[1 .. k] /\ R[k] = it[1 .. k - 1]
    BY <2>1, <2>2, Zenon
  <2>8. QED
    BY <2>1, <2>6, <2>7, Zenon
<1>7. LongestRun(s) = R[n + 1].max
  <2>1. n + 1 \in 1 .. n + 1 /\ (n + 1) - 1 = n
    OBVIOUS
  <2>2. QED
    BY <1>2, <1>3, <2>1, Zenon
<1> HIDE DEF R
<1>8. QED
  BY <1>1, <1>5, <1>6, <1>7, Zenon DEF RunsOf

(* The c samples from place i on are equal. *)
HasRun(s, i, c) == \A d \in 0 .. c - 1 : s[i + d] = s[i]

(* After j samples: the run that is going on, which started after another
   value, and the longest one so far. *)
RunsUpTo(s, run, max, j) ==
  /\ run \in 1 .. j /\ max \in run .. j
  /\ HasRun(s, j - run + 1, run)
  /\ run = j \/ s[j - run] # s[j]
  /\ \E i \in 1 .. j - max + 1 : HasRun(s, i, max)
  /\ \A i \in 1 .. j : \A c \in 1 .. j - i + 1 : HasRun(s, i, c) => c <= max

LEMMA EqualSampleGoesOn ==
  ASSUME NEW s, NEW j \in Nat \ {0}, NEW run \in Nat, NEW max \in Nat,
         RunsUpTo(s, run, max, j), s[j + 1] = s[j]
  PROVE  RunsUpTo(s, run + 1, IF run + 1 > max THEN run + 1 ELSE max, j + 1)
<1> DEFINE m == IF run + 1 > max THEN run + 1 ELSE max
<1>1. run \in 1 .. j /\ max \in run .. j
  BY DEF RunsUpTo
<1>2. m \in Nat /\ m >= run + 1 /\ m >= max /\ (m = max \/ m = run + 1)
      /\ run + 1 \in 1 .. j + 1 /\ m \in run + 1 .. j + 1
  BY <1>1
<1>3. PICK i0 \in 1 .. j : i0 = j - run + 1
  BY <1>1
<1>4. HasRun(s, i0, run + 1)
  <2>1. ASSUME NEW d \in 0 .. run PROVE s[i0 + d] = s[i0]
    <3>1. \A e \in 0 .. run - 1 : s[i0 + e] = s[i0]
      BY <1>3, Zenon DEF HasRun, RunsUpTo
    <3>2. CASE d = run
      <4>1. run - 1 \in 0 .. run - 1 /\ i0 + (run - 1) = j /\ i0 + d = j + 1
        BY <1>1, <1>3, <3>2
      <4>2. QED
        BY <3>1, <4>1, Zenon
    <3>3. CASE d # run
      BY <1>1, <3>1, <3>3
    <3>4. QED
      BY <3>2, <3>3, Zenon
  <2>2. (run + 1) - 1 = run
    OBVIOUS
  <2>3. QED
    BY <2>1, <2>2, Zenon DEF HasRun
<1>5. run + 1 = j + 1 \/ s[(j + 1) - (run + 1)] # s[j + 1]
  <2>1. (j + 1) - (run + 1) = j - run /\ (run = j => run + 1 = j + 1)
    OBVIOUS
  <2>2. run = j \/ s[j - run] # s[j]
    BY Zenon DEF RunsUpTo
  <2>3. QED
    BY <2>1, <2>2, Zenon
<1>6. \E i \in 1 .. (j + 1) - m + 1 : HasRun(s, i, m)
  <2>1. CASE m = max
    <3>1. PICK i \in 1 .. j - max + 1 : HasRun(s, i, max)
      BY Zenon DEF RunsUpTo
    <3>2. i \in 1 .. (j + 1) - m + 1
      BY <1>1, <2>1
    <3>3. QED
      BY <2>1, <3>1, <3>2, Zenon
  <2>2. CASE m = run + 1
    <3>1. i0 \in 1 .. (j + 1) - m + 1
      BY <1>1, <1>3, <2>2
    <3>2. QED
      BY <1>4, <2>2, <3>1, Zenon
  <2>3. QED
    BY <1>2, <2>1, <2>2, Zenon
<1>7. ASSUME NEW i \in 1 .. j + 1, NEW c \in 1 .. (j + 1) - i + 1, HasRun(s, i, c)
      PROVE  c <= m
  <2>1. CASE i + c - 1 <= j
    <3>1. i \in 1 .. j /\ c \in 1 .. j - i + 1
      BY <2>1
    <3>2. c <= max
      BY <1>7, <3>1, Zenon DEF RunsUpTo
    <3>3. QED
      BY <1>2, <3>2
  <2>2. CASE ~(i + c - 1 <= j)
    <3>1. i + c - 1 = j + 1
      BY <2>2
    <3>2. CASE c <= run + 1
      BY <1>2, <3>2
    <3>3. CASE ~(c <= run + 1)
      <4>1. PICK d \in 0 .. c - 1, e \in 0 .. c - 1 : i + d = j - run /\ i + e = j
        <5>1. (j - run) - i \in 0 .. c - 1 /\ j - i \in 0 .. c - 1
          BY <1>1, <3>1, <3>3
        <5>2. i + ((j - run) - i) = j - run /\ i + (j - i) = j
          BY <1>1
        <5>3. QED
          BY <5>1, <5>2, Zenon
      <4>2. s[j - run] = s[i] /\ s[j] = s[i]
        BY <1>7, <4>1, Zenon DEF HasRun
      <4>3. run # j
        BY <1>1, <3>1, <3>3
      <4>4. QED
        BY <4>2, <4>3, Zenon DEF RunsUpTo
    <3>4. QED
      BY <3>2, <3>3, Zenon
  <2>3. QED
    BY <2>1, <2>2, Zenon
<1> HIDE DEF m
<1>8. i0 = (j + 1) - (run + 1) + 1
  BY <1>3
<1>9. RunsUpTo(s, run + 1, m, j + 1)
  BY <1>2, <1>4, <1>5, <1>6, <1>7, <1>8, Zenon DEF RunsUpTo
<1>10. QED
  BY <1>9, Zenon DEF m

LEMMA OtherSampleStartsOver ==
  ASSUME NEW s, NEW j \in Nat \ {0}, NEW run \in Nat, NEW max \in Nat,
         RunsUpTo(s, run, max, j), s[j + 1] # s[j]
  PROVE  RunsUpTo(s, 1, max, j + 1)
<1>1. run \in 1 .. j /\ max \in run .. j
  BY DEF RunsUpTo
<1>2. 1 \in 1 .. j + 1 /\ max \in 1 .. j + 1
  BY <1>1
<1>3. HasRun(s, (j + 1) - 1 + 1, 1)
  <2>1. \A d \in 0 .. 1 - 1 : ((j + 1) - 1 + 1) + d = (j + 1) - 1 + 1
    OBVIOUS
  <2>2. QED
    BY <2>1, Zenon DEF HasRun
<1>4. s[(j + 1) - 1] # s[j + 1]
  <2>1. (j + 1) - 1 = j
    OBVIOUS
  <2>2. QED
    BY <2>1, Zenon
<1>5. \E i \in 1 .. (j + 1) - max + 1 : HasRun(s, i, max)
  <2>1. PICK i \in 1 .. j - max + 1 : HasRun(s, i, max)
    BY Zenon DEF RunsUpTo
  <2>2. i \in 1 .. (j + 1) - max + 1
    BY <1>1
  <2>3. QED
    BY <2>1, <2>2, Zenon
<1>6. ASSUME NEW i \in 1 .. j + 1, NEW c \in 1 .. (j + 1) - i + 1, HasRun(s, i, c)
      PROVE  c <= max
  <2>1. CASE i + c - 1 <= j
    <3>1. i \in 1 .. j /\ c \in 1 .. j - i + 1
      BY <2>1
    <3>2. QED
      BY <1>6, <3>1, Zenon DEF RunsUpTo
  <2>2. CASE ~(i + c - 1 <= j)
    <3>1. i + c - 1 = j + 1
      BY <2>2
    <3>2. CASE c = 1
      BY <1>1, <3>2
    <3>3. CASE c # 1
      <4>1. PICK d \in 0 .. c - 1, e \in 0 .. c - 1 : i + d = j /\ i + e = j + 1
        <5>1. j - i \in 0 .. c - 1 /\ (j + 1) - i \in 0 .. c - 1
          BY <3>1, <3>3
        <5>2. i + (j - i) = j /\ i + ((j + 1) - i) = j + 1
          OBVIOUS
        <5>3. QED
          BY <5>1, <5>2, Zenon
      <4>2. s[j] = s[i] /\ s[j + 1] = s[i]
        BY <1>6, <4>1, Zenon DEF HasRun
      <4>3. QED
        BY <4>2, Zenon
    <3>4. QED
      BY <3>2, <3>3, Zenon
  <2>3. QED
    BY <2>1, <2>2, Zenon
<1>7. QED
  BY <1>2, <1>3, <1>4, <1>5, <1>6, Zenon DEF RunsUpTo

LEMMA LongestRunIsLongest ==
  ASSUME NEW V, NEW s \in Seq(V), s # << >>
  PROVE  /\ LongestRun(s) \in 1 .. Len(s)
         /\ \E i \in 1 .. Len(s) - LongestRun(s) + 1 : HasRun(s, i, LongestRun(s))
         /\ \A i \in 1 .. Len(s) : \A c \in 1 .. Len(s) - i + 1 :
               HasRun(s, i, c) => c <= LongestRun(s)
<1>1. PICK R : RunsOf(s, R)
  BY RunsAreFolded
<1>2. PICK n \in Nat \ {0} : n = Len(s)
  OBVIOUS
<1> DEFINE P(j) == \E run \in Nat, max \in Nat :
                     /\ R[j] = [run |-> run, max |-> max]
                     /\ RunsUpTo(s, run, max, j)
           T == { j \in Nat : j \in 1 .. n /\ ~P(j) }
<1>3. P(1)
  <2>1. RunsUpTo(s, 1, 1, 1)
    <3>1. 1 \in 1 .. 1 /\ 1 - 1 + 1 = 1 /\ 1 .. 1 = {1} /\ 0 .. 1 - 1 = {0} /\ 1 + 0 = 1
      OBVIOUS
    <3>2. HasRun(s, 1, 1)
      BY <3>1, Zenon DEF HasRun
    <3>3. \A c \in 1 .. 1 : c <= 1
      OBVIOUS
    <3>4. \A i \in 1 .. 1 : 1 - i + 1 = 1
      OBVIOUS
    <3>5. QED
      BY <3>1, <3>2, <3>3, <3>4, Zenon DEF RunsUpTo
  <2>2. R[1] = [run |-> 1, max |-> 1] /\ 1 \in Nat
    BY <1>1, Zenon DEF RunsOf, NoRun
  <2>3. QED
    BY <2>1, <2>2, Zenon
<1>4. T = {}
  <2>1. SUFFICES ASSUME T # {} PROVE FALSE
    BY Zenon
  <2>2. PICK m \in T : \A k \in T : m <= k
    BY <2>1, LeastOf, Zenon
  <2>3. m # 1
    BY <1>3, <2>2, Zenon
  <2>4. PICK j \in Nat \ {0} : j + 1 = m /\ j \in 1 .. n /\ m \in 2 .. n /\ m - 1 = j
    <3>1. m \in 1 .. n
      BY <2>2, Zenon
    <3>2. m - 1 \in Nat \ {0} /\ (m - 1) + 1 = m /\ m - 1 \in 1 .. n /\ m \in 2 .. n
      BY <2>3, <3>1
    <3>3. QED
      BY <3>2, Zenon
  <2>5. j \notin T
    <3>1. ~(m <= j)
      BY <2>4
    <3>2. QED
      BY <2>2, <3>1, Zenon
  <2>6. PICK run \in Nat, max \in Nat :
          R[j] = [run |-> run, max |-> max] /\ RunsUpTo(s, run, max, j)
    BY <2>4, <2>5, Zenon
  <2>7. PICK x \in Nat, top \in Nat :
          x = run + 1 /\ top = IF run + 1 > max THEN run + 1 ELSE max
    OBVIOUS
  <2>8. /\ s[m] = s[j] => R[m] = [run |-> x, max |-> top]
        /\ s[m] # s[j] => R[m] = [run |-> 1, max |-> max]
    <3> HIDE DEF T, P
    <3>1. PICK r : r = R[j] /\ r = [run |-> run, max |-> max]
      BY <2>6, Zenon
    <3>2. r.run = run /\ r.max = max /\ [r EXCEPT !.run = 1] = [run |-> 1, max |-> max]
      BY <3>1
    <3>3. R[m] = RunStep(s, r, m)
      BY <1>1, <1>2, <2>4, <3>1, Zenon DEF RunsOf
    <3>4. s[m] = s[m - 1] => RunStep(s, r, m) = [run |-> run + 1, max |-> top]
      BY <2>7, <3>2, Zenon DEF RunStep
    <3>5. s[m] # s[m - 1] => RunStep(s, r, m) = [run |-> 1, max |-> max]
      BY <3>2, Zenon DEF RunStep
    <3>6. QED
      BY <2>4, <2>7, <3>3, <3>4, <3>5, Zenon
  <2>9. CASE s[m] = s[j]
    <3>1. RunsUpTo(s, x, top, m)
      BY <2>4, <2>6, <2>7, <2>9, EqualSampleGoesOn, Zenon
    <3>2. QED
      BY <2>2, <2>8, <2>9, <3>1, Zenon
  <2>10. CASE s[m] # s[j]
    <3>1. RunsUpTo(s, 1, max, m) /\ 1 \in Nat
      BY <2>4, <2>6, <2>10, OtherSampleStartsOver, Zenon
    <3>2. QED
      BY <2>2, <2>8, <2>10, <3>1, Zenon
  <2>11. QED
    BY <2>9, <2>10, Zenon
<1>5. n \in 1 .. n /\ n \in Nat
  OBVIOUS
<1>6. PICK run \in Nat, max \in Nat :
        R[n] = [run |-> run, max |-> max] /\ RunsUpTo(s, run, max, n)
  BY <1>4, <1>5, Zenon
<1>7. LongestRun(s) = max
  <2>1. [run |-> run, max |-> max].max = max
    OBVIOUS
  <2>2. QED
    BY <1>1, <1>2, <1>6, <2>1, Zenon DEF RunsOf
<1>8. max \in 1 .. n
  BY <1>6 DEF RunsUpTo
<1>9. QED
  BY <1>2, <1>6, <1>7, <1>8, Zenon DEF RunsUpTo

(* The repetition test fails exactly if so many neighbours are equal. *)
LEMMA RctIsRepetition ==
  ASSUME NEW V, NEW s \in Seq(V), NEW c \in Nat \ {0}
  PROVE  RctPassed(s, c) <=> \A i \in 1 .. Len(s) - c + 1 : ~HasRun(s, i, c)
<1>1. CASE s = << >>
  <2>1. 1 .. Len(s) - c + 1 = {}
    BY <1>1
  <2>2. QED
    BY <1>1, <2>1, Zenon DEF RctPassed
<1>2. CASE s # << >>
  <2>1. PICK n \in Nat, m \in Nat : n = Len(s) /\ m = LongestRun(s) /\ m \in 1 .. n
    <3>1. Len(s) \in Nat
      OBVIOUS
    <3>2. LongestRun(s) \in 1 .. Len(s)
      BY <1>2, LongestRunIsLongest, Zenon
    <3>3. LongestRun(s) \in Nat
      BY <3>2
    <3>4. QED
      BY <3>1, <3>2, <3>3, Zenon
  <2>2. /\ \E i \in 1 .. n - m + 1 : HasRun(s, i, m)
        /\ \A i \in 1 .. n : \A d \in 1 .. n - i + 1 : HasRun(s, i, d) => d <= m
    BY <1>2, <2>1, LongestRunIsLongest, Zenon
  <2>3. RctPassed(s, c) <=> m < c
    BY <1>2, <2>1, Zenon DEF RctPassed
  <2>4. ASSUME NEW i \in 1 .. n - c + 1, HasRun(s, i, c) PROVE ~(m < c)
    <3>1. i \in 1 .. n /\ c \in 1 .. n - i + 1
      OBVIOUS
    <3>2. c <= m
      BY <2>2, <2>4, <3>1, Zenon
    <3>3. QED
      BY <3>2
  <2>5. ASSUME ~(m < c) PROVE \E i \in 1 .. n - c + 1 : HasRun(s, i, c)
    <3>1. PICK i \in 1 .. n - m + 1 : HasRun(s, i, m)
      BY <2>2, Zenon
    <3>2. i \in 1 .. n - c + 1 /\ \A d \in 0 .. c - 1 : d \in 0 .. m - 1
      BY <2>1, <2>5
    <3>3. HasRun(s, i, c)
      BY <3>1, <3>2, Zenon DEF HasRun
    <3>4. QED
      BY <3>2, <3>3, Zenon
  <2>6. QED
    BY <2>1, <2>3, <2>4, <2>5, Zenon
<1>3. QED
  BY <1>1, <1>2, Zenon

-----------------------------------------------------------------------------
(* The i-th oldest sample of the jitter ring, as the frame's tests count. *)
OldSample(i) ==
  jitter_ring[(jitter_write_index + JITTER_RING_SIZE - jitter_samples_written + i - 1)
                % JITTER_RING_SIZE]

LEMMA WindowIsOld ==
  ASSUME JitterRing!RingInv
  PROVE  /\ jitter_samples_written \in Nat
         /\ JitterWindow \in Seq(Latencies) /\ Len(JitterWindow) = jitter_samples_written
         /\ \A i \in 1 .. jitter_samples_written :
              /\ JitterWindow[i] = OldSample(i)
              /\ JitterWindow[i] =
                   jitter_ring[(jitter_write_index - (jitter_samples_written - i + 1))
                                 % JITTER_RING_SIZE]
<1> DEFINE n == jitter_samples_written
           w == jitter_write_index
           S == JITTER_RING_SIZE
<1>1. JitterRing!FullSnapshot
  BY JitterRing!SnapshotPlaces
<1>2. JitterWindow = JitterRing!Snapshot(JITTER_RING_SIZE)
  BY DEF JitterWindow, Jitter!Snapshot, JitterRing!Snapshot,
         Jitter!StartIndex, JitterRing!StartIndex
<1>3. /\ S \in Nat \ {0} /\ w \in 0 .. S - 1 /\ n \in 0 .. S
      /\ n < S => w = n
  BY DEF JitterRing!RingInv, JitterRing!RingConstantsOK, JitterRing!RingTypeOK,
         JitterRing!IndexCountsSamples
<1> HIDE DEF n, w, S
<1>4. ASSUME NEW i \in 1 .. n
      PROVE  /\ JitterRing!Place(i) = (w + S - n + i - 1) % S
             /\ JitterRing!Place(i) = (w - (n - i + 1)) % S
  <2>1. CASE n < S
    <3>1. w = n /\ i - 1 \in 0 .. S - 1
      BY <1>3, <2>1
    <3>2. w + S - n + i - 1 = (i - 1) + S /\ w - (n - i + 1) = i - 1
      BY <1>3, <3>1
    <3>3. ((i - 1) + S) % S = i - 1 /\ (i - 1) % S = i - 1
      BY <1>3, <3>1, Z3
    <3>4. JitterRing!Place(i) = i - 1
      BY <2>1 DEF JitterRing!Place, n, S
    <3>5. QED
      BY <3>2, <3>3, <3>4, Zenon
  <2>2. CASE n = S
    <3>1. /\ w + S - n + i - 1 = w + i - 1 /\ w - (n - i + 1) = (w + i - 1) - S
          /\ w + i - 1 \in 0 .. S + S - 1
      BY <1>3, <2>2
    <3>2. /\ (w + i - 1) % S = IF w + i - 1 < S THEN w + i - 1 ELSE w + i - 1 - S
          /\ ((w + i - 1) - S) % S = IF w + i - 1 < S THEN w + i - 1 ELSE w + i - 1 - S
      BY <1>3, <3>1, Z3
    <3>3. JitterRing!Place(i) = IF w + i - 1 < S THEN w + i - 1 ELSE w + i - 1 - S
      BY <1>3, <2>2 DEF JitterRing!Place, n, w, S
    <3>4. QED
      BY <3>1, <3>2, <3>3
  <2>3. QED
    BY <1>3, <2>1, <2>2
<1>5. n \in Nat
  BY <1>3
<1>6. QED
  BY <1>1, <1>2, <1>4, <1>5 DEF JitterRing!FullSnapshot, OldSample, n, w, S

LEMMA CutoffIsPositive == JitterRctCutoff \in Nat \ {0}
<1>1. PICK a \in Nat, h \in Nat \ {0} :
        a = JITTER_HEALTH_ALPHA /\ h = JITTER_HEALTH_H_BITS
  BY JitterHealthAssumption
<1>2. (a + h - 1) \div h \in Nat
  BY Z3
<1>3. 1 + (a + h - 1) \div h \in Nat \ {0}
  BY <1>2
<1>4. QED
  BY <1>1, <1>3, Zenon DEF JitterRctCutoff, RctCutoff

LEMMA EqualSamplesFail ==
  ASSUME NEW V, NEW s \in Seq(V), NEW w \in Nat \ {0}, NEW c \in Nat,
         w <= Len(s), c <= w, \A i \in 1 .. Len(s) : s[i] = s[1]
  PROVE  ~AptPassed(s, w, c)
<1>1. 1 \in WindowStarts(Len(s), w)
  <2>1. (1 - 1) % w = 0
    BY Z3
  <2>2. 1 \in 1 .. Len(s) /\ 1 + w - 1 <= Len(s)
    OBVIOUS
  <2>3. QED
    BY <2>1, <2>2, Zenon DEF WindowStarts
<1>2. { j \in 1 .. 1 + w - 1 : s[j] = s[1] } = 1 .. w
  <2>1. 1 + w - 1 = w /\ \A j \in 1 .. w : j \in 1 .. Len(s)
    OBVIOUS
  <2>2. QED
    BY <2>1, Zenon
<1>3. Cardinality(1 .. w) = w
  BY FS_Interval
<1>4. Cardinality({ j \in 1 .. 1 + w - 1 : s[j] = s[1] }) >= c
  <2>1. w >= c
    OBVIOUS
  <2>2. QED
    BY <1>2, <1>3, <2>1, Zenon
<1>5. QED
  BY <1>1, <1>4, Zenon DEF AptPassed, WindowsFailed

LEMMA VerdictsOfRing ==
  ASSUME JitterRing!RingInv
  PROVE  FrameVerdictsAreTests
<1>1. PICK n \in Nat : n = jitter_samples_written
  BY WindowIsOld, Zenon
<1>2. PICK s \in Seq(Latencies) :
        /\ s = JitterWindow /\ Len(s) = n
        /\ \A i \in 1 .. n :
             /\ s[i] = OldSample(i)
             /\ s[i] = jitter_ring[(jitter_write_index - (n - i + 1)) % JITTER_RING_SIZE]
  BY <1>1, WindowIsOld, Zenon
<1>3. PICK w \in Nat \ {0}, h \in Nat, a \in Nat :
        /\ w = JITTER_HEALTH_APT_WINDOW /\ h = JITTER_HEALTH_H_BITS
        /\ a = JITTER_HEALTH_ALPHA
  BY JitterHealthAssumption
<1>4. PICK c \in Nat \ {0} : c = JitterRctCutoff
  BY CutoffIsPositive, Zenon
<1>5. JitterRct <=> \A i \in 1 .. n - c + 1 : \E j \in 1 .. c - 1 : OldSample(i + j) # OldSample(i)
  <2>1. JitterRct <=> \A i \in 1 .. n - c + 1 : ~HasRun(s, i, c)
    BY <1>2, <1>4, RctIsRepetition, Zenon DEF JitterRct
  <2>2. ASSUME NEW i \in 1 .. n - c + 1
        PROVE  ~HasRun(s, i, c) <=> \E j \in 1 .. c - 1 : OldSample(i + j) # OldSample(i)
    <3>1. \A j \in 1 .. c - 1 : i + j \in 1 .. n /\ j \in 0 .. c - 1
      OBVIOUS
    <3>2. i \in 1 .. n /\ i + 0 = i /\ \A d \in 0 .. c - 1 : d = 0 \/ d \in 1 .. c - 1
      OBVIOUS
    <3>3. \A j \in 1 .. c - 1 : s[i + j] = OldSample(i + j) /\ s[i] = OldSample(i)
      BY <1>2, <3>1, <3>2, Zenon
    <3>4. ~HasRun(s, i, c) <=> \E j \in 1 .. c - 1 : s[i + j] # s[i]
      BY <3>1, <3>2, Zenon DEF HasRun
    <3>5. QED
      BY <3>3, <3>4, Zenon
  <2>3. QED
    BY <2>1, <2>2, Zenon
<1>6. PICK k \in 0 .. w :
        /\ k = CritBinom(w, h, a)
        /\ UpperTail(w, h, k + 1) * Power(2, a) <= Power(2, h * w)
        /\ \A i \in 1 .. k : ~(UpperTail(w, h, i) * Power(2, a) <= Power(2, h * w))
  BY CritBinomIsQuantile, Zenon
<1>7. JitterAptCutoff = 1 + k
  BY <1>3, <1>6, Zenon DEF JitterAptCutoff, AptCutoff
<1>8. PICK q \in Nat : q = JitterAptCutoff /\ q - 1 = k
  <2>1. 1 + k \in Nat /\ (1 + k) - 1 = k
    OBVIOUS
  <2>2. QED
    BY <1>7, <2>1, Zenon
<1>9. UpperTail(w, h, (q - 1) + 1) * Power(2, a) <= Power(2, h * w)
  BY <1>6, <1>8, Zenon
<1>10. ASSUME NEW i \in 0 .. q - 2
       PROVE  ~(UpperTail(w, h, i + 1) * Power(2, a) <= Power(2, h * w))
  <2>1. i + 1 \in 1 .. k
    BY <1>8
  <2>2. QED
    BY <1>6, <2>1, Zenon
<1>11. ASSUME n >= w, q <= w, LastEqual(n) PROVE ~JitterApt
  <2>1. ASSUME NEW i \in 1 .. n
        PROVE  s[i] = jitter_ring[(jitter_write_index - 1) % JITTER_RING_SIZE]
    <3>1. n - i + 1 \in 1 .. n
      OBVIOUS
    <3>2. QED
      BY <1>2, <1>11, <3>1, Zenon DEF LastEqual
  <2>2. 1 \in 1 .. n /\ w <= n
    BY <1>11
  <2>3. \A i \in 1 .. Len(s) : s[i] = s[1]
    BY <1>2, <2>1, <2>2, Zenon
  <2>4. ~AptPassed(s, w, q)
    BY <1>2, <1>11, <2>2, <2>3, EqualSamplesFail, Zenon
  <2>5. QED
    BY <1>2, <1>3, <1>8, <2>4, Zenon DEF JitterApt
<1>12. QED
  BY <1>1, <1>3, <1>4, <1>5, <1>8, <1>9, <1>10, <1>11, Zenon
     DEF FrameVerdictsAreTests, OldSample

LEMMA JitterStaysRing == Spec => [](JitterRing!RingInv)
<1>1. Init => JitterRing!RingInit
  BY DEF Init, Jitter!RingInit, JitterRing!RingInit
<1>2. JitterRing!RingConstantsOK
  BY RingSizeAssumption, LatencyAssumption DEF JitterRing!RingConstantsOK
<1>3. QED
  BY <1>1, <1>2, StepOfJitter, JitterRing!RingInvariant, PTL
     DEF Spec, JitterRing!RingSpec

(* What a telemetry frame says of the jitter ring is what SP 800-90B's tests
   say of its contents, for every ring size, window, rate and entropy estimate
   and wherever the ring is written at: the repetition test fails exactly if
   so many neighbours are equal, the proportion test's cutoff is the exact
   binomial quantile, and samples that are all equal fail it as soon as they
   fill a window (main_gui.cpp:416-422, entropy_stats.c:203-299). *)
THEOREM FrameVerdicts == Spec => []FrameVerdictsAreTests
BY JitterStaysRing, VerdictsOfRing, PTL

-----------------------------------------------------------------------------
(* The sum of a function on 0 .. n - 1, in whatever order its arguments are
   chosen, is the sum of its values as a row. *)
Shifted(S) == { x + 1 : x \in S }

LEMMA TotalOfShifted ==
  ASSUME NEW t \in Seq(Nat), NEW S \in SUBSET (0 .. Len(t) - 1), NEW x \in S
  PROVE  Total(Row(t, Shifted(S))) = t[x + 1] + Total(Row(t, Shifted(S \ {x})))
<1>1. Shifted(S) \in SUBSET (DOMAIN t) /\ x + 1 \in Shifted(S)
  BY DEF Shifted
<1>2. Shifted(S \ {x}) = Shifted(S) \ {x + 1}
  BY DEF Shifted
<1>3. PICK y, A : y = x + 1 /\ A = Shifted(S)
  BY Zenon
<1>4. A \in SUBSET (DOMAIN t) /\ y \in A
  BY <1>1, <1>3, Zenon
<1>5. Total(Row(t, A)) = t[y] + Total(Row(t, A \ {y}))
  BY <1>4, TotalOfRow, Zenon
<1>6. QED
  BY <1>2, <1>3, <1>5, Zenon

LEMMA TotalOfNoShifted ==
  ASSUME NEW t \in Seq(Nat)
  PROVE  Total(Row(t, Shifted({}))) = 0
<1>1. Shifted({}) = {}
  BY DEF Shifted
<1>2. QED
  BY <1>1, TotalOfEmptyRow, Zenon

LEMMA ShiftedSumIsTotal ==
  ASSUME NEW t \in Seq(Nat), NEW f, \A x \in 0 .. Len(t) - 1 : f[x] = t[x + 1],
         NEW N \in SUBSET (0 .. Len(t) - 1)
  PROVE  /\ \E it : IsSum(it, f, N)
         /\ \A it : IsSum(it, f, N) => it[N] = Total(Row(t, Shifted(N)))
<1>1. \E it : IsSum(it, f, N)
  <2> DEFINE it == [s \in SUBSET N |-> Total(Row(t, Shifted(s)))]
  <2>1. ASSUME NEW s \in SUBSET N
        PROVE  it[s] = IF s = {} THEN 0
                       ELSE f[CHOOSE x \in s : TRUE] + it[s \ {CHOOSE x \in s : TRUE}]
    <3>1. CASE s = {}
      BY <3>1, TotalOfNoShifted, Zenon
    <3>2. CASE s # {}
      <4>1. PICK x \in s : x = CHOOSE y \in s : TRUE
        BY <3>2, Zenon
      <4>2. s \in SUBSET (0 .. Len(t) - 1) /\ s \ {x} \in SUBSET N
        OBVIOUS
      <4>3. Total(Row(t, Shifted(s))) = f[x] + Total(Row(t, Shifted(s \ {x})))
        <5>1. Total(Row(t, Shifted(s))) = t[x + 1] + Total(Row(t, Shifted(s \ {x})))
          BY <4>2, TotalOfShifted, Zenon
        <5>2. f[x] = t[x + 1]
          BY <4>2, Zenon
        <5>3. QED
          BY <5>1, <5>2, Zenon
      <4>4. it[s] = f[x] + it[s \ {x}]
        BY <4>2, <4>3, Zenon
      <4>5. QED
        BY <3>2, <4>1, <4>4, Zenon
    <3>3. QED
      BY <3>1, <3>2, Zenon
  <2>2. IsSum(it, f, N)
    BY <2>1, Zenon DEF IsSum
  <2>3. QED
    BY <2>2, Zenon
<1>2. ASSUME NEW it, IsSum(it, f, N) PROVE it[N] = Total(Row(t, Shifted(N)))
  <2> DEFINE W == { s \in SUBSET N : it[s] # Total(Row(t, Shifted(s))) }
             T == { Cardinality(s) : s \in W }
  <2>1. \A s \in SUBSET N : IsFiniteSet(s)
    <3>1. 0 \in Int /\ Len(t) - 1 \in Int
      OBVIOUS
    <3>2. IsFiniteSet(0 .. Len(t) - 1)
      BY <3>1, FS_Interval, Zenon
    <3>3. \A s \in SUBSET N : s \in SUBSET (0 .. Len(t) - 1)
      OBVIOUS
    <3>4. QED
      BY <3>2, <3>3, FS_Subset, Zenon
  <2>2. SUFFICES ASSUME W # {} PROVE FALSE
    BY <2>2, Zenon
  <2>3. T \in SUBSET Nat /\ T # {}
    BY <2>1, <2>2, FS_CardinalityType, Zenon
  <2>4. PICK m \in T : \A k \in T : m <= k
    BY <2>3, LeastOf, Zenon
  <2>5. PICK s \in SUBSET N : it[s] # Total(Row(t, Shifted(s))) /\ m = Cardinality(s)
    BY <2>4, Zenon
  <2>6. s # {}
    BY <1>2, <2>5, TotalOfNoShifted, Zenon DEF IsSum
  <2>7. PICK x \in s : x = CHOOSE y \in s : TRUE
    BY <2>6, Zenon
  <2>8. it[s] = f[x] + it[s \ {x}]
    BY <1>2, <2>6, <2>7, Zenon DEF IsSum
  <2>9. s \ {x} \in SUBSET N /\ s \in SUBSET (0 .. Len(t) - 1) /\ x \in 0 .. Len(t) - 1
    BY Zenon
  <2>10. Cardinality(s \ {x}) = m - 1 /\ m \in Nat
    BY <2>1, <2>3, <2>4, <2>5, <2>7, FS_RemoveElement, Zenon
  <2>11. Cardinality(s \ {x}) \notin T
    BY <2>4, <2>10
  <2>12. it[s \ {x}] = Total(Row(t, Shifted(s \ {x})))
    BY <2>9, <2>11, Zenon
  <2>13. Total(Row(t, Shifted(s))) = f[x] + Total(Row(t, Shifted(s \ {x})))
    <3>1. Total(Row(t, Shifted(s))) = t[x + 1] + Total(Row(t, Shifted(s \ {x})))
      BY <2>7, <2>9, TotalOfShifted, Zenon
    <3>2. f[x] = t[x + 1]
      BY <2>9, Zenon
    <3>3. QED
      BY <3>1, <3>2, Zenon
  <2>14. QED
    BY <2>5, <2>8, <2>12, <2>13, Zenon
<1>3. QED
  BY <1>1, <1>2, Zenon

LEMMA FunctionSum ==
  ASSUME NEW t \in Seq(Nat), NEW f, DOMAIN f = 0 .. Len(t) - 1,
         \A x \in 0 .. Len(t) - 1 : f[x] = t[x + 1]
  PROVE  SumFunction(f) = Total(t)
<1> DEFINE N == 0 .. Len(t) - 1
           it == CHOOSE it : IsSum(it, f, N)
<1>1. SumFunction(f) = it[N]
  BY Zenon DEF SumFunction, SumFunctionOnSet, FoldFunctionOnSet, MapThenFoldSet, IsSum
<1>2. IsSum(it, f, N)
  <2>1. \E g : IsSum(g, f, N)
    BY ShiftedSumIsTotal, Zenon
  <2>2. QED
    BY <2>1, Zenon
<1> HIDE DEF it
<1>3. it[N] = Total(Row(t, Shifted(N)))
  <2>1. N \in SUBSET (0 .. Len(t) - 1)
    BY Zenon
  <2> HIDE DEF N
  <2>2. QED
    BY <1>2, <2>1, ShiftedSumIsTotal, Zenon
<1>4. Row(t, Shifted(N)) = t
  <2>1. PICK n \in Nat : n = Len(t)
    OBVIOUS
  <2>2. DOMAIN t = 1 .. n /\ t = [j \in 1 .. n |-> t[j]]
    BY <2>1
  <2>3. \A j \in 1 .. n : j \in Shifted(N)
    <3>1. ASSUME NEW j \in 1 .. n PROVE j \in Shifted(N)
      <4>1. j - 1 \in N /\ (j - 1) + 1 = j
        BY <2>1
      <4>2. QED
        BY <4>1, Zenon DEF Shifted
    <3>2. QED
      BY <3>1, Zenon
  <2> HIDE DEF N
  <2>4. Row(t, Shifted(N)) = [j \in 1 .. n |-> t[j]]
    BY <2>2, <2>3, Zenon DEF Row
  <2>5. QED
    BY <2>2, <2>4, Zenon
<1>5. QED
  BY <1>1, <1>3, <1>4, Zenon

-----------------------------------------------------------------------------
(* How often v is among the first k samples; a row of such counts, one for
   every value, each with its weight. *)
Count(data, k, v) == Cardinality({ i \in 1 .. k : data[i] = v })

Weighted(data, k, w) == [j \in DOMAIN w |-> Count(data, k, j - 1) * w[j]]

LEMMA NoneIsCounted == \A data, v : Count(data, 0, v) = 0
<1>1. ASSUME NEW data, NEW v PROVE { i \in 1 .. 0 : data[i] = v } = {}
  OBVIOUS
<1>2. QED
  BY <1>1, FS_EmptySet, Zenon DEF Count

LEMMA CountGrows ==
  ASSUME NEW data, NEW v, NEW k \in Nat \ {0}
  PROVE  /\ Count(data, k - 1, v) \in Nat
         /\ data[k] = v => Count(data, k, v) = Count(data, k - 1, v) + 1
         /\ data[k] # v => Count(data, k, v) = Count(data, k - 1, v)
<1> DEFINE S == { i \in 1 .. k - 1 : data[i] = v }
           T == { i \in 1 .. k : data[i] = v }
<1>1. IsFiniteSet(S)
  <2>1. 1 \in Int /\ k - 1 \in Int
    OBVIOUS
  <2>2. IsFiniteSet(1 .. k - 1)
    BY <2>1, FS_Interval, Zenon
  <2>3. S \in SUBSET (1 .. k - 1)
    OBVIOUS
  <2>4. QED
    BY <2>2, <2>3, FS_Subset, Zenon
<1>2. k \notin S /\ 1 .. k = (1 .. k - 1) \cup {k}
  OBVIOUS
<1>3. CASE data[k] = v
  <2>1. T = S \cup {k}
    BY <1>2, <1>3, Zenon
  <2> HIDE DEF S, T
  <2>2. Cardinality(T) = Cardinality(S) + 1
    BY <1>1, <1>2, <2>1, FS_AddElement, Zenon
  <2>3. QED
    BY <1>1, <1>3, <2>2, FS_CardinalityType, Zenon DEF S, T, Count
<1>4. CASE data[k] # v
  <2>1. T = S
    BY <1>2, <1>4, Zenon
  <2>2. QED
    BY <1>1, <1>4, <2>1, FS_CardinalityType, Zenon DEF Count
<1>5. QED
  BY <1>3, <1>4, Zenon

LEMMA CountIsNat ==
  ASSUME NEW data, NEW v, NEW k \in Nat
  PROVE  Count(data, k, v) \in Nat
<1>1. PICK l \in Nat \ {0} : l - 1 = k
  <2>1. k + 1 \in Nat \ {0} /\ (k + 1) - 1 = k
    OBVIOUS
  <2>2. QED
    BY <2>1, Zenon
<1>2. Count(data, l - 1, v) \in Nat
  BY CountGrows, Zenon
<1>3. QED
  BY <1>1, <1>2, Zenon

LEMMA WeightedIsSeq ==
  ASSUME NEW data, NEW w \in Seq(Nat), NEW k \in Nat
  PROVE  Weighted(data, k, w) \in Seq(Nat) /\ Len(Weighted(data, k, w)) = Len(w)
<1>1. PICK n \in Nat : n = Len(w)
  OBVIOUS
<1>2. DOMAIN w = 1 .. n /\ \A j \in 1 .. n : w[j] \in Nat
  BY <1>1
<1>3. ASSUME NEW j \in 1 .. n PROVE Count(data, k, j - 1) * w[j] \in Nat
  <2>1. PICK c \in Nat, x \in Nat : c = Count(data, k, j - 1) /\ x = w[j]
    BY <1>2, CountIsNat, Zenon
  <2>2. c * x \in Nat
    OBVIOUS
  <2>3. QED
    BY <2>1, <2>2, Zenon
<1>4. PICK r : r = Weighted(data, k, w)
  BY Zenon
<1>5. r \in [1 .. n -> Nat]
  BY <1>2, <1>3, <1>4 DEF Weighted
<1>6. r \in Seq(Nat) /\ Len(r) = n
  BY <1>5
<1>7. QED
  BY <1>1, <1>4, <1>6, Zenon

(* One more sample adds the weight of its value. *)
LEMMA WeightedGrows ==
  ASSUME NEW w \in Seq(Nat), NEW data, NEW k \in Nat \ {0},
         data[k] \in 0 .. Len(w) - 1
  PROVE  Total(Weighted(data, k, w)) = Total(Weighted(data, k - 1, w)) + w[data[k] + 1]
<1>1. PICK n \in Nat : n = Len(w)
  OBVIOUS
<1>2. DOMAIN w = 1 .. n /\ \A j \in 1 .. n : w[j] \in Nat
  BY <1>1
<1>3. PICK x \in 1 .. n : x = data[k] + 1 /\ x - 1 = data[k]
  <2>1. data[k] + 1 \in 1 .. n /\ (data[k] + 1) - 1 = data[k]
    BY <1>1
  <2>2. QED
    BY <2>1, Zenon
<1>4. PICK l \in Nat : l = k - 1 /\ k \in Nat
  OBVIOUS
<1>5. PICK g \in Seq(Nat), h \in Seq(Nat) :
        /\ g = Weighted(data, l, w) /\ h = Weighted(data, k, w)
        /\ Len(g) = n /\ Len(h) = n
  <2>1. Weighted(data, l, w) \in Seq(Nat) /\ Len(Weighted(data, l, w)) = n
    BY <1>1, WeightedIsSeq, Zenon
  <2>2. Weighted(data, k, w) \in Seq(Nat) /\ Len(Weighted(data, k, w)) = n
    BY <1>1, <1>4, WeightedIsSeq, Zenon
  <2>3. QED
    BY <2>1, <2>2, Zenon
<1>6. \A j \in 1 .. n : /\ g[j] = Count(data, l, j - 1) * w[j]
                        /\ h[j] = Count(data, k, j - 1) * w[j]
  BY <1>2, <1>5, Zenon DEF Weighted
<1>7. PICK d \in Nat : d = w[x]
  BY <1>2, Zenon
<1>8. h[x] = g[x] + d
  <2>1. PICK c \in Nat : c = Count(data, l, x - 1)
    BY CountIsNat, Zenon
  <2>2. Count(data, k, x - 1) = c + 1
    BY <1>3, <1>4, <2>1, CountGrows, Zenon
  <2>3. (c + 1) * d = c * d + d
    OBVIOUS
  <2>4. g[x] = c * d /\ h[x] = (c + 1) * d
    BY <1>6, <1>7, <2>1, <2>2, Zenon
  <2>5. QED
    BY <2>3, <2>4, Zenon
<1>9. ASSUME NEW j \in 1 .. n, j # x PROVE h[j] = g[j]
  <2>1. j - 1 # data[k]
    BY <1>3, <1>9
  <2>2. PICK v : v = j - 1
    BY Zenon
  <2>3. Count(data, k, v) = Count(data, k - 1, v)
    BY <2>1, <2>2, CountGrows, Zenon
  <2>4. QED
    BY <1>4, <1>6, <2>2, <2>3, Zenon
<1>10. Total(h) = Total(g) + d
  <2>1. Len(g) = Len(h) /\ x \in 1 .. Len(h)
    BY <1>5, Zenon
  <2>2. \A j \in 1 .. Len(h) : j # x => h[j] = g[j]
    BY <1>5, <1>9, Zenon
  <2>3. QED
    BY <1>8, <2>1, <2>2, TotalRisesBy, Zenon
<1>11. QED
  BY <1>3, <1>4, <1>5, <1>7, <1>10, Zenon

(* g is the sum of the weights that the first samples have. *)
AddsUp(g, data, n, w) ==
  /\ g[0] = 0
  /\ \A k \in 1 .. n : /\ data[k] \in 0 .. Len(w) - 1
                       /\ g[k] = g[k - 1] + w[data[k] + 1]

LEMMA WeightedTotal ==
  ASSUME NEW w \in Seq(Nat), NEW data, NEW n \in Nat, NEW g, AddsUp(g, data, n, w)
  PROVE  Total(Weighted(data, n, w)) = g[n]
<1> DEFINE T == { k \in Nat : k <= n /\ Total(Weighted(data, k, w)) # g[k] }
<1>1. SUFFICES ASSUME T # {} PROVE FALSE
  <2>1. n \in Nat /\ n <= n
    OBVIOUS
  <2>2. QED
    BY <1>1, <2>1, Zenon
<1>2. PICK m \in T : \A k \in T : m <= k
  BY <1>1, LeastOf, Zenon
<1>3. Total(Weighted(data, 0, w)) = 0
  <2>1. PICK r \in Seq(Nat) : r = Weighted(data, 0, w) /\ Len(r) = Len(w)
    BY WeightedIsSeq, Zenon
  <2>2. DOMAIN w = 1 .. Len(w) /\ \A j \in 1 .. Len(w) : w[j] \in Nat
    OBVIOUS
  <2>3. \A j \in 1 .. Len(r) : r[j] = 0 * w[j]
    BY <2>1, <2>2, NoneIsCounted, Zenon DEF Weighted
  <2>4. \A j \in 1 .. Len(r) : r[j] = 0
    BY <2>1, <2>2, <2>3
  <2>5. QED
    BY <2>1, <2>4, TotalOfZeros, Zenon
<1>4. m # 0
  BY <1>2, <1>3, Zenon DEF AddsUp
<1>5. m \in 1 .. n /\ m \in Nat \ {0} /\ m - 1 \in Nat /\ m - 1 <= n /\ m - 1 < m
  BY <1>2, <1>4
<1>6. m - 1 \notin T
  BY <1>2, <1>5
<1>7. Total(Weighted(data, m - 1, w)) = g[m - 1]
  BY <1>5, <1>6, Zenon
<1>8. data[m] \in 0 .. Len(w) - 1 /\ g[m] = g[m - 1] + w[data[m] + 1]
  BY <1>5, Zenon DEF AddsUp
<1>9. Total(Weighted(data, m, w)) = Total(Weighted(data, m - 1, w)) + w[data[m] + 1]
  <2> HIDE DEF T
  <2>1. QED
    BY <1>5, <1>8, WeightedGrows, Zenon
<1>10. QED
  BY <1>2, <1>7, <1>8, <1>9, Zenon

-----------------------------------------------------------------------------
(* The bits of the bytes are one stream. *)
LEMMA DivMod ==
  ASSUME NEW b \in Nat \ {0}, NEW k \in Nat, NEW r \in 0 .. b - 1
  PROVE  (b * k + r) \div b = k /\ (b * k + r) % b = r
<1>1. PICK x \in Nat : x = b * k + r
  <2>1. b * k \in Nat
    OBVIOUS
  <2>2. b * k + r \in Nat
    BY <2>1
  <2>3. QED
    BY <2>2, Zenon
<1>2. PICK q \in Int, s \in 0 .. b - 1 : q = x \div b /\ s = x % b /\ x = b * q + s
  <2>1. x \div b \in Int /\ x % b \in 0 .. b - 1 /\ x = b * (x \div b) + (x % b)
    BY Z3
  <2>2. QED
    BY <2>1, Zenon
<1>3. PICK d \in Int : d = q - k
  OBVIOUS
<1>4. b * d = r - s
  <2>1. q = k + d
    BY <1>3
  <2>2. b * (k + d) = b * k + b * d
    OBVIOUS
  <2>3. QED
    BY <1>1, <1>2, <2>1, <2>2
<1>5. d = 0
  <2>1. d >= 1 => b * d >= b
    OBVIOUS
  <2>2. d <= -1 => b * d <= -b
    OBVIOUS
  <2>3. PICK y \in Int : y = b * d
    BY <1>3
  <2>4. r - s < b /\ r - s > -b
    BY <1>2
  <2>5. QED
    BY <1>3, <1>4, <2>1, <2>2, <2>3, <2>4
<1>6. q = k /\ s = r
  BY <1>3, <1>4, <1>5
<1>7. QED
  BY <1>1, <1>2, <1>6, Zenon

LEMMA BytesAreNat == Byte \subseteq Nat
<1>1. Power(2, BITS) \in Nat
  <2>1. 2 \in Nat /\ BITS \in Nat
    BY BitsAssumption
  <2>2. QED
    BY <2>1, PowerIsNat, Zenon
<1>2. PICK n \in Nat : n = Power(2, BITS)
  BY <1>1, Zenon
<1>3. 0 .. n - 1 \subseteq Nat
  OBVIOUS
<1>4. QED
  BY <1>2, <1>3, Zenon DEF Byte

LEMMA BitIsBit ==
  ASSUME NEW x \in Nat, NEW i \in Nat
  PROVE  Bit(x, i) \in {0, 1}
<1>1. PICK p \in Nat \ {0} : p = Power(2, i)
  <2>1. 2 \in Nat /\ 2 # 0
    OBVIOUS
  <2>2. Power(2, i) \in Nat /\ Power(2, i) # 0
    BY <2>1, PowerIsNat, Zenon
  <2>3. QED
    BY <2>2, Zenon
<1>2. PICK y \in Nat : y = x \div p
  <2>1. x \div p \in Nat
    BY Z3
  <2>2. QED
    BY <2>1, Zenon
<1>3. y % 2 \in {0, 1}
  BY Z3
<1>4. QED
  BY <1>1, <1>2, <1>3, Zenon DEF Bit

LEMMA StreamIs ==
  ASSUME NEW data \in Seq(Nat)
  PROVE  /\ Stream(data) \in Seq({0, 1}) /\ Len(Stream(data)) = BITS * Len(data)
         /\ BITS * Len(data) \in Nat
         /\ \A k \in 1 .. Len(data) : \A i \in 1 .. BITS :
               /\ BITS * (k - 1) + i \in 1 .. BITS * Len(data)
               /\ Stream(data)[BITS * (k - 1) + i] = Bit(data[k], i - 1)
<1>1. PICK n \in Nat, b \in Nat \ {0} : n = Len(data) /\ b = BITS
  BY BitsAssumption
<1>2. PICK l \in Nat : l = b * n
  <2>1. b * n \in Nat
    OBVIOUS
  <2>2. QED
    BY <2>1, Zenon
<1>3. \A k \in 1 .. n : data[k] \in Nat
  BY <1>1
<1>4. PICK s : s = [i \in 1 .. l |-> Bit(data[(i - 1) \div b + 1], (i - 1) % b)]
  BY Zenon
<1>5. s = Stream(data)
  BY <1>1, <1>2, <1>4, Zenon DEF Stream
<1>6. ASSUME NEW i \in 1 .. l PROVE s[i] \in {0, 1}
  <2>1. PICK x \in Nat : x = i - 1 /\ x < l
    OBVIOUS
  <2>2. PICK q \in Nat, r \in Nat : q = x \div b /\ r = x % b /\ x = b * q + r
    <3>1. x \div b \in Nat /\ x % b \in Nat /\ x = b * (x \div b) + (x % b)
      BY Z3
    <3>2. QED
      BY <3>1, Zenon
  <2>3. q + 1 \in 1 .. n
    <3>1. q >= n => b * q >= b * n
      OBVIOUS
    <3>2. PICK y \in Nat : y = b * q
      BY <2>2
    <3>3. ~(q >= n)
      BY <1>2, <2>1, <2>2, <3>1, <3>2
    <3>4. QED
      BY <2>2, <3>3
  <2>4. data[q + 1] \in Nat
    BY <1>3, <2>3, Zenon
  <2>5. Bit(data[q + 1], r) \in {0, 1}
    BY <2>4, BitIsBit, Zenon
  <2>6. QED
    BY <1>4, <2>1, <2>2, <2>5, Zenon
<1>7. s \in Seq({0, 1}) /\ Len(s) = l
  <2>1. s \in [1 .. l -> {0, 1}]
    BY <1>4, <1>6, Zenon
  <2>2. QED
    BY <2>1
<1>8. ASSUME NEW k \in 1 .. n, NEW i \in 1 .. b
      PROVE  b * (k - 1) + i \in 1 .. l /\ s[b * (k - 1) + i] = Bit(data[k], i - 1)
  <2>1. PICK m \in Nat, r \in 0 .. b - 1 : m = k - 1 /\ m + 1 = k /\ r = i - 1 /\ m <= n - 1
    OBVIOUS
  <2>2. PICK x \in Nat : x = b * m + i /\ x - 1 = b * m + r
    <3>1. b * m \in Nat
      OBVIOUS
    <3>2. b * m + i \in Nat /\ (b * m + i) - 1 = b * m + r
      BY <2>1, <3>1
    <3>3. QED
      BY <3>2, Zenon
  <2>3. x \in 1 .. l
    <3>1. b * m <= b * (n - 1) /\ b * (n - 1) = b * n - b
      BY <2>1
    <3>2. PICK y \in Nat : y = b * m
      BY <2>1
    <3>3. QED
      BY <1>2, <2>2, <3>1, <3>2
  <2>4. (x - 1) \div b = m /\ (x - 1) % b = r
    BY <2>2, DivMod, Zenon
  <2>5. s[x] = Bit(data[k], r)
    BY <1>4, <2>1, <2>3, <2>4, Zenon
  <2>6. QED
    BY <2>1, <2>2, <2>3, <2>5, Zenon
<1>9. QED
  BY <1>1, <1>2, <1>5, <1>7, <1>8, Zenon

(* Counting goes on where it stopped. *)
LEMMA CountContinues ==
  ASSUME NEW s, NEW t, NEW v, NEW m \in Nat, NEW n \in Nat,
         \A i \in 1 .. n : s[m + i] = t[i]
  PROVE  Count(s, m + n, v) = Count(s, m, v) + Count(t, n, v)
<1> DEFINE P(k) == Count(s, m + k, v) = Count(s, m, v) + Count(t, k, v)
           T == { k \in Nat : k <= n /\ ~P(k) }
<1>1. SUFFICES ASSUME T # {} PROVE FALSE
  <2>1. n \in Nat /\ n <= n
    OBVIOUS
  <2>2. QED
    BY <1>1, <2>1, Zenon
<1>2. PICK k \in T : \A y \in T : k <= y
  BY <1>1, LeastOf, Zenon
<1>3. PICK c \in Nat : c = Count(s, m, v)
  BY CountIsNat, Zenon
<1>4. k # 0
  <2>1. m + 0 = m /\ c + 0 = c
    OBVIOUS
  <2>2. P(0)
    BY <1>3, <2>1, NoneIsCounted, Zenon
  <2>3. QED
    BY <1>2, <2>2, Zenon
<1>5. k \in 1 .. n /\ k \in Nat \ {0} /\ k - 1 \in Nat /\ k - 1 <= n /\ k - 1 < k
  BY <1>2, <1>4
<1>6. k - 1 \notin T
  BY <1>2, <1>5
<1>7. P(k - 1)
  BY <1>5, <1>6, Zenon
<1>8. s[m + k] = t[k]
  BY <1>5, Zenon
<1>9. PICK x \in Nat \ {0}, d \in Nat : x = m + k /\ x - 1 = m + (k - 1) /\ d = Count(t, k - 1, v)
  <2>1. m + k \in Nat \ {0} /\ (m + k) - 1 = m + (k - 1)
    BY <1>5
  <2>2. QED
    BY <1>5, <2>1, CountIsNat, Zenon
<1>10. Count(s, x - 1, v) = c + d
  BY <1>3, <1>7, <1>9, Zenon
<1>11. CASE t[k] = v
  <2>1. Count(t, k, v) = d + 1
    BY <1>5, <1>9, <1>11, CountGrows, Zenon
  <2>2. Count(s, x, v) = (c + d) + 1
    <3>1. s[x] = v
      BY <1>8, <1>9, <1>11, Zenon
    <3>2. Count(s, x, v) = Count(s, x - 1, v) + 1
      BY <3>1, CountGrows, Zenon
    <3>3. QED
      BY <1>10, <3>2, Zenon
  <2>3. (c + d) + 1 = c + (d + 1)
    OBVIOUS
  <2>4. P(k)
    BY <1>3, <1>9, <2>1, <2>2, <2>3, Zenon
  <2>5. QED
    BY <1>2, <2>4, Zenon
<1>12. CASE t[k] # v
  <2>1. Count(t, k, v) = d
    BY <1>5, <1>9, <1>12, CountGrows, Zenon
  <2>2. Count(s, x, v) = c + d
    BY <1>8, <1>9, <1>10, <1>12, CountGrows, Zenon
  <2>3. P(k)
    BY <1>3, <1>9, <2>1, <2>2, Zenon
  <2>4. QED
    BY <1>2, <2>3, Zenon
<1>13. QED
  BY <1>11, <1>12, Zenon

LEMMA ByteRange ==
  /\ Power(2, BITS) \in Nat \ {0} /\ Byte = 0 .. Power(2, BITS) - 1
<1>1. 2 \in Nat /\ 2 # 0 /\ BITS \in Nat
  BY BitsAssumption
<1>2. Power(2, BITS) \in Nat /\ Power(2, BITS) # 0
  BY <1>1, PowerIsNat, Zenon
<1>3. QED
  BY <1>2, Zenon DEF Byte

(* A sum over the histogram, each count with a weight, goes through the data. *)
LEMMA HistogramSum ==
  ASSUME NEW data \in Seq(Byte), NEW w \in Seq(Nat), Len(w) = Power(2, BITS),
         NEW f, DOMAIN f = Byte, \A b \in Byte : f[b] = Histogram(data)[b] * w[b + 1],
         NEW g, g[0] = 0,
         \A k \in 1 .. Len(data) : g[k] = g[k - 1] + w[data[k] + 1]
  PROVE  SumFunction(f) = g[Len(data)]
<1>1. PICK l \in Nat : l = Len(data)
  OBVIOUS
<1>2. PICK n \in Nat \ {0} : n = Len(w) /\ Byte = 0 .. n - 1
  BY ByteRange, Zenon
<1>3. \A k \in 1 .. l : data[k] \in Byte
  BY <1>1
<1>4. PICK t \in Seq(Nat) : t = Weighted(data, l, w) /\ Len(t) = n
  <2>1. Weighted(data, l, w) \in Seq(Nat) /\ Len(Weighted(data, l, w)) = n
    BY <1>2, WeightedIsSeq, Zenon
  <2>2. QED
    BY <2>1, Zenon
<1>5. DOMAIN w = 1 .. n
  BY <1>2
<1>6. ASSUME NEW b \in Byte PROVE f[b] = t[b + 1]
  <2>1. b + 1 \in 1 .. n /\ (b + 1) - 1 = b
    BY <1>2
  <2>2. Histogram(data)[b] = Count(data, l, b)
    BY <1>1, Zenon DEF Histogram, Count
  <2>3. t[b + 1] = Count(data, l, b) * w[b + 1]
    BY <1>4, <1>5, <2>1, Zenon DEF Weighted
  <2>4. QED
    BY <2>2, <2>3, Zenon
<1>7. SumFunction(f) = Total(t)
  <2>1. DOMAIN f = 0 .. Len(t) - 1 /\ \A x \in 0 .. Len(t) - 1 : f[x] = t[x + 1]
    BY <1>2, <1>4, <1>6, Zenon
  <2>2. QED
    BY <2>1, FunctionSum, Zenon
<1>8. Total(t) = g[l]
  <2>1. AddsUp(g, data, l, w)
    BY <1>1, <1>2, <1>3, Zenon DEF AddsUp
  <2>2. Total(Weighted(data, l, w)) = g[l]
    BY <2>1, WeightedTotal
  <2>3. QED
    BY <1>4, <2>2, Zenon
<1>9. QED
  BY <1>1, <1>7, <1>8, Zenon

LEMMA HistogramCountsAll ==
  ASSUME NEW data \in Seq(Byte)
  PROVE  SumFunction(Histogram(data)) = Len(data)
<1>1. PICK l \in Nat : l = Len(data)
  OBVIOUS
<1>2. PICK n \in Nat \ {0} : n = Power(2, BITS) /\ Byte = 0 .. n - 1
  BY ByteRange, Zenon
<1>3. PICK w \in Seq(Nat) : Len(w) = n /\ \A j \in 1 .. n : w[j] = 1
  <2>1. [j \in 1 .. n |-> 1] \in Seq(Nat) /\ Len([j \in 1 .. n |-> 1]) = n
        /\ \A j \in 1 .. n : [i \in 1 .. n |-> 1][j] = 1
    OBVIOUS
  <2>2. QED
    BY <2>1, Zenon
<1>4. \A b \in Byte : w[b + 1] = 1
  BY <1>2, <1>3
<1>5. PICK h : h = Histogram(data)
  BY Zenon
<1>6. DOMAIN h = Byte /\ \A b \in Byte : h[b] = Count(data, l, b)
  BY <1>1, <1>5, Zenon DEF Histogram, Count
<1>7. ASSUME NEW b \in Byte PROVE h[b] = h[b] * w[b + 1]
  <2>1. PICK c \in Nat : c = h[b]
    BY <1>6, CountIsNat, Zenon
  <2>2. c = c * 1
    OBVIOUS
  <2>3. QED
    BY <1>4, <2>1, <2>2, Zenon
<1>8. PICK g : g = [k \in 0 .. l |-> k]
  BY Zenon
<1>9. g[0] = 0 /\ g[l] = l
  <2>1. 0 \in 0 .. l /\ l \in 0 .. l
    OBVIOUS
  <2>2. QED
    BY <1>8, <2>1, Zenon
<1>10. ASSUME NEW k \in 1 .. l PROVE g[k] = g[k - 1] + w[data[k] + 1]
  <2>1. k \in 0 .. l /\ k - 1 \in 0 .. l /\ k = (k - 1) + 1
    OBVIOUS
  <2>2. data[k] \in Byte
    BY <1>1
  <2>3. QED
    BY <1>4, <1>8, <2>1, <2>2, Zenon
<1>11. SumFunction(h) = g[l]
  BY <1>1, <1>2, <1>3, <1>5, <1>6, <1>7, <1>9, <1>10, HistogramSum, Zenon
<1>12. QED
  BY <1>1, <1>5, <1>9, <1>11, Zenon

LEMMA OnesAreCounted ==
  ASSUME NEW data \in Seq(Nat)
  PROVE  Ones(data) = Count(Stream(data), BITS * Len(data), 1)
<1>1. PICK n \in Nat, s \in Seq({0, 1}) :
        n = BITS * Len(data) /\ s = Stream(data) /\ Len(s) = n
  BY StreamIs, Zenon
<1>2. DOMAIN s = 1 .. n
  BY <1>1
<1>3. QED
  BY <1>1, <1>2, Zenon DEF Ones, Count

LEMMA OneByte ==
  ASSUME NEW b \in Nat
  PROVE  /\ << b >> \in Seq(Nat)
         /\ \A i \in 1 .. BITS : Stream(<< b >>)[i] = Bit(b, i - 1)
         /\ Ones(<< b >>) = Count(Stream(<< b >>), BITS, 1) /\ Ones(<< b >>) \in Nat
<1>1. PICK d \in Seq(Nat) : d = << b >> /\ Len(d) = 1 /\ d[1] = b
  <2>1. << b >> \in Seq(Nat) /\ Len(<< b >>) = 1 /\ << b >>[1] = b
    OBVIOUS
  <2>2. QED
    BY <2>1, Zenon
<1>2. PICK m \in Nat : m = BITS /\ m * Len(d) = m /\ m * (1 - 1) = 0
  <2>1. BITS * 1 = BITS /\ BITS * (1 - 1) = 0 /\ BITS \in Nat
    BY BitsAssumption
  <2>2. QED
    BY <1>1, <2>1, Zenon
<1>3. ASSUME NEW i \in 1 .. m PROVE Stream(d)[i] = Bit(b, i - 1)
  <2>1. 1 \in 1 .. Len(d)
    BY <1>1
  <2>2. Stream(d)[BITS * (1 - 1) + i] = Bit(d[1], i - 1)
    BY <1>2, <2>1, StreamIs, Zenon
  <2>3. 0 + i = i
    OBVIOUS
  <2>4. QED
    BY <1>1, <1>2, <2>2, <2>3, Zenon
<1>4. Ones(d) = Count(Stream(d), m, 1)
  BY <1>2, OnesAreCounted, Zenon
<1>5. Ones(d) \in Nat
  BY <1>4, CountIsNat, Zenon
<1>6. QED
  BY <1>1, <1>2, <1>3, <1>4, <1>5, Zenon

LEMMA BytesOnesAddUp ==
  ASSUME NEW data \in Seq(Byte)
  PROVE  Ones(data) = SumFunction([b \in Byte |-> Histogram(data)[b] * Ones(<< b >>)])
<1>1. PICK l \in Nat : l = Len(data)
  OBVIOUS
<1>2. PICK n \in Nat \ {0} : n = Power(2, BITS) /\ Byte = 0 .. n - 1
  BY ByteRange, Zenon
<1>3. PICK m \in Nat : m = BITS
  BY BitsAssumption
<1>4. data \in Seq(Nat) /\ \A k \in 1 .. l : data[k] \in Byte
  <2>1. data = [k \in 1 .. l |-> data[k]] /\ \A k \in 1 .. l : data[k] \in Byte
    BY <1>1
  <2>2. data \in [1 .. l -> Nat]
    BY <2>1, BytesAreNat, Zenon
  <2>3. QED
    BY <2>1, <2>2
<1>5. PICK w : w = [j \in 1 .. n |-> Ones(<< j - 1 >>)]
  BY Zenon
<1>6. w \in Seq(Nat) /\ Len(w) = n
  <2>1. ASSUME NEW j \in 1 .. n PROVE Ones(<< j - 1 >>) \in Nat
    <3>1. PICK b \in Nat : b = j - 1
      OBVIOUS
    <3>2. QED
      BY <3>1, OneByte, Zenon
  <2>2. w \in [1 .. n -> Nat]
    BY <1>5, <2>1, Zenon
  <2>3. QED
    BY <2>2
<1>7. ASSUME NEW b \in Byte PROVE w[b + 1] = Ones(<< b >>)
  <2>1. b + 1 \in 1 .. n /\ (b + 1) - 1 = b
    BY <1>2
  <2>2. QED
    BY <1>5, <2>1, Zenon
<1>8. PICK f : f = [b \in Byte |-> Histogram(data)[b] * Ones(<< b >>)]
  BY Zenon
<1>9. DOMAIN f = Byte /\ \A b \in Byte : f[b] = Histogram(data)[b] * w[b + 1]
  BY <1>7, <1>8, Zenon
<1>10. PICK s : s = Stream(data)
  BY Zenon
<1>11. PICK g : g = [k \in 0 .. l |-> Count(s, m * k, 1)]
  BY Zenon
<1>12. g[0] = 0 /\ g[l] = Count(s, m * l, 1)
  <2>1. 0 \in 0 .. l /\ l \in 0 .. l /\ m * 0 = 0
    OBVIOUS
  <2>2. QED
    BY <1>11, <2>1, NoneIsCounted, Zenon
<1>13. ASSUME NEW k \in 1 .. l PROVE g[k] = g[k - 1] + w[data[k] + 1]
  <2>1. k \in 0 .. l /\ k - 1 \in 0 .. l /\ m * k = m * (k - 1) + m
    OBVIOUS
  <2>2. PICK p \in Nat : p = m * (k - 1)
    <3>1. k - 1 \in Nat
      OBVIOUS
    <3>2. m * (k - 1) \in Nat
      BY <3>1
    <3>3. QED
      BY <3>2, Zenon
  <2>3. PICK b \in Byte : b = data[k]
    BY <1>4, Zenon
  <2>4. b \in Nat
    BY BytesAreNat
  <2>5. \A i \in 1 .. m : s[p + i] = Stream(<< b >>)[i]
    <3>1. \A i \in 1 .. m : s[p + i] = Bit(b, i - 1)
      BY <1>1, <1>3, <1>4, <1>10, <2>2, <2>3, StreamIs, Zenon
    <3>2. QED
      BY <1>3, <2>4, <3>1, OneByte, Zenon
  <2>6. Count(s, p + m, 1) = Count(s, p, 1) + Count(Stream(<< b >>), m, 1)
    BY <2>5, CountContinues
  <2>7. Count(Stream(<< b >>), m, 1) = w[b + 1]
    BY <1>3, <1>7, <2>4, OneByte, Zenon
  <2>8. g[k] = Count(s, p + m, 1) /\ g[k - 1] = Count(s, p, 1)
    BY <1>11, <2>1, <2>2, Zenon
  <2>9. QED
    BY <2>3, <2>6, <2>7, <2>8, Zenon
<1>14. SumFunction(f) = g[l]
  BY <1>1, <1>2, <1>6, <1>9, <1>12, <1>13, HistogramSum, Zenon
<1>15. Ones(data) = Count(s, m * l, 1)
  BY <1>1, <1>3, <1>4, <1>10, OnesAreCounted, Zenon
<1>16. QED
  BY <1>8, <1>12, <1>14, <1>15, Zenon

-----------------------------------------------------------------------------
(* The runs of equal bits: what the fold of entropy_stats_runs is after every
   bit. *)
BitStep(r, bit) ==
  [prev |-> bit, runs |-> IF bit = r.prev THEN r.runs ELSE r.runs + 1]

NoBit == [prev |-> -1, runs |-> 0]

IsBitFold(it, s, N) ==
  it = [S \in SUBSET N |-> IF S = {} THEN NoBit
                           ELSE BitStep(it[S \ {Max(S)}], s[Max(S)])]

LEMMA BitFoldExists ==
  ASSUME NEW s, NEW n \in Nat
  PROVE  \E it : IsBitFold(it, s, 1 .. n)
<1> DEFINE T == { k \in Nat : ~\E it : IsBitFold(it, s, 1 .. k) }
<1>1. SUFFICES ASSUME T # {} PROVE FALSE
  BY Zenon
<1>2. PICK m \in T : \A k \in T : m <= k
  BY <1>1, LeastOf, Zenon
<1>3. CASE m = 0
  <2> DEFINE it == [S \in SUBSET {} |-> NoBit]
  <2>1. 1 .. 0 = {} /\ \A S \in SUBSET {} : S = {}
    OBVIOUS
  <2>2. it = [S \in SUBSET {} |-> IF S = {} THEN NoBit
                                  ELSE BitStep(it[S \ {Max(S)}], s[Max(S)])]
    BY <2>1, Zenon
  <2>3. IsBitFold(it, s, 1 .. m)
    BY <1>3, <2>1, <2>2, Zenon DEF IsBitFold
  <2>4. QED
    BY <1>2, <2>3, Zenon
<1>4. CASE m # 0
  <2>1. m - 1 \in Nat /\ m - 1 < m /\ m \in Nat
    BY <1>4
  <2>2. m - 1 \notin T
    BY <1>2, <2>1
  <2>3. PICK it : IsBitFold(it, s, 1 .. m - 1)
    BY <2>1, <2>2, Zenon
  <2> DEFINE f == [S \in SUBSET (1 .. m) |->
                     IF m \in S THEN BitStep(it[S \ {m}], s[m]) ELSE it[S]]
  <2>4. ASSUME NEW S \in SUBSET (1 .. m)
        PROVE  f[S] = IF S = {} THEN NoBit
                      ELSE BitStep(f[S \ {Max(S)}], s[Max(S)])
    <3>1. S \ {Max(S)} \in SUBSET (1 .. m)
      OBVIOUS
    <3>2. CASE m \in S
      <4>1. Max(S) = m
        BY <2>1, <3>2, MaxIs
      <4>2. f[S] = BitStep(it[S \ {m}], s[m]) /\ f[S \ {m}] = it[S \ {m}]
        BY <3>1, <3>2, <4>1, Zenon
      <4>3. QED
        BY <3>2, <4>1, <4>2, Zenon
    <3>3. CASE m \notin S
      <4>1. S \in SUBSET (1 .. m - 1)
        BY <2>1, <3>3
      <4>2. it[S] = IF S = {} THEN NoBit ELSE BitStep(it[S \ {Max(S)}], s[Max(S)])
        BY <2>3, <4>1, Zenon DEF IsBitFold
      <4>3. f[S] = it[S] /\ f[S \ {Max(S)}] = it[S \ {Max(S)}]
        BY <3>1, <3>3, Zenon
      <4>4. QED
        BY <4>2, <4>3, Zenon
    <3>4. QED
      BY <3>2, <3>3, Zenon
  <2>5. IsBitFold(f, s, 1 .. m)
    BY <2>4, Zenon DEF IsBitFold
  <2>6. QED
    BY <1>2, <2>5, Zenon
<1>5. QED
  BY <1>3, <1>4, Zenon

LEMMA BitsAreFolded ==
  ASSUME NEW data \in Seq(Nat)
  PROVE  LET s == Stream(data) IN
         \E R : /\ R[0] = NoBit
                /\ \A j \in 1 .. Len(s) : R[j] = BitStep(R[j - 1], s[j])
                /\ ObservedRuns(data) = R[Len(s)].runs
<1>1. PICK n \in Nat, s \in Seq({0, 1}) : n = Len(s) /\ s = Stream(data)
  BY StreamIs, Zenon
<1>2. DOMAIN s = 1 .. n
  BY <1>1
<1> DEFINE it == CHOOSE it : IsBitFold(it, Stream(data), DOMAIN Stream(data))
<1>3. ObservedRuns(data) = it[DOMAIN Stream(data)].runs
  BY Zenon DEF ObservedRuns, FoldLeft, MapThenFoldSet, IsBitFold, BitStep, NoBit
<1>4. IsBitFold(it, s, 1 .. n)
  <2>1. \E f : IsBitFold(f, s, 1 .. n)
    BY BitFoldExists, Zenon
  <2>2. QED
    BY <1>1, <1>2, <2>1, Zenon
<1> HIDE DEF it
<1> DEFINE R == [j \in 0 .. n |-> it[1 .. j]]
<1>5. R[0] = NoBit
  <2>1. 1 .. 0 = {} /\ 0 \in 0 .. n /\ {} \in SUBSET (1 .. n)
    OBVIOUS
  <2>2. it[{}] = NoBit
    BY <1>4, <2>1, Zenon DEF IsBitFold
  <2>3. QED
    BY <2>1, <2>2, Zenon
<1>6. ASSUME NEW j \in 1 .. n PROVE R[j] = BitStep(R[j - 1], s[j])
  <2>1. j \in 1 .. j /\ 1 .. j \in SUBSET Nat /\ \A y \in 1 .. j : j >= y
    OBVIOUS
  <2>2. /\ 1 .. j \in SUBSET (1 .. n) /\ j \in 0 .. n /\ j - 1 \in 0 .. n
        /\ (1 .. j) \ {j} = 1 .. j - 1
    OBVIOUS
  <2>3. Max(1 .. j) = j /\ 1 .. j # {}
    BY <2>1, MaxIs, Zenon
  <2>4. it[1 .. j] = BitStep(it[(1 .. j) \ {j}], s[j])
    BY <1>4, <2>2, <2>3, Zenon DEF IsBitFold
  <2>5. R[j] = it[1 .. j] /\ R[j - 1] = it[1 .. j - 1]
    BY <2>2, Zenon
  <2>6. QED
    BY <2>2, <2>4, <2>5, Zenon
<1>7. ObservedRuns(data) = R[n].runs
  <2>1. n \in 0 .. n
    OBVIOUS
  <2>2. QED
    BY <1>1, <1>2, <1>3, <2>1, Zenon
<1> HIDE DEF R
<1>8. QED
  BY <1>1, <1>5, <1>6, <1>7, Zenon

Changes(s, k) == { i \in 2 .. k : s[i] # s[i - 1] }

LEMMA ChangesGrow ==
  ASSUME NEW s, NEW k \in Nat \ {0}
  PROVE  /\ Cardinality(Changes(s, k)) \in Nat
         /\ s[k + 1] = s[k] =>
              Cardinality(Changes(s, k + 1)) = Cardinality(Changes(s, k))
         /\ s[k + 1] # s[k] =>
              Cardinality(Changes(s, k + 1)) = Cardinality(Changes(s, k)) + 1
<1>1. IsFiniteSet(Changes(s, k))
  <2>1. 2 \in Int /\ k \in Int
    OBVIOUS
  <2>2. IsFiniteSet(2 .. k)
    BY <2>1, FS_Interval, Zenon
  <2>3. Changes(s, k) \in SUBSET (2 .. k)
    BY DEF Changes
  <2>4. QED
    BY <2>2, <2>3, FS_Subset, Zenon
<1>2. 2 .. k + 1 = (2 .. k) \cup {k + 1} /\ k + 1 \notin 2 .. k /\ (k + 1) - 1 = k
  OBVIOUS
<1>3. k + 1 \notin Changes(s, k)
  BY <1>2, Zenon DEF Changes
<1>4. s[k + 1] = s[k] => Changes(s, k + 1) = Changes(s, k)
  BY <1>2, Zenon DEF Changes
<1>5. s[k + 1] # s[k] => Changes(s, k + 1) = Changes(s, k) \cup {k + 1}
  BY <1>2, Zenon DEF Changes
<1>6. Cardinality(Changes(s, k) \cup {k + 1}) = Cardinality(Changes(s, k)) + 1
  BY <1>1, <1>3, FS_AddElement, Zenon
<1>7. QED
  BY <1>1, <1>4, <1>5, <1>6, FS_CardinalityType, Zenon

LEMMA RunsAreChanges ==
  ASSUME NEW data \in Seq(Nat), data # << >>
  PROVE  ObservedRuns(data) =
           1 + Cardinality({ i \in 2 .. Len(Stream(data)) :
                               Stream(data)[i] # Stream(data)[i - 1] })
<1>1. PICK s \in Seq({0, 1}) : s = Stream(data) /\ Len(s) = BITS * Len(data)
  BY StreamIs, Zenon
<1>2. PICK n \in Nat \ {0} : n = Len(s)
  <2>1. BITS \in Nat \ {0}
    BY BitsAssumption
  <2>2. Len(data) \in Nat \ {0}
    OBVIOUS
  <2>3. PICK b \in Nat \ {0} : b = BITS
    BY <2>1, Zenon
  <2>4. PICK l \in Nat \ {0} : l = Len(data)
    BY <2>2, Zenon
  <2>5. b * l \in Nat \ {0}
    OBVIOUS
  <2>6. QED
    BY <1>1, <2>3, <2>4, <2>5, Zenon
<1>3. PICK R : /\ R[0] = NoBit
               /\ \A j \in 1 .. n : R[j] = BitStep(R[j - 1], s[j])
               /\ ObservedRuns(data) = R[n].runs
  BY <1>1, <1>2, BitsAreFolded, Zenon
<1> DEFINE C(k) == Cardinality(Changes(s, k))
           P(k) == R[k].prev = s[k] /\ R[k].runs = 1 + C(k)
           T == { k \in Nat : k \in 1 .. n /\ ~P(k) }
<1>4. \A j \in 1 .. n :
        /\ R[j].prev = s[j]
        /\ R[j].runs = IF s[j] = R[j - 1].prev THEN R[j - 1].runs ELSE R[j - 1].runs + 1
  <2>1. ASSUME NEW r, NEW bit
        PROVE  /\ BitStep(r, bit).prev = bit
               /\ BitStep(r, bit).runs = IF bit = r.prev THEN r.runs ELSE r.runs + 1
    BY DEF BitStep
  <2>2. TAKE j \in 1 .. n
  <2>3. PICK r : r = R[j - 1]
    BY Zenon
  <2>4. R[j] = BitStep(r, s[j])
    BY <1>3, <2>3, Zenon
  <2>5. R[j].prev = s[j]
    BY <2>4 DEF BitStep
  <2>6. R[j].runs = IF s[j] = r.prev THEN r.runs ELSE r.runs + 1
    BY <2>1, <2>4
  <2>7. QED
    BY <2>3, <2>5, <2>6, Zenon
<1>5. P(1)
  <2>1. 1 \in 1 .. n /\ 1 - 1 = 0 /\ s[1] # -1
    BY <1>1, <1>2
  <2>2. R[0].prev = -1 /\ R[0].runs = 0
    BY <1>3 DEF NoBit
  <2>3. R[1].prev = s[1] /\ R[1].runs = 0 + 1
    BY <1>4, <2>1, <2>2, Zenon
  <2>4. C(1) = 0
    <3>1. Changes(s, 1) = {}
      BY DEF Changes
    <3>2. QED
      BY <3>1, FS_EmptySet, Zenon
  <2>5. 0 + 1 = 1 + 0
    OBVIOUS
  <2>6. QED
    BY <2>3, <2>4, <2>5, Zenon
<1>6. T = {}
  <2>1. SUFFICES ASSUME T # {} PROVE FALSE
    BY Zenon
  <2>2. PICK m \in T : \A k \in T : m <= k
    BY <2>1, LeastOf, Zenon
  <2>3. m # 1
    BY <1>5, <2>2, Zenon
  <2>4. PICK j \in Nat \ {0} : j + 1 = m /\ m - 1 = j /\ j \in 1 .. n /\ m \in 1 .. n
    <3>1. m \in 1 .. n
      BY <2>2, Zenon
    <3>2. m - 1 \in Nat \ {0} /\ (m - 1) + 1 = m /\ m - 1 \in 1 .. n
      BY <2>3, <3>1
    <3>3. QED
      BY <3>1, <3>2, Zenon
  <2>5. j \notin T
    <3>1. ~(m <= j)
      BY <2>4
    <3>2. QED
      BY <2>2, <3>1, Zenon
  <2>6. P(j)
    BY <2>4, <2>5, Zenon
  <2>7. PICK c \in Nat : c = C(j)
    BY ChangesGrow, Zenon
  <2>8. /\ R[m].prev = s[m]
        /\ R[m].runs = IF s[m] = s[j] THEN 1 + c ELSE (1 + c) + 1
    <3>1. /\ R[m].prev = s[m]
          /\ R[m].runs = IF s[m] = R[m - 1].prev THEN R[m - 1].runs ELSE R[m - 1].runs + 1
      BY <1>4, <2>4, Zenon
    <3>2. R[m - 1].prev = s[j] /\ R[m - 1].runs = 1 + C(j)
      BY <2>4, <2>6, Zenon
    <3>3. R[m - 1].runs = 1 + c
      BY <2>7, <3>2, Zenon
    <3>4. QED
      BY <3>1, <3>2, <3>3, Zenon
  <2>9. /\ s[m] = s[j] => C(m) = c
        /\ s[m] # s[j] => C(m) = c + 1
    BY <2>4, <2>7, ChangesGrow, Zenon
  <2>10. (1 + c) + 1 = 1 + (c + 1)
    OBVIOUS
  <2>11. P(m)
    <3>1. CASE s[m] = s[j]
      BY <2>8, <2>9, <3>1, Zenon
    <3>2. CASE s[m] # s[j]
      BY <2>8, <2>9, <2>10, <3>2, Zenon
    <3>3. QED
      BY <3>1, <3>2, Zenon
  <2>12. QED
    BY <2>2, <2>11, Zenon
<1>7. n \in 1 .. n /\ n \in Nat
  OBVIOUS
<1>8. P(n)
  BY <1>6, <1>7, Zenon
<1>9. QED
  BY <1>1, <1>2, <1>3, <1>8, Zenon DEF Changes

-----------------------------------------------------------------------------
(* Induction up to n over a set of numbers. *)
LEMMA UpTo ==
  ASSUME NEW n \in Nat, NEW S, 0 \in S, \A k \in 1 .. n : k - 1 \in S => k \in S
  PROVE  \A k \in 0 .. n : k \in S
<1> DEFINE T == { k \in Nat : k <= n /\ k \notin S }
<1>1. SUFFICES ASSUME T # {} PROVE FALSE
  <2>1. \A k \in 0 .. n : k \in Nat /\ k <= n
    OBVIOUS
  <2>2. QED
    BY <1>1, <2>1, Zenon
<1>2. PICK m \in T : \A k \in T : m <= k
  BY <1>1, LeastOf, Zenon
<1>3. m # 0
  BY <1>2, Zenon
<1>4. m \in 1 .. n /\ m - 1 \in Nat /\ m - 1 <= n /\ ~(m <= m - 1)
  BY <1>3
<1>5. m - 1 \in S
  BY <1>2, <1>4, Zenon
<1>6. QED
  BY <1>2, <1>4, <1>5, Zenon

(* The partial sums of n numbers x and of their squares. *)
Series(x, v, q, n) ==
  /\ v[0] = 0 /\ q[0] = 0
  /\ \A k \in 0 .. n : v[k] \in Int /\ q[k] \in Int
  /\ \A k \in 1 .. n : x[k] \in Int /\ v[k] = v[k - 1] + x[k] /\ q[k] = q[k - 1] + x[k] * x[k]

LEMMA SquareIsNat == \A d \in Int : d * d >= 0
OBVIOUS

LEMMA SpreadStep ==
  ASSUME NEW m \in Int, NEW a \in Int, NEW x \in Int, NEW v \in Int, NEW q \in Int,
         q + (m - 1) * (a * a) - 2 * (a * v) >= 0
  PROVE  (q + x * x) + m * (a * a) - 2 * (a * (v + x)) >= 0
<1>1. (x - a) * (x - a) >= 0
  BY SquareIsNat
<1>2. (x - a) * (x - a) = x * x - 2 * (a * x) + a * a
  OBVIOUS
<1>3. a * (v + x) = a * v + a * x
  OBVIOUS
<1>4. (m - 1) * (a * a) = m * (a * a) - a * a
  OBVIOUS
<1>5. QED
  BY <1>1, <1>2, <1>3, <1>4

LEMMA Spread ==
  ASSUME NEW n \in Nat, NEW x, NEW v, NEW q, Series(x, v, q, n), NEW a \in Int
  PROVE  \A k \in 0 .. n : q[k] + k * (a * a) - 2 * (a * v[k]) >= 0
<1> DEFINE S == { k \in 0 .. n : q[k] + k * (a * a) - 2 * (a * v[k]) >= 0 }
<1>1. 0 \in S
  <2>1. 0 + 0 * (a * a) - 2 * (a * 0) >= 0 /\ 0 \in 0 .. n
    OBVIOUS
  <2>2. QED
    BY <2>1, Zenon DEF Series
<1>2. ASSUME NEW k \in 1 .. n, k - 1 \in S PROVE k \in S
  <2>1. PICK j \in 0 .. n : j = k - 1 /\ k \in 0 .. n
    <3>1. k - 1 \in 0 .. n /\ k \in 0 .. n
      OBVIOUS
    <3>2. QED
      BY <3>1, Zenon
  <2>2. PICK y \in Int, u \in Int, p \in Int : y = x[k] /\ u = v[j] /\ p = q[j]
    BY <2>1, Zenon DEF Series
  <2>3. v[k] = u + y /\ q[k] = p + y * y
    BY <2>1, <2>2, Zenon DEF Series
  <2>4. p + (k - 1) * (a * a) - 2 * (a * u) >= 0
    BY <1>2, <2>1, <2>2, Zenon
  <2>5. (p + y * y) + k * (a * a) - 2 * (a * (u + y)) >= 0
    BY <2>4, SpreadStep
  <2>6. QED
    BY <2>1, <2>3, <2>5, Zenon
<1>3. \A k \in 0 .. n : k \in S
  BY <1>1, <1>2, UpTo, Zenon
<1>4. QED
  BY <1>3, Zenon

LEMMA CauchyStep ==
  ASSUME NEW m \in Int, NEW x \in Int, NEW v \in Int, NEW q \in Int,
         (m - 1) * q - v * v >= 0,
         q + (m - 1) * (x * x) - 2 * (x * v) >= 0
  PROVE  m * (q + x * x) - (v + x) * (v + x) >= 0
<1>1. m * (q + x * x) = (m - 1) * q + q + (m - 1) * (x * x) + x * x
  OBVIOUS
<1>2. (v + x) * (v + x) = v * v + 2 * (x * v) + x * x
  OBVIOUS
<1>3. QED
  BY <1>1, <1>2

(* The square of a sum of n numbers is at most n times the sum of their
   squares. *)
LEMMA CauchySchwarz ==
  ASSUME NEW n \in Nat, NEW x, NEW v, NEW q, Series(x, v, q, n)
  PROVE  n * q[n] - v[n] * v[n] >= 0
<1> DEFINE S == { k \in 0 .. n : k * q[k] - v[k] * v[k] >= 0 }
<1>1. 0 \in S
  <2>1. 0 * 0 - 0 * 0 >= 0 /\ 0 \in 0 .. n
    OBVIOUS
  <2>2. QED
    BY <2>1, Zenon DEF Series
<1>2. ASSUME NEW k \in 1 .. n, k - 1 \in S PROVE k \in S
  <2>1. PICK j \in 0 .. n : j = k - 1 /\ k \in 0 .. n
    <3>1. k - 1 \in 0 .. n /\ k \in 0 .. n
      OBVIOUS
    <3>2. QED
      BY <3>1, Zenon
  <2>2. PICK y \in Int, u \in Int, p \in Int : y = x[k] /\ u = v[j] /\ p = q[j]
    BY <2>1, Zenon DEF Series
  <2>3. v[k] = u + y /\ q[k] = p + y * y
    BY <2>1, <2>2, Zenon DEF Series
  <2>4. (k - 1) * p - u * u >= 0
    BY <1>2, <2>1, <2>2, Zenon
  <2>5. p + (k - 1) * (y * y) - 2 * (y * u) >= 0
    <3>1. q[j] + j * (y * y) - 2 * (y * v[j]) >= 0
      BY Spread
    <3>2. QED
      BY <2>1, <2>2, <3>1, Zenon
  <2>6. k * (p + y * y) - (u + y) * (u + y) >= 0
    BY <2>4, <2>5, CauchyStep
  <2>7. QED
    BY <2>1, <2>3, <2>6, Zenon
<1>3. n \in S
  <2>1. \A k \in 0 .. n : k \in S
    BY <1>1, <1>2, UpTo, Zenon
  <2>2. n \in 0 .. n
    OBVIOUS
  <2>3. QED
    BY <2>1, <2>2, Zenon
<1>4. QED
  BY <1>3, Zenon

(* The same, and the sum of the products of neighbours, around a circle of n
   numbers y, the last of which is the first again. *)
Circle(y, v, q, r, n) ==
  /\ y[n] = y[0] /\ v[0] = 0 /\ q[0] = 0 /\ r[0] = 0
  /\ \A k \in 0 .. n : y[k] \in Int /\ v[k] \in Int /\ q[k] \in Int /\ r[k] \in Int
  /\ \A k \in 1 .. n : /\ v[k] = v[k - 1] + y[k - 1]
                       /\ q[k] = q[k - 1] + y[k - 1] * y[k - 1]
                       /\ r[k] = r[k - 1] + y[k - 1] * y[k]

LEMMA CircleStep ==
  ASSUME NEW x \in Int, NEW y \in Int, NEW f \in Int, NEW q \in Int, NEW r \in Int,
         2 * q - 2 * r + x * x - f >= 0
  PROVE  2 * (q + x * x) - 2 * (r + x * y) + y * y - f >= 0
<1>1. (x - y) * (x - y) >= 0
  BY SquareIsNat
<1>2. (x - y) * (x - y) = x * x - 2 * (x * y) + y * y
  OBVIOUS
<1>3. QED
  BY <1>1, <1>2

LEMMA NeighboursBelowSquares ==
  ASSUME NEW n \in Nat, NEW y, NEW v, NEW q, NEW r, Circle(y, v, q, r, n)
  PROVE  r[n] <= q[n]
<1>1. PICK f \in Int : f = y[0] * y[0]
  <2>1. 0 \in 0 .. n
    OBVIOUS
  <2>2. PICK g \in Int : g = y[0]
    BY <2>1, Zenon DEF Circle
  <2>3. g * g \in Int
    OBVIOUS
  <2>4. QED
    BY <2>2, <2>3, Zenon
<1> DEFINE S == { k \in 0 .. n : 2 * q[k] - 2 * r[k] + y[k] * y[k] - f >= 0 }
<1>2. 0 \in S
  <2>1. 2 * 0 - 2 * 0 + f - f >= 0 /\ 0 \in 0 .. n
    OBVIOUS
  <2>2. QED
    BY <1>1, <2>1, Zenon DEF Circle
<1>3. ASSUME NEW k \in 1 .. n, k - 1 \in S PROVE k \in S
  <2>1. PICK j \in 0 .. n : j = k - 1 /\ k \in 0 .. n
    <3>1. k - 1 \in 0 .. n /\ k \in 0 .. n
      OBVIOUS
    <3>2. QED
      BY <3>1, Zenon
  <2>2. PICK b \in Int, c \in Int, p \in Int, s \in Int :
          b = y[j] /\ c = y[k] /\ p = q[j] /\ s = r[j]
    BY <2>1, Zenon DEF Circle
  <2>3. q[k] = p + b * b /\ r[k] = s + b * c
    BY <2>1, <2>2, Zenon DEF Circle
  <2>4. 2 * p - 2 * s + b * b - f >= 0
    BY <1>3, <2>1, <2>2, Zenon
  <2>5. 2 * (p + b * b) - 2 * (s + b * c) + c * c - f >= 0
    BY <2>4, CircleStep
  <2>6. QED
    BY <2>1, <2>2, <2>3, <2>5, Zenon
<1>4. n \in S /\ n \in 0 .. n
  <2>1. \A k \in 0 .. n : k \in S
    BY <1>2, <1>3, UpTo, Zenon
  <2>2. n \in 0 .. n
    OBVIOUS
  <2>3. QED
    BY <2>1, <2>2, Zenon
<1>5. y[n] * y[n] = f
  BY <1>1, Zenon DEF Circle
<1>6. PICK s \in Int, p \in Int : s = r[n] /\ p = q[n]
  BY <1>4, Zenon DEF Circle
<1>7. 2 * p - 2 * s + f - f >= 0
  BY <1>4, <1>5, <1>6, Zenon
<1>8. s <= p
  BY <1>7
<1>9. QED
  BY <1>6, <1>8, Zenon

LEMMA PairsAreSeries ==
  ASSUME NEW n \in Nat, NEW y, NEW v, NEW q, NEW r, Circle(y, v, q, r, n)
  PROVE  n * (2 * q[n] + 2 * r[n]) - (2 * v[n]) * (2 * v[n]) >= 0
<1>1. PICK g \in Int : g = y[0]
  <2>1. 0 \in 0 .. n
    OBVIOUS
  <2>2. QED
    BY <2>1, Zenon DEF Circle
<1>2. PICK f \in Int : f = g * g
  OBVIOUS
<1>3. PICK x : x = [k \in 1 .. n |-> y[k - 1] + y[k]]
  BY Zenon
<1>4. PICK z : z = [k \in 0 .. n |-> 2 * v[k] - g + y[k]]
  BY Zenon
<1>5. PICK s : s = [k \in 0 .. n |-> 2 * q[k] + 2 * r[k] - f + y[k] * y[k]]
  BY Zenon
<1>6. z[0] = 0 /\ s[0] = 0
  <2>1. 2 * 0 - g + g = 0 /\ 2 * 0 + 2 * 0 - f + f = 0 /\ 0 \in 0 .. n
    OBVIOUS
  <2>2. z[0] = 2 * v[0] - g + y[0] /\ s[0] = 2 * q[0] + 2 * r[0] - f + y[0] * y[0]
    BY <1>4, <1>5, <2>1, Zenon
  <2>3. QED
    BY <1>1, <1>2, <2>1, <2>2, Zenon DEF Circle
<1>7. ASSUME NEW k \in 0 .. n PROVE z[k] \in Int /\ s[k] \in Int
  <2>1. PICK b \in Int, u \in Int, p \in Int, t \in Int :
          b = y[k] /\ u = v[k] /\ p = q[k] /\ t = r[k]
    BY Zenon DEF Circle
  <2>2. z[k] = 2 * u - g + b /\ s[k] = 2 * p + 2 * t - f + b * b
    BY <1>4, <1>5, <2>1, Zenon
  <2>3. 2 * u - g + b \in Int /\ 2 * p + 2 * t - f + b * b \in Int
    OBVIOUS
  <2>4. QED
    BY <2>2, <2>3, Zenon
<1>8. ASSUME NEW k \in 1 .. n
      PROVE  x[k] \in Int /\ z[k] = z[k - 1] + x[k] /\ s[k] = s[k - 1] + x[k] * x[k]
  <2>1. PICK j \in 0 .. n : j = k - 1 /\ k \in 0 .. n
    <3>1. k - 1 \in 0 .. n /\ k \in 0 .. n
      OBVIOUS
    <3>2. QED
      BY <3>1, Zenon
  <2>2. PICK b \in Int, c \in Int, u \in Int, p \in Int, t \in Int :
          b = y[j] /\ c = y[k] /\ u = v[j] /\ p = q[j] /\ t = r[j]
    BY <2>1, Zenon DEF Circle
  <2>3. v[k] = u + b /\ q[k] = p + b * b /\ r[k] = t + b * c
    BY <2>1, <2>2, Zenon DEF Circle
  <2>4. /\ x[k] = b + c
        /\ z[j] = 2 * u - g + b /\ s[j] = 2 * p + 2 * t - f + b * b
        /\ z[k] = 2 * (u + b) - g + c
        /\ s[k] = 2 * (p + b * b) + 2 * (t + b * c) - f + c * c
    BY <1>3, <1>4, <1>5, <2>1, <2>2, <2>3, Zenon
  <2>5. /\ b + c \in Int
        /\ 2 * (u + b) - g + c = (2 * u - g + b) + (b + c)
    OBVIOUS
  <2>6. 2 * (p + b * b) + 2 * (t + b * c) - f + c * c
          = (2 * p + 2 * t - f + b * b) + (b + c) * (b + c)
    OBVIOUS
  <2>7. QED
    BY <2>1, <2>4, <2>5, <2>6, Zenon
<1>9. Series(x, z, s, n)
  BY <1>6, <1>7, <1>8, Zenon DEF Series
<1>10. n * s[n] - z[n] * z[n] >= 0
  BY <1>9, CauchySchwarz
<1>11. PICK u \in Int, p \in Int, t \in Int : u = v[n] /\ p = q[n] /\ t = r[n] /\ n \in 0 .. n
  <2>1. n \in 0 .. n
    OBVIOUS
  <2>2. QED
    BY <2>1, Zenon DEF Circle
<1>12. z[n] = 2 * u /\ s[n] = 2 * p + 2 * t
  <2>1. z[n] = 2 * u - g + g /\ s[n] = 2 * p + 2 * t - f + f
    BY <1>1, <1>2, <1>4, <1>5, <1>11, Zenon DEF Circle
  <2>2. 2 * u - g + g = 2 * u /\ 2 * p + 2 * t - f + f = 2 * p + 2 * t
    OBVIOUS
  <2>3. QED
    BY <2>1, <2>2, Zenon
<1>13. QED
  BY <1>10, <1>11, <1>12, Zenon

(* The covariance is at most the variance, and at least its opposite. *)
LEMMA Correlation ==
  ASSUME NEW n \in Nat, NEW y, NEW v, NEW q, NEW r, Circle(y, v, q, r, n)
  PROVE  LET num == n * r[n] - v[n] * v[n]
             den == n * q[n] - v[n] * v[n]
         IN  -den <= num /\ num <= den
<1>1. PICK u \in Int, p \in Int, t \in Int : u = v[n] /\ p = q[n] /\ t = r[n]
  <2>1. n \in 0 .. n
    OBVIOUS
  <2>2. QED
    BY <2>1, Zenon DEF Circle
<1>2. t <= p
  BY <1>1, NeighboursBelowSquares, Zenon
<1>3. n * (2 * p + 2 * t) - (2 * u) * (2 * u) >= 0
  <2>1. n * (2 * q[n] + 2 * r[n]) - (2 * v[n]) * (2 * v[n]) >= 0
    BY PairsAreSeries
  <2>2. QED
    BY <1>1, <2>1, Zenon
<1>4. n * t - u * u <= n * p - u * u
  <2>1. n * (p - t) >= 0
    <3>1. p - t \in Nat
      BY <1>2
    <3>2. PICK d \in Nat : d = p - t
      BY <3>1, Zenon
    <3>3. n * d >= 0
      OBVIOUS
    <3>4. QED
      BY <3>2, <3>3, Zenon
  <2>2. n * (p - t) = n * p - n * t
    OBVIOUS
  <2>3. QED
    BY <2>1, <2>2
<1>5. -(n * p - u * u) <= n * t - u * u
  <2>1. n * (2 * p + 2 * t) = 2 * (n * p) + 2 * (n * t) /\ (2 * u) * (2 * u) = 4 * (u * u)
    OBVIOUS
  <2>2. QED
    BY <1>3, <2>1
<1>6. QED
  BY <1>1, <1>4, <1>5, Zenon

-----------------------------------------------------------------------------
(* The chi-square statistic of a histogram is not negative. *)
LEMMA SeriesOfSums ==
  ASSUME NEW x \in Seq(Nat), NEW z \in Seq(Nat), Len(z) = Len(x),
         \A j \in 1 .. Len(x) : z[j] = x[j] * x[j]
  PROVE  /\ Total(x) \in Nat /\ Total(z) \in Nat
         /\ Len(x) * Total(z) - Total(x) * Total(x) >= 0
<1>1. PICK n \in Nat : n = Len(x) /\ n \in 0 .. n
  OBVIOUS
<1>2. \A j \in 1 .. n : x[j] \in Int
  BY <1>1
<1>3. PICK v : SumsOf(x, v)
  BY TotalIsSummed, Zenon
<1>4. PICK q : SumsOf(z, q)
  BY TotalIsSummed, Zenon
<1>5. \A k \in 0 .. n : v[k] \in Nat /\ q[k] \in Nat
  BY <1>1, <1>3, <1>4, Zenon DEF SumsOf
<1>6. \A k \in 0 .. n : v[k] \in Int /\ q[k] \in Int
  BY <1>5
<1>7. \A k \in 1 .. n : v[k] = v[k - 1] + x[k] /\ q[k] = q[k - 1] + x[k] * x[k]
  BY <1>1, <1>3, <1>4, Zenon DEF SumsOf
<1>8. v[0] = 0 /\ q[0] = 0 /\ Total(x) = v[n] /\ Total(z) = q[n]
  BY <1>1, <1>3, <1>4, Zenon DEF SumsOf
<1>9. Series(x, v, q, n)
  BY <1>2, <1>6, <1>7, <1>8, Zenon DEF Series
<1>10. n * q[n] - v[n] * v[n] >= 0
  BY <1>9, CauchySchwarz
<1>11. QED
  BY <1>1, <1>5, <1>8, <1>10, Zenon

LEMMA ChiSquareIsNat ==
  ASSUME NEW data \in Seq(Byte)
  PROVE  ChiSquareNum(data) >= 0
<1>1. PICK n \in Nat \ {0} : n = Power(2, BITS) /\ Byte = 0 .. n - 1
  BY ByteRange, Zenon
<1>2. PICK l \in Nat : l = Len(data)
  OBVIOUS
<1>3. PICK h : h = Histogram(data)
  BY Zenon
<1>4. DOMAIN h = Byte /\ \A b \in Byte : h[b] = Count(data, l, b)
  BY <1>2, <1>3, Zenon DEF Histogram, Count
<1>5. PICK x : x = [j \in 1 .. n |-> h[j - 1]]
  BY Zenon
<1>6. PICK z : z = [j \in 1 .. n |-> x[j] * x[j]]
  BY Zenon
<1>7. ASSUME NEW j \in 1 .. n PROVE x[j] \in Nat /\ z[j] = x[j] * x[j] /\ z[j] \in Nat
  <2>1. j - 1 \in Byte
    BY <1>1
  <2>2. PICK c \in Nat : c = x[j]
    BY <1>4, <1>5, <2>1, CountIsNat, Zenon
  <2>3. c * c \in Nat
    OBVIOUS
  <2>4. z[j] = x[j] * x[j]
    BY <1>6, Zenon
  <2>5. QED
    BY <2>2, <2>3, <2>4, Zenon
<1>8. x \in Seq(Nat) /\ Len(x) = n
  <2>1. x \in [1 .. n -> Nat]
    BY <1>5, <1>7, Zenon
  <2>2. QED
    BY <2>1
<1>9. z \in Seq(Nat) /\ Len(z) = n
  <2>1. z \in [1 .. n -> Nat]
    BY <1>6, <1>7, Zenon
  <2>2. QED
    BY <2>1
<1>10. \A b \in 0 .. n - 1 : b + 1 \in 1 .. n /\ (b + 1) - 1 = b
  OBVIOUS
<1>11. \A b \in 0 .. n - 1 : h[b] = x[b + 1]
  BY <1>5, <1>10, Zenon
<1>12. SumFunction(h) = Total(x)
  <2>1. DOMAIN h = 0 .. Len(x) - 1 /\ \A b \in 0 .. Len(x) - 1 : h[b] = x[b + 1]
    BY <1>1, <1>4, <1>8, <1>11, Zenon
  <2>2. QED
    BY <1>8, <2>1, FunctionSum, Zenon
<1>13. Total(x) = l
  BY <1>2, <1>3, <1>12, HistogramCountsAll, Zenon
<1>14. PICK f : f = [b \in Byte |-> h[b] * h[b]]
  BY Zenon
<1>15. SumFunction(f) = Total(z)
  <2>1. \A b \in 0 .. n - 1 : f[b] = z[b + 1]
    BY <1>1, <1>6, <1>10, <1>11, <1>14, Zenon
  <2>2. DOMAIN f = 0 .. Len(z) - 1 /\ \A b \in 0 .. Len(z) - 1 : f[b] = z[b + 1]
    BY <1>1, <1>9, <1>14, <2>1, Zenon
  <2>3. QED
    BY <1>9, <2>2, FunctionSum, Zenon
<1>16. n * Total(z) - Total(x) * Total(x) >= 0
  <2>1. Len(z) = Len(x) /\ \A j \in 1 .. Len(x) : z[j] = x[j] * x[j]
    BY <1>7, <1>8, <1>9, Zenon
  <2>2. Len(x) * Total(z) - Total(x) * Total(x) >= 0
    BY <1>8, <1>9, <2>1, SeriesOfSums, Zenon
  <2>3. QED
    BY <1>8, <2>2, Zenon
<1>17. ChiSquareNum(data) = n * Total(z) - l * l
  BY <1>1, <1>2, <1>3, <1>14, <1>15, Zenon DEF ChiSquareNum
<1>18. QED
  BY <1>13, <1>16, <1>17, Zenon

(* The products of neighbours whose sum the serial correlation takes. *)
Products(data) == [i \in DOMAIN data |-> data[i] * data[(i % Len(data)) + 1]]
SquaresOf(data) == [i \in DOMAIN data |-> data[i] * data[i]]

LEMMA SerialIs ==
  \A data : /\ SerialNum(data) = Len(data) * Total(Products(data)) - Total(data) * Total(data)
            /\ SerialDen(data) = Len(data) * Total(SquaresOf(data)) - Total(data) * Total(data)
BY Zenon DEF SerialNum, SerialDen, ByteSum, Total, Products, SquaresOf

LEMMA SerialOfNone ==
  /\ SerialDen(<< >>) >= 0
  /\ -SerialDen(<< >>) <= SerialNum(<< >>) /\ SerialNum(<< >>) <= SerialDen(<< >>)
<1>1. Products(<< >>) = << >> /\ SquaresOf(<< >>) = << >>
  BY DEF Products, SquaresOf
<1>2. Len(<< >>) = 0
  OBVIOUS
<1>3. SerialNum(<< >>) = 0 * 0 - 0 * 0 /\ SerialDen(<< >>) = 0 * 0 - 0 * 0
  BY <1>1, <1>2, SerialIs, TotalOfNone, Zenon
<1>4. 0 * 0 - 0 * 0 = 0
  OBVIOUS
<1>5. SerialNum(<< >>) = 0 /\ SerialDen(<< >>) = 0
  BY <1>3, <1>4, Zenon
<1>6. QED
  BY <1>5

LEMMA SerialIsSound ==
  ASSUME NEW data \in Seq(Nat), data # << >>
  PROVE  /\ SerialDen(data) >= 0
         /\ -SerialDen(data) <= SerialNum(data) /\ SerialNum(data) <= SerialDen(data)
<1>1. PICK n \in Nat \ {0} : n = Len(data)
  <2>1. Len(data) \in Nat \ {0}
    OBVIOUS
  <2>2. QED
    BY <2>1, Zenon
<1>2. DOMAIN data = 1 .. n /\ \A j \in 1 .. n : data[j] \in Nat
  BY <1>1
<1>3. \A k \in 0 .. n : (k % n) + 1 \in 1 .. n
  BY Z3
<1>4. \A k \in 1 .. n : ((k - 1) % n) + 1 = k
  BY Z3
<1>5. (n % n) + 1 = 1 /\ (0 % n) + 1 = 1
  BY Z3
<1>6. PICK y : y = [k \in 0 .. n |-> data[(k % n) + 1]]
  BY Zenon
<1>7. /\ \A k \in 0 .. n : y[k] = data[(k % n) + 1] /\ y[k] \in Nat
      /\ \A k \in 1 .. n : y[k - 1] = data[k]
      /\ y[n] = y[0]
  <2>1. \A k \in 1 .. n : k - 1 \in 0 .. n
    OBVIOUS
  <2>2. n \in 0 .. n /\ 0 \in 0 .. n
    OBVIOUS
  <2>3. QED
    BY <1>2, <1>3, <1>4, <1>5, <1>6, <2>1, <2>2, Zenon
<1>8. PICK p : p = Products(data)
  BY Zenon
<1>9. PICK z : z = SquaresOf(data)
  BY Zenon
<1>10. ASSUME NEW j \in 1 .. n
       PROVE  /\ p[j] = y[j - 1] * y[j] /\ p[j] \in Nat
              /\ z[j] = data[j] * data[j] /\ z[j] \in Nat
  <2>1. j \in 0 .. n
    OBVIOUS
  <2>2. PICK a \in Nat, b \in Nat : a = data[j] /\ b = y[j]
    BY <1>2, <1>7, <2>1, Zenon
  <2>3. a * b \in Nat /\ a * a \in Nat
    OBVIOUS
  <2>4. p[j] = a * b /\ z[j] = a * a
    BY <1>1, <1>2, <1>7, <1>8, <1>9, <2>1, <2>2, Zenon DEF Products, SquaresOf
  <2>5. y[j - 1] = a
    BY <1>7, <2>2, Zenon
  <2>6. QED
    BY <2>2, <2>3, <2>4, <2>5, Zenon
<1>11. p \in Seq(Nat) /\ Len(p) = n
  <2>1. p \in [1 .. n -> Nat]
    BY <1>2, <1>8, <1>10, Zenon DEF Products
  <2>2. QED
    BY <2>1
<1>12. z \in Seq(Nat) /\ Len(z) = n
  <2>1. z \in [1 .. n -> Nat]
    BY <1>2, <1>9, <1>10, Zenon DEF SquaresOf
  <2>2. QED
    BY <2>1
<1>13. PICK v : SumsOf(data, v)
  BY TotalIsSummed, Zenon
<1>14. PICK q : SumsOf(z, q)
  BY <1>12, TotalIsSummed, Zenon
<1>15. PICK r : SumsOf(p, r)
  BY <1>11, TotalIsSummed, Zenon
<1>16. \A k \in 0 .. n : v[k] \in Nat /\ q[k] \in Nat /\ r[k] \in Nat /\ y[k] \in Nat
  BY <1>1, <1>7, <1>11, <1>12, <1>13, <1>14, <1>15, Zenon DEF SumsOf
<1>17. Circle(y, v, q, r, n)
  <2>1. \A k \in 0 .. n : y[k] \in Int /\ v[k] \in Int /\ q[k] \in Int /\ r[k] \in Int
    BY <1>16
  <2>2. v[0] = 0 /\ q[0] = 0 /\ r[0] = 0
    BY <1>13, <1>14, <1>15, Zenon DEF SumsOf
  <2>3. \A k \in 1 .. n : v[k] = v[k - 1] + data[k]
    BY <1>1, <1>13, Zenon DEF SumsOf
  <2>4. \A k \in 1 .. n : q[k] = q[k - 1] + data[k] * data[k]
    BY <1>10, <1>12, <1>14, Zenon DEF SumsOf
  <2>5. \A k \in 1 .. n : r[k] = r[k - 1] + y[k - 1] * y[k]
    BY <1>10, <1>11, <1>15, Zenon DEF SumsOf
  <2>6. QED
    BY <1>7, <2>1, <2>2, <2>3, <2>4, <2>5, Zenon DEF Circle
<1>18. n * Total(z) - Total(data) * Total(data) >= 0
  <2>1. Len(z) = Len(data) /\ \A j \in 1 .. Len(data) : z[j] = data[j] * data[j]
    BY <1>1, <1>10, <1>12, Zenon
  <2>2. Len(data) * Total(z) - Total(data) * Total(data) >= 0
    BY <1>12, <2>1, SeriesOfSums, Zenon
  <2>3. QED
    BY <1>1, <2>2, Zenon
<1>19. /\ -(n * q[n] - v[n] * v[n]) <= n * r[n] - v[n] * v[n]
       /\ n * r[n] - v[n] * v[n] <= n * q[n] - v[n] * v[n]
  BY <1>17, Correlation, Zenon
<1>20. Total(data) = v[n] /\ Total(z) = q[n] /\ Total(p) = r[n]
  BY <1>1, <1>11, <1>12, <1>13, <1>14, <1>15, Zenon DEF SumsOf
<1>21. /\ SerialNum(data) = n * r[n] - v[n] * v[n]
       /\ SerialDen(data) = n * q[n] - v[n] * v[n]
  BY <1>1, <1>8, <1>9, <1>20, SerialIs, Zenon
<1>22. QED
  BY <1>18, <1>19, <1>20, <1>21, Zenon

(* The report on any bytes at all, for bytes of any width: every byte is
   counted once, the ones of the stream are those of its bytes, the statistic
   of the frequencies is not negative, a run ends only where the stream's bits
   change, and the serial correlation lies between -1 and 1
   (entropy_stats.c:52-201). *)
THEOREM ReportOfBytes ==
  ASSUME NEW data \in Seq(Byte)
  PROVE  SoundReport(data)
<1>1. data \in Seq(Nat)
  <2>1. PICK l \in Nat : l = Len(data)
    OBVIOUS
  <2>2. data = [k \in 1 .. l |-> data[k]] /\ \A k \in 1 .. l : data[k] \in Byte
    BY <2>1
  <2>3. data \in [1 .. l -> Nat]
    BY <2>2, BytesAreNat, Zenon
  <2>4. QED
    BY <2>3
<1>2. SumFunction(Histogram(data)) = Len(data)
  BY HistogramCountsAll, Zenon
<1>3. Ones(data) = SumFunction([b \in Byte |-> Histogram(data)[b] * Ones(<< b >>)])
  BY BytesOnesAddUp, Zenon
<1>4. ChiSquareNum(data) >= 0
  BY ChiSquareIsNat, Zenon
<1>5. data # << >> =>
        ObservedRuns(data) =
          1 + Cardinality({ i \in 2 .. Len(Stream(data)) :
                              Stream(data)[i] # Stream(data)[i - 1] })
  BY <1>1, RunsAreChanges, Zenon
<1>6. /\ SerialDen(data) >= 0
      /\ -SerialDen(data) <= SerialNum(data) /\ SerialNum(data) <= SerialDen(data)
  BY <1>1, SerialOfNone, SerialIsSound, Zenon
<1>7. QED
  BY <1>2, <1>3, <1>4, <1>5, <1>6, Zenon DEF SoundReport

(* With samples that are bytes, whatever the ring holds when no frame is being
   built: the report on its contents, oldest first, is a sound one
   (main_gui.cpp:416-422, entropy_stats.c:177-201). *)
THEOREM ReportStaysSound ==
  ASSUME Latencies \subseteq Byte
  PROVE  Spec => []ReportIsSound
<1>1. JitterRing!RingInv => ReportIsSound
  <2>1. SUFFICES ASSUME JitterRing!RingInv PROVE ReportIsSound
    BY Zenon
  <2>2. PICK s \in Seq(Latencies) : s = JitterWindow
    BY <2>1, WindowIsOld, Zenon
  <2>3. s \in Seq(Byte)
    <3>1. PICK l \in Nat : l = Len(s)
      OBVIOUS
    <3>2. s = [k \in 1 .. l |-> s[k]] /\ \A k \in 1 .. l : s[k] \in Latencies
      BY <3>1
    <3>3. s \in [1 .. l -> Byte]
      BY <3>2, Zenon
    <3>4. QED
      BY <3>3
  <2>4. SoundReport(s)
    BY <2>3, ReportOfBytes, Zenon
  <2>5. QED
    BY <2>2, <2>4, Zenon DEF ReportIsSound
<1>2. QED
  BY <1>1, JitterStaysRing, PTL

-----------------------------------------------------------------------------
(* The types of the monitor, and what a frame puts together. *)

Counters == [initialized : BOOLEAN, bytes : Nat, calls : Nat, failures : Nat]
Snapped == snap \in [at : {"idle", "stats", "history"}, stats : Counters]

MonitorTypeOK ==
  Counted /\ Snapped /\ History!RingTypeOK /\ Jitter!RingTypeOK

(* All that is in the frame but for the calls recorded since. *)
FrameInv ==
  snap.at = "history" =>
    snap.stats.calls <= stats.calls /\ Covered(snap.stats, CountedHistory)

(* The history without its last k samples, before and after one more sample:
   the same while there is room, else without its head. *)
LEMMA PrefixOfAppend ==
  ASSUME NEW h \in Seq(Nat), NEW x \in Nat, NEW n \in Nat, n <= Len(h)
  PROVE  SubSeq(Append(h, x), 1, n) = SubSeq(h, 1, n)
<1>1. PICK a \in Seq(Nat) : a = Append(h, x)
  BY AppendProperties
<1>2. Len(a) = Len(h) + 1 /\ \A i \in 1 .. Len(h) : a[i] = h[i]
  BY <1>1, AppendProperties
<1>3. \A i \in 1 .. n : a[i] = h[i]
  BY <1>2
<1>4. SubSeq(a, 1, n) = SubSeq(h, 1, n)
  BY <1>3
<1>5. QED
  BY <1>1, <1>4, Zenon

LEMMA PrefixOfTail ==
  ASSUME NEW h \in Seq(Nat), NEW n \in Nat \ {0}, n <= Len(h)
  PROVE  /\ SubSeq(h, 1, n) \in Seq(Nat) /\ SubSeq(h, 1, n) # << >>
         /\ SubSeq(Tail(h), 1, n - 1) = Tail(SubSeq(h, 1, n))
<1>1. \A i \in 1 .. n : h[i] \in Nat
  OBVIOUS
<1>2. PICK p \in Seq(Nat) :
        p = SubSeq(h, 1, n) /\ Len(p) = n /\ \A i \in 1 .. n : p[i] = h[i]
  <2>1. /\ SubSeq(h, 1, n) \in Seq(Nat) /\ Len(SubSeq(h, 1, n)) = n
        /\ \A i \in 1 .. n : SubSeq(h, 1, n)[i] = h[i]
    BY <1>1
  <2>2. QED
    BY <2>1, Zenon
<1>3. p # << >> /\ h # << >>
  BY <1>2
<1>4. PICK t \in Seq(Nat) : t = Tail(h)
  BY <1>3, HeadTailProperties
<1>5. Len(t) = Len(h) - 1 /\ \A i \in 1 .. Len(t) : t[i] = h[i + 1]
  BY <1>3, <1>4, HeadTailProperties
<1>6. PICK u \in Seq(Nat) : u = Tail(p)
  BY <1>3, HeadTailProperties
<1>7. Len(u) = n - 1 /\ \A i \in 1 .. Len(u) : u[i] = p[i + 1]
  BY <1>2, <1>3, <1>6, HeadTailProperties
<1>8. PICK m \in Nat : m = n - 1
  OBVIOUS
<1>9. ASSUME NEW i \in 1 .. m
      PROVE  t[i] \in Nat /\ t[i] = u[i]
  <2>1. Len(h) \in Nat /\ Len(t) = Len(h) - 1
    BY <1>5, LenProperties, Zenon
  <2>2. i \in 1 .. Len(t) /\ i \in 1 .. Len(u) /\ i + 1 \in 1 .. n
    BY <1>7, <1>8, <2>1
  <2>3. t[i] = h[i + 1] /\ u[i] = p[i + 1] /\ p[i + 1] = h[i + 1] /\ h[i + 1] \in Nat
    BY <1>1, <1>2, <1>5, <1>7, <2>2, Zenon
  <2>4. QED
    BY <2>3, Zenon
<1>10. PICK v \in Seq(Nat) :
         v = SubSeq(t, 1, m) /\ Len(v) = m /\ \A i \in 1 .. m : v[i] = t[i]
  <2>1. \A i \in 1 .. m : t[i] \in Nat
    BY <1>9, Zenon
  <2>2. SubSeq(t, 1, m) \in Seq(Nat) /\ Len(SubSeq(t, 1, m)) = m
        /\ \A i \in 1 .. m : SubSeq(t, 1, m)[i] = t[i]
    BY <2>1
  <2>3. QED
    BY <2>2, Zenon
<1>11. Len(v) = Len(u) /\ \A i \in 1 .. Len(v) : v[i] = u[i]
  BY <1>7, <1>8, <1>9, <1>10
<1>12. v = u
  BY <1>11, SeqEqual
<1>13. QED
  BY <1>2, <1>3, <1>4, <1>6, <1>8, <1>10, <1>12, Zenon

LEMMA PrefixOfRecord ==
  ASSUME NEW h \in Seq(Nat), NEW x \in Nat, NEW g \in Seq(Nat), NEW k \in Nat,
         g = Append(h, x) \/ (h # << >> /\ g = Append(Tail(h), x))
  PROVE  /\ SubSeq(h, 1, Len(h) - k) \in Seq(Nat)
         /\ \/ SubSeq(g, 1, Len(g) - (k + 1)) = SubSeq(h, 1, Len(h) - k)
            \/ /\ SubSeq(h, 1, Len(h) - k) # << >>
               /\ SubSeq(g, 1, Len(g) - (k + 1)) = Tail(SubSeq(h, 1, Len(h) - k))
<1>1. PICK l \in Nat, m \in Nat : l = Len(h) /\ m = Len(g)
  BY LenProperties, Zenon
<1>2. \/ g = Append(h, x) /\ m = l + 1
      \/ h # << >> /\ g = Append(Tail(h), x) /\ m = l
  <2>1. CASE g = Append(h, x)
    <3>1. m = l + 1
      BY <1>1, <2>1, AppendProperties
    <3>2. QED
      BY <2>1, <3>1, Zenon
  <2>2. CASE h # << >> /\ g = Append(Tail(h), x)
    <3>1. PICK t \in Seq(Nat) : t = Tail(h) /\ Len(t) = l - 1
      BY <1>1, <2>2, HeadTailProperties
    <3>2. g = Append(t, x)
      BY <2>2, <3>1, Zenon
    <3>3. m = (l - 1) + 1
      BY <1>1, <3>1, <3>2, AppendProperties
    <3>4. m = l
      BY <3>3
    <3>5. QED
      BY <2>2, <3>4, Zenon
  <2>3. QED
    BY <2>1, <2>2, Zenon
<1>3. PICK a \in Int, b \in Int : a = l - k /\ b = m - (k + 1)
  <2>1. l - k \in Int /\ m - (k + 1) \in Int
    OBVIOUS
  <2>2. QED
    BY <2>1, Zenon
<1>4. SUFFICES /\ SubSeq(h, 1, a) \in Seq(Nat)
               /\ \/ SubSeq(g, 1, b) = SubSeq(h, 1, a)
                  \/ /\ SubSeq(h, 1, a) # << >>
                     /\ SubSeq(g, 1, b) = Tail(SubSeq(h, 1, a))
  BY <1>1, <1>3, Zenon
<1>5. CASE a <= 0
  <2>1. b <= 0
    BY <1>2, <1>3, <1>5
  <2>2. SubSeq(h, 1, a) = << >>
    BY <1>5, SubSeqEmpty
  <2>3. SubSeq(g, 1, b) = << >>
    BY <2>1, SubSeqEmpty
  <2>4. << >> \in Seq(Nat)
    OBVIOUS
  <2>5. QED
    BY <2>2, <2>3, <2>4, Zenon
<1>6. CASE a > 0
  <2>1. PICK n \in Nat \ {0} : n = a /\ n <= Len(h)
    BY <1>1, <1>3, <1>6
  <2>2. SubSeq(h, 1, n) \in Seq(Nat)
    BY <2>1, PrefixOfTail, Zenon
  <2>3. CASE g = Append(h, x) /\ m = l + 1
    <3>1. b = n
      BY <1>3, <2>1, <2>3
    <3>2. n \in Nat /\ SubSeq(Append(h, x), 1, n) = SubSeq(h, 1, n)
      BY <2>1, PrefixOfAppend
    <3>3. QED
      BY <2>1, <2>2, <2>3, <3>1, <3>2, Zenon
  <2>4. CASE h # << >> /\ g = Append(Tail(h), x) /\ m = l
    <3>1. h # << >> /\ g = Append(Tail(h), x) /\ m = l
      BY <2>4, Zenon
    <3>2. PICK t \in Seq(Nat) : t = Tail(h) /\ Len(t) = l - 1
      BY <1>1, <3>1, HeadTailProperties
    <3>3. b = n - 1 /\ n - 1 \in Nat /\ n - 1 <= Len(t)
      BY <1>1, <1>3, <2>1, <3>1, <3>2
    <3>4. SubSeq(Append(t, x), 1, n - 1) = SubSeq(t, 1, n - 1)
      BY <3>3, PrefixOfAppend
    <3>5. /\ SubSeq(h, 1, n) # << >>
          /\ SubSeq(Tail(h), 1, n - 1) = Tail(SubSeq(h, 1, n))
      BY <2>1, PrefixOfTail, Zenon
    <3>6. QED
      BY <2>1, <2>2, <3>1, <3>2, <3>3, <3>4, <3>5, Zenon
  <2>5. QED
    BY <1>2, <2>3, <2>4, Zenon
<1>7. a <= 0 \/ a > 0
  OBVIOUS
<1>8. QED
  BY <1>5, <1>6, <1>7, Zenon

(* Samples taken away leave the rest covered. *)
LEMMA TailStaysCovered ==
  ASSUME NEW s, s.bytes \in Nat, s.failures \in Nat, NEW p \in Seq(Nat), NEW q,
         q = p \/ (p # << >> /\ q = Tail(p)), Covered(s, p)
  PROVE  Covered(s, q)
<1>1. CASE q = p
  BY <1>1, Zenon
<1>2. CASE p # << >> /\ q = Tail(p)
  <2>1. PICK a, b, c, d : /\ a = Total(p) /\ b = Total(q)
                          /\ c = Cardinality(Blanks(p)) /\ d = Cardinality(Blanks(q))
    OBVIOUS
  <2>2. /\ b \in Nat /\ b <= a /\ d \in Nat /\ d <= c
        /\ a <= s.bytes /\ c <= s.failures
    BY <1>2, <2>1, TotalOfTail, BlanksOfTail, Zenon DEF Covered
  <2>3. a \in Nat /\ c \in Nat
    BY <2>1, TotalOfAppend, BlanksOfAppend, Zenon
  <2>4. PICK x \in Nat, y \in Nat : x = s.bytes /\ y = s.failures
    BY Zenon
  <2>5. b <= x /\ d <= y
    BY <2>2, <2>3, <2>4
  <2>6. QED
    BY <2>1, <2>4, <2>5, Zenon DEF Covered
<1>3. QED
  BY <1>1, <1>2, Zenon

(* The history is as long as the ring has samples. *)
LEMMA FrameLength ==
  ASSUME HistoryRing!RingInv
  PROVE  /\ Len(FrameHistory) = history_samples_written
         /\ Len(FrameHistory) \in 0 .. HISTORY_RING_SIZE
<1>1. HistoryRing!FullSnapshot
  BY HistoryRing!SnapshotPlaces
<1>2. FrameHistory = HistoryRing!Snapshot(HISTORY_RING_SIZE)
  BY DEF FrameHistory, History!Snapshot, HistoryRing!Snapshot,
         History!StartIndex, HistoryRing!StartIndex
<1>3. history_samples_written \in 0 .. HISTORY_RING_SIZE
  BY DEF HistoryRing!RingInv, HistoryRing!RingTypeOK
<1>4. Len(FrameHistory) = history_samples_written
  BY <1>1, <1>2, Zenon DEF HistoryRing!FullSnapshot
<1>5. QED
  BY <1>3, <1>4, Zenon

(* A step that leaves the history and the calls alone leaves the frame alone. *)
LEMMA FrameStays ==
  ASSUME UNCHANGED << historyVars, snap >>, stats'.calls = stats.calls
  PROVE  CountedHistory' = CountedHistory /\ (FrameInv => FrameInv')
<1>1. FrameHistory' = FrameHistory /\ snap' = snap
  BY SameFrame
<1>2. CountedHistory' = CountedHistory
  BY <1>1, Zenon DEF CountedHistory, LateCalls
<1>3. QED
  BY <1>1, <1>2, Zenon DEF FrameInv

(* A call recorded within the tick is late. *)
LEMMA RecordKeepsFrame ==
  ASSUME HistoryRing!RingInv, HistoryRing!RingInv', Counted, Snapped, FrameInv,
         snap' = snap, stats'.calls = stats.calls + 1,
         NEW x \in Sample, History!Record(x)
  PROVE  FrameInv'
<1>1. SUFFICES ASSUME snap.at = "history"
               PROVE  /\ snap.stats.calls <= stats'.calls
                      /\ Covered(snap.stats, CountedHistory')
  BY Zenon DEF FrameInv
<1>2. /\ stats.calls \in Nat /\ snap.stats.calls \in Nat
      /\ snap.stats.bytes \in Nat /\ snap.stats.failures \in Nat
  BY DEF Counted, Snapped, Counters
<1>3. snap.stats.calls <= stats.calls /\ Covered(snap.stats, CountedHistory)
  BY <1>1, Zenon DEF FrameInv
<1>4. PICK k \in Nat : k = stats.calls - snap.stats.calls
                       /\ k + 1 = stats'.calls - snap.stats.calls
  BY <1>2, <1>3
<1>5. PICK h \in Seq(Nat) : h = FrameHistory
  BY FrameIsLog, Zenon
<1>6. PICK g \in Seq(Nat) : g = FrameHistory'
  <2>1. (FrameHistory \in Seq(Nat))'
    BY FrameIsLog, PTL
  <2>2. QED
    BY <2>1, Zenon
<1>7. g = IF Len(h) < HISTORY_RING_SIZE THEN Append(h, x) ELSE Append(Tail(h), x)
  BY <1>5, <1>6, RecordMovesFrame, Zenon
<1>8. Len(h) <= HISTORY_RING_SIZE /\ HISTORY_RING_SIZE \in Nat \ {0} /\ x \in Nat
  <2>1. Len(h) \in 0 .. HISTORY_RING_SIZE
    BY <1>5, FrameLength, Zenon
  <2>2. QED
    BY <2>1, RingSizeAssumption, ByteAssumption DEF Sample
<1>9. PICK p, q : p = SubSeq(h, 1, Len(h) - k) /\ q = SubSeq(g, 1, Len(g) - (k + 1))
  BY Zenon
<1>10. p \in Seq(Nat) /\ (q = p \/ (p # << >> /\ q = Tail(p)))
  <2>1. g = Append(h, x) \/ (h # << >> /\ g = Append(Tail(h), x))
    <3>1. Len(h) < HISTORY_RING_SIZE \/ h # << >>
      BY <1>8
    <3>2. QED
      BY <1>7, <3>1, Zenon
  <2>2. x \in Nat
    BY <1>8, Zenon
  <2>3. /\ SubSeq(h, 1, Len(h) - k) \in Seq(Nat)
        /\ \/ SubSeq(g, 1, Len(g) - (k + 1)) = SubSeq(h, 1, Len(h) - k)
           \/ /\ SubSeq(h, 1, Len(h) - k) # << >>
              /\ SubSeq(g, 1, Len(g) - (k + 1)) = Tail(SubSeq(h, 1, Len(h) - k))
    BY <2>1, <2>2, PrefixOfRecord, Zenon
  <2>4. QED
    BY <1>9, <2>3, Zenon
<1>11. CountedHistory = p
  BY <1>4, <1>5, <1>9, Zenon DEF CountedHistory, LateCalls
<1>12. CountedHistory' = q
  <2>1. LateCalls' = k + 1
    BY <1>4, Zenon DEF LateCalls
  <2>2. QED
    BY <1>6, <1>9, <2>1, Zenon DEF CountedHistory
<1>13. Covered(snap.stats, q)
  BY <1>2, <1>3, <1>10, <1>11, TailStaysCovered, Zenon
<1>14. snap.stats.calls <= stats'.calls
  BY <1>2, <1>3
<1>15. QED
  BY <1>12, <1>13, <1>14, Zenon

LEMMA StepKeepsFrame ==
  ASSUME CoverInv, HistoryRing!RingInv', Snapped, FrameInv, [Next]_vars
  PROVE  Snapped' /\ FrameInv'
<1>1. CASE UNCHANGED << stats, historyVars, snap >>
  <2>1. snap' = snap /\ stats'.calls = stats.calls
    BY <1>1
  <2>2. QED
    BY <1>1, <2>1, FrameStays, Zenon DEF Snapped
<1>2. CASE RecordFailure \/ \E b \in BOOLEAN : SetInitialized(b)
  <2>1. stats'.calls = stats.calls
    BY <1>2 DEF RecordFailure, SetInitialized, CoverInv, Counted
  <2>2. UNCHANGED << historyVars, snap >> /\ snap' = snap
    BY <1>2 DEF RecordFailure, SetInitialized
  <2>3. QED
    BY <2>1, <2>2, FrameStays, Zenon DEF Snapped
<1>3. ASSUME NEW success \in BOOLEAN, NEW n \in ByteCounts \cup {0},
             success => n \in ByteCounts, RecordGenerationAttempt(success, n)
      PROVE  Snapped' /\ FrameInv'
  <2>1. PICK c \in Nat, b \in Nat, f \in Nat :
          stats' = [stats EXCEPT !.calls = c, !.bytes = b, !.failures = f]
          /\ c = stats.calls + 1
    <3>1. /\ stats.calls + 1 \in Nat /\ stats.bytes + n \in Nat
          /\ (IF success THEN stats.failures ELSE stats.failures + 1) \in Nat
      BY ByteAssumption DEF CoverInv, Counted
    <3>2. stats' = [stats EXCEPT !.calls = stats.calls + 1, !.bytes = stats.bytes + n,
                      !.failures = IF success THEN stats.failures ELSE stats.failures + 1]
      BY <1>3, Zenon DEF RecordGenerationAttempt
    <3>3. QED
      BY <3>1, <3>2, Zenon
  <2>2. stats'.calls = c
    BY <2>1, CountedRecord DEF CoverInv, Counted
  <2>3. stats'.calls = stats.calls + 1
    BY <2>1, <2>2, Zenon
  <2>4. snap' = snap /\ History!Record(IF success THEN n ELSE 0)
    BY <1>3, Zenon DEF RecordGenerationAttempt
  <2>5. (IF success THEN n ELSE 0) \in Sample
    BY <1>3 DEF Sample
  <2>6. FrameInv'
    BY <2>3, <2>4, <2>5, RecordKeepsFrame, Zenon DEF CoverInv
  <2>7. QED
    BY <2>4, <2>6, Zenon DEF Snapped
<1>4. CASE ClearHistory
  <2>1. snap' = snap /\ snap.at # "history"
    BY <1>4 DEF ClearHistory
  <2>2. QED
    BY <2>1, Zenon DEF Snapped, FrameInv
<1>5. CASE \E us \in Latencies : RecordJitterSample(us)
  BY <1>1, <1>5 DEF RecordJitterSample
<1>6. CASE SnapshotJitter
  <2>1. snap' = [snap EXCEPT !.at = "stats"]
    BY <1>6 DEF SnapshotJitter
  <2>2. Snapped' /\ snap'.at = "stats"
    BY <2>1 DEF Snapped
  <2>3. QED
    BY <2>2 DEF FrameInv
<1>7. CASE SnapshotStats
  <2>1. stats' = stats /\ snap' = [snap EXCEPT !.at = "history", !.stats = stats]
        /\ UNCHANGED historyVars
    BY <1>7, Zenon DEF SnapshotStats
  <2>2. stats \in Counters /\ stats.calls \in Nat
    BY DEF CoverInv, Counted, Counters
  <2>3. Snapped' /\ snap'.stats = stats
    BY <2>1, <2>2 DEF Snapped
  <2>4. PICK h \in Seq(Nat) : h = FrameHistory
    BY FrameIsLog, Zenon DEF CoverInv
  <2>5. stats.calls - stats.calls = 0 /\ stats.calls <= stats.calls
    BY <2>2
  <2>6. Len(h) - 0 = Len(h) /\ SubSeq(h, 1, Len(h)) = h
    <3>1. PICK l \in Nat : l = Len(h)
      BY LenProperties, Zenon
    <3>2. l - 0 = l
      OBVIOUS
    <3>3. SubSeq(h, 1, l) = h
      BY <3>1
    <3>4. QED
      BY <3>1, <3>2, <3>3, Zenon
  <2>7. CountedHistory' = h
    <3>1. FrameHistory' = h
      BY <2>1, <2>4, SameFrame, Zenon
    <3>2. LateCalls' = 0
      BY <2>1, <2>3, <2>5, Zenon DEF LateCalls
    <3>3. QED
      BY <2>6, <3>1, <3>2, Zenon DEF CountedHistory
  <2>8. Covered(stats, h)
    BY <2>4, Zenon DEF CoverInv
  <2>9. FrameInv'
    BY <2>1, <2>3, <2>5, <2>7, <2>8, Zenon DEF FrameInv
  <2>10. QED
    BY <2>3, <2>9, Zenon
<1>8. CASE SnapshotHistory
  <2>1. snap' = NoSnap
    BY <1>8 DEF SnapshotHistory
  <2>2. Snapped' /\ snap'.at = "idle"
    BY <2>1 DEF NoSnap, NoStats, Snapped, Counters
  <2>3. QED
    BY <2>2 DEF FrameInv
<1>9. QED
  BY <1>1, <1>2, <1>3, <1>4, <1>5, <1>6, <1>7, <1>8 DEF Next, vars

FramesInv ==
  CoverInv /\ HistoryRing!RingInv /\ HistoryMatchesCalls /\ Snapped /\ FrameInv

LEMMA CountedFrames == Spec => []FramesInv
<1>1. Spec => [](CoverInv /\ HistoryRing!RingInv)
  BY CoverHolds
<1>2. Init => Snapped /\ FrameInv
  BY DEF Init, NoSnap, NoStats, Snapped, Counters, FrameInv
<1>3. CoverInv /\ HistoryRing!RingInv' /\ Snapped /\ FrameInv /\ [Next]_vars
        => (Snapped /\ FrameInv)'
  BY StepKeepsFrame
<1>4. QED
  BY <1>1, <1>2, <1>3, HistoryIsCounted, PTL DEF Spec, FramesInv

(* Types of the monitor's state: its counters and the frame's copies of them
   never leave the natural numbers, its indexes the rings
   (health_monitor.c:11-30, 104-326). *)
THEOREM MonitorTypes == Spec => []MonitorTypeOK
<1>1. Spec => []HistoryRing!RingTypeOK
  <2>1. Init => HistoryRing!RingInit
    BY DEF Init, History!RingInit, HistoryRing!RingInit
  <2>2. HistoryRing!RingConstantsOK
    BY RingSizeAssumption, ByteAssumption DEF HistoryRing!RingConstantsOK, Sample
  <2>3. QED
    BY <2>1, <2>2, StepOfHistory, HistoryRing!RingTypes, PTL
       DEF Spec, HistoryRing!RingSpec
<1>2. Spec => []JitterRing!RingTypeOK
  <2>1. Init => JitterRing!RingInit
    BY DEF Init, Jitter!RingInit, JitterRing!RingInit
  <2>2. JitterRing!RingConstantsOK
    BY RingSizeAssumption, LatencyAssumption DEF JitterRing!RingConstantsOK
  <2>3. QED
    BY <2>1, <2>2, StepOfJitter, JitterRing!RingTypes, PTL
       DEF Spec, JitterRing!RingSpec
<1>3. HistoryRing!RingTypeOK /\ JitterRing!RingTypeOK /\ FramesInv => MonitorTypeOK
  BY DEF HistoryRing!RingTypeOK, JitterRing!RingTypeOK, History!RingTypeOK,
         Jitter!RingTypeOK, MonitorTypeOK, FramesInv, CoverInv
<1>4. QED
  BY <1>1, <1>2, <1>3, CountedFrames, PTL

(* Whatever is recorded between the two snapshots of a frame, the history it
   copies shows every call that its counters count, up to the size of the ring,
   and what it shows of them is part of the copied totals: the late calls are
   its last (main_gui.cpp:416-441, health_monitor.c:131-236). *)
THEOREM FramesAreConsistent == Spec => []FrameIsConsistent
<1>1. FramesInv => FrameIsConsistent
  <2>1. SUFFICES ASSUME FramesInv, snap.at = "history"
                 PROVE  /\ LateCalls >= 0
                        /\ \/ Len(FrameHistory) = HISTORY_RING_SIZE
                           \/ Len(FrameHistory) >= snap.stats.calls
                        /\ Covered(snap.stats, CountedHistory)
    BY Zenon DEF FrameIsConsistent, Covered, Total, Blanks
  <2>2. /\ stats.calls \in Nat /\ snap.stats.calls \in Nat
        /\ HISTORY_RING_SIZE \in Nat \ {0}
    BY <2>1, RingSizeAssumption
       DEF FramesInv, CoverInv, Counted, Snapped, Counters
  <2>3. snap.stats.calls <= stats.calls /\ Covered(snap.stats, CountedHistory)
    BY <2>1, Zenon DEF FramesInv, FrameInv
  <2>4. LateCalls >= 0
    BY <2>2, <2>3 DEF LateCalls
  <2>5. PICK l : l = Len(FrameHistory) /\ l = history_samples_written
    BY <2>1, FrameLength, Zenon DEF FramesInv
  <2>6. l = IF stats.calls < HISTORY_RING_SIZE THEN stats.calls ELSE HISTORY_RING_SIZE
    BY <2>1, <2>5, Zenon DEF FramesInv, HistoryMatchesCalls
  <2>7. l = HISTORY_RING_SIZE \/ l >= snap.stats.calls
    BY <2>2, <2>3, <2>6
  <2>8. QED
    BY <2>3, <2>4, <2>5, <2>7, Zenon
<1>2. QED
  BY <1>1, CountedFrames, PTL
=============================================================================
