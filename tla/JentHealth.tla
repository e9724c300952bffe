------------------------------ MODULE JentHealth ------------------------------
(***************************************************************************)
(* The health tests that jitterentropy-health.c applies to every time      *)
(* delta of one entropy collector: the stuck test with the repetition      *)
(* count test (RCT), the adaptive proportion test (APT) and the lag        *)
(* predictor.  The RCT with memory is in JentRandomData, with the loops it *)
(* depends on.  A collector is a record, a test an operator from records   *)
(* to records; the sizes and cutoffs are parameters.                       *)
(***************************************************************************)
EXTENDS Integers, Sequences, FiniteSets, Functions

CONSTANTS
  Delta,                  \* time deltas that occur
  Modulus,                \* time deltas are unsigned integers modulo this
  MinOsr, MaxOsr,         \* JENT_MIN_OSR, JENT_MAX_OSR
  RctRate,                \* 30: intermittent RCT cutoff per unit of osr
  Safety,                 \* divisor of the RCT cutoffs: 8 in NTG.1, else 0
  APT_WINDOW_SIZE, AptCutoffLookup, AptPermanentLookup,
  LAG_WINDOW_SIZE, LAG_HISTORY_SIZE, LagGlobalLookup, LagLocalLookup,
  MaxSamples, MaxInits    \* bounds on the samples and the re-initializations

ASSUME DeltaAssumption == Modulus \in Nat \ {0} /\ Delta \subseteq 0 .. Modulus - 1
ASSUME SizeAssumption ==
  /\ LAG_HISTORY_SIZE \in Nat /\ LAG_HISTORY_SIZE >= 4
  /\ LAG_WINDOW_SIZE \in Nat /\ LAG_WINDOW_SIZE > LAG_HISTORY_SIZE
  /\ APT_WINDOW_SIZE \in Nat /\ APT_WINDOW_SIZE > 1
  /\ MinOsr \in Nat \ {0} /\ MaxOsr \in Nat /\ MinOsr <= MaxOsr

(* The divisor of the RCT cutoffs leaves the permanent one above the other, and
   one occurrence, the window's first, never fails the APT. *)
ASSUME CutoffAssumption ==
  /\ RctRate \in Nat \ {0} /\ Safety \in Nat /\ Safety <= RctRate * MinOsr
  /\ \A table \in { AptCutoffLookup, AptPermanentLookup } :
       table \in Seq(Nat \ {0, 1}) /\ table # << >>
  /\ \A table \in { LagGlobalLookup, LagLocalLookup } :
       table \in Seq(Nat) /\ table # << >>

VARIABLES
  ec,      \* the collector's health state
  seen,    \* history: the deltas inserted so far
  stucks,  \* history: their stuck results, FALSE also where the RCT restarted
  reset,   \* history: Len(seen) when the last health reset happened, or -1
  window,  \* history: the first and the last value of the APT's window
  inits    \* number of re-initializations, for its bound

vars == << ec, seen, stucks, reset, window, inits >>

LagIndex == 0 .. LAG_HISTORY_SIZE - 1

Failures == { "rct", "apt", "lag", "rct_permanent", "apt_permanent" }

-----------------------------------------------------------------------------
(* Cutoffs.  A table is read at osr, or at its end beyond it. *)
Lookup(table, osr) == table[IF osr > Len(table) THEN Len(table) ELSE osr]

RctSafety(cutoff) ==
  IF Safety = 0 THEN cutoff ELSE (cutoff + Safety - 1) \div Safety

RctCutoff(osr)     == RctSafety(RctRate * osr)
RctPermanent(osr)  == RctSafety(2 * RctRate * osr)
AptCutoff(osr)     == Lookup(AptCutoffLookup, osr)
AptPermanent(osr)  == Lookup(AptPermanentLookup, osr)

Alarm(e, failures) == [e EXCEPT !.failure = @ \cup failures]

-----------------------------------------------------------------------------
(* Lag predictor.  Location 0 is the last delta, 1 the one before it. *)
LagHistory(e, loc) ==
  e.lag_history[(e.lag_observations - loc - 1) % LAG_HISTORY_SIZE]

NoLag == [i \in LagIndex |-> 0]

LagReset(e) ==
  [e EXCEPT !.lag_count = 0, !.lag_run = 0, !.lag_best = 0,
            !.lag_observations = 0, !.lag_history = NoLag,
            !.lag_scoreboard = NoLag]

(* The best predictor after the scoreboard was walked upwards, its entries
   raised one by one for the predictors in right. *)
LagBest(e, right) ==
  LET raised(i) == e.lag_scoreboard[i] + IF i \in right THEN 1 ELSE 0
      best[n \in 0 .. LAG_HISTORY_SIZE] ==
        IF n = 0 THEN e.lag_best
        ELSE LET i == n - 1
                 b == best[i]
                 top == IF b < i THEN raised(b) ELSE e.lag_scoreboard[b]
             IN  IF i \in right /\ raised(i) > top THEN i ELSE b
  IN  best[LAG_HISTORY_SIZE]

(* The guess, before the new delta is used for anything else. *)
LagGuess(e, d) ==
  IF LagHistory(e, e.lag_best) = d
  THEN LET hit == [e EXCEPT !.lag_count = @ + 1, !.lag_run = @ + 1] IN
       IF \/ hit.lag_run >= Lookup(LagLocalLookup, e.osr)
          \/ hit.lag_count >= Lookup(LagGlobalLookup, e.osr)
       THEN Alarm(hit, {"lag"}) ELSE hit
  ELSE [e EXCEPT !.lag_run = 0]

(* Faulty variant: the scores of the predictors use the new delta's place. *)
LagScoreLate(e, d) ==
  LET right == { i \in LagIndex : LagHistory([e EXCEPT !.lag_observations = @ + 1], i) = d }
  IN  [e EXCEPT !.lag_best = LagBest(e, right),
                !.lag_scoreboard = [i \in LagIndex |-> @[i] + IF i \in right THEN 1 ELSE 0]]

LagScore(e, d) ==
  LET right == { i \in LagIndex : LagHistory(e, i) = d }
  IN  [e EXCEPT !.lag_best = LagBest(e, right),
                !.lag_scoreboard = [i \in LagIndex |-> @[i] + IF i \in right THEN 1 ELSE 0]]

LagStore(e, d) ==
  [e EXCEPT !.lag_history[e.lag_observations % LAG_HISTORY_SIZE] = d,
            !.lag_observations = @ + 1]

LagInsert(e, d) ==
  IF e.lag_observations < LAG_HISTORY_SIZE THEN LagStore(e, d)
  ELSE LET after == LagStore(LagScore(LagGuess(e, d), d), d)
       IN  IF after.lag_observations >= LAG_WINDOW_SIZE THEN LagReset(after)
                                                        ELSE after

-----------------------------------------------------------------------------
(* Adaptive proportion test. *)
AptReinit(e, base, count, observations) ==
  [e EXCEPT !.apt_base = base, !.apt_base_set = TRUE,
            !.apt_count = IF count = 0 THEN AptCutoff(e.osr) ELSE count,
            !.apt_observations = observations]

(* Faulty variant: the window is one sample too long. *)
AptCountLongWindow(e, d) ==
  LET n == IF d = e.apt_base THEN e.apt_count + 1 ELSE e.apt_count
      counted == [e EXCEPT !.apt_count = n, !.apt_observations = @ + 1,
                           !.apt_base_set = e.apt_observations + 1 <= APT_WINDOW_SIZE]
  IN  IF n = e.apt_count THEN counted
      ELSE Alarm(counted,
             IF n >= AptPermanent(e.osr) THEN {"apt_permanent"}
             ELSE IF n = AptCutoff(e.osr) THEN {"apt"} ELSE {})

(* One more sample of a window; the next one after it is a new base. *)
AptCount(e, d) ==
  LET n == IF d = e.apt_base THEN e.apt_count + 1 ELSE e.apt_count
      counted == [e EXCEPT !.apt_count = n, !.apt_observations = @ + 1,
                           !.apt_base_set = e.apt_observations + 1 < APT_WINDOW_SIZE]
  IN  IF n = e.apt_count THEN counted
      ELSE Alarm(counted,
             IF n >= AptPermanent(e.osr) THEN {"apt_permanent"}
             ELSE IF n = AptCutoff(e.osr) THEN {"apt"} ELSE {})

AptInsert(e, d) ==
  IF e.apt_base_set THEN AptCount(e, d) ELSE AptReinit(e, d, 1, 1)

-----------------------------------------------------------------------------
(* Stuck test: the delta and its two differences, taken from the lag
   predictor's history before the delta is inserted there. *)
Stuck(e, d) ==
  LET d1 == LagHistory(e, 0)
      d2 == LagHistory(e, 1)
      delta2 == (d - d1) % Modulus
  IN  d = 0 \/ delta2 = 0 \/ delta2 = (d1 - d2) % Modulus

(* Faulty variant: a run of stuck values is not ended by a good one. *)
RctInsertNeverZero(e, stuck) ==
  IF ~stuck THEN e
  ELSE LET n == e.rct_count + 1 IN
       Alarm([e EXCEPT !.rct_count = n],
             IF n >= RctPermanent(e.osr) THEN {"rct_permanent"}
             ELSE IF n = RctCutoff(e.osr) THEN {"rct"} ELSE {})

RctInsert(e, stuck) ==
  IF ~stuck THEN [e EXCEPT !.rct_count = 0]
  ELSE LET n == e.rct_count + 1 IN
       Alarm([e EXCEPT !.rct_count = n],
             IF n >= RctPermanent(e.osr) THEN {"rct_permanent"}
             ELSE IF n = RctCutoff(e.osr) THEN {"rct"} ELSE {})

(* jent_stuck: all tests of one delta, in their order. *)
Measured(e, d) ==
  RctInsert(LagInsert(AptInsert(e, d), d), Stuck(e, d))

-----------------------------------------------------------------------------
(* A collector as jent_zalloc and jent_health_init leave it. *)
NewCollector(osr) ==
  [ osr |-> osr, failure |-> {}, rct_count |-> 0,
    apt_base_set |-> FALSE, apt_base |-> 0, apt_count |-> 0,
    apt_observations |-> 0,
    lag_observations |-> 0, lag_history |-> NoLag, lag_scoreboard |-> NoLag,
    lag_best |-> 0, lag_count |-> 0, lag_run |-> 0 ]

(* Faulty variants: the RCT, or the APT, starts afresh after a reset. *)
DuplicatedRctFresh(new, old) ==
  LET apt == IF old.apt_observations = 0 THEN new
             ELSE AptReinit(new, old.apt_base, 0, old.apt_observations)
  IN  [apt EXCEPT !.lag_run = old.lag_run, !.lag_count = old.lag_count,
                  !.lag_best = old.lag_best,
                  !.lag_observations = old.lag_observations,
                  !.lag_scoreboard = old.lag_scoreboard,
                  !.lag_history = old.lag_history]

DuplicatedAptFresh(new, old) ==
  [new EXCEPT !.rct_count = RctRate * new.osr,
              !.lag_run = old.lag_run, !.lag_count = old.lag_count,
              !.lag_best = old.lag_best,
              !.lag_observations = old.lag_observations,
              !.lag_scoreboard = old.lag_scoreboard,
              !.lag_history = old.lag_history]

(* jent_apt_duplicate, jent_rct_duplicate and jent_lag_duplicate. *)
Duplicated(new, old) ==
  LET apt == IF old.apt_observations = 0 THEN new
             ELSE AptReinit(new, old.apt_base, 0, old.apt_observations)
  IN  [apt EXCEPT !.rct_count = RctRate * new.osr,
                  !.lag_run = old.lag_run, !.lag_count = old.lag_count,
                  !.lag_best = old.lag_best,
                  !.lag_observations = old.lag_observations,
                  !.lag_scoreboard = old.lag_scoreboard,
                  !.lag_history = old.lag_history]

-----------------------------------------------------------------------------
Init ==
  /\ ec = NewCollector(MinOsr)
  /\ seen = << >> /\ stucks = << >>
  /\ reset = -1 /\ inits = 0
  /\ window = [first |-> 0, last |-> 0]

Measure(d) ==
  /\ Len(seen) < MaxSamples
  /\ ec' = Measured(ec, d)
  /\ seen' = Append(seen, d)
  /\ stucks' = Append(stucks, Stuck(ec, d))
  /\ window' = IF Len(seen) < window.last THEN window
               ELSE [ first |-> Len(seen) + 1,
                      last |-> Len(seen) + APT_WINDOW_SIZE ]
  /\ UNCHANGED << reset, inits >>

(* jent_health_init between two startup stages of the same collector. *)
HealthInit ==
  /\ inits < MaxInits
  /\ ec' = [ec EXCEPT !.rct_count = 0]
  /\ stucks' = Append(stucks, FALSE)
  /\ inits' = inits + 1
  /\ UNCHANGED << seen, reset, window >>

(* jent_health_failure_reset: a read resets after an intermittent failure only,
   the startup after any.  The self test passes at some higher rate.  The new
   collector goes on in the window of the old one; a window that has just ended
   goes on for one value. *)
HealthReset(osr) ==
  /\ ec.failure # {}
  /\ osr > ec.osr
  /\ ec' = Duplicated(NewCollector(osr), ec)
  /\ reset' = Len(seen)
  /\ window' = IF Len(seen) < window.last THEN window
               ELSE [window EXCEPT !.last = Len(seen) + 1]
  /\ UNCHANGED << seen, stucks, inits >>

Next ==
  \/ \E d \in Delta : Measure(d)
  \/ HealthInit
  \/ \E osr \in MinOsr .. MaxOsr : HealthReset(osr)

Spec == Init /\ [][Next]_vars

-----------------------------------------------------------------------------
(* The longest run of stuck values that lies in s. *)
HasRun(s, n) ==
  \E i \in 1 .. Len(s) - n + 1 : \A j \in i .. i + n - 1 : s[j]

(* The RCT of a collector that was never reset alarms if and only if so many
   values in a row were stuck, whatever came in between. *)
RctIsRunLength ==
  reset = -1 =>
    /\ "rct" \in ec.failure <=> HasRun(stucks, RctCutoff(ec.osr))
    /\ "rct_permanent" \in ec.failure <=> HasRun(stucks, RctPermanent(ec.osr))

(* SP 800-90B 4.4.2: windows follow each other without a gap, and the test
   fails if the first value of one occurs often enough within it. *)
AptWindows ==
  { i \in 1 .. Len(seen) : (i - 1) % APT_WINDOW_SIZE = 0 }

Occurrences(i) ==
  Cardinality({ j \in i .. Len(seen) :
                  j < i + APT_WINDOW_SIZE /\ seen[j] = seen[i] })

AptIsProportion ==
  reset = -1 =>
    /\ "apt_permanent" \in ec.failure <=>
         \E i \in AptWindows : Occurrences(i) >= AptPermanent(ec.osr)
    /\ "apt" \in ec.failure <=>
         \E i \in AptWindows : /\ Occurrences(i) >= AptCutoff(ec.osr)
                               /\ AptCutoff(ec.osr) < AptPermanent(ec.osr)

(* The score of a lag is the number of times it would have guessed right
   since the window's history was filled, and the predictor in use is one
   that no other beats. *)
Score(i) ==
  LET n == Len(seen)
      first == n - ec.lag_observations + LAG_HISTORY_SIZE + 1
  IN  Cardinality({ j \in first .. n : seen[j] = seen[j - i - 1] })

LagScoresAreHits ==
  \A i \in LagIndex :
    /\ ec.lag_scoreboard[i] = Score(i)
    /\ ec.lag_scoreboard[i] <= ec.lag_scoreboard[ec.lag_best]

(* A source that stays stuck through a reset is given up no later than if
   the new collector had counted from its intermittent cutoff on. *)
ResetKeepsStuckRun ==
  LET since == Len(seen) - reset IN
  /\ reset >= 0 /\ since <= Len(stucks) /\ inits = 0
  /\ since >= RctPermanent(ec.osr) - RctCutoff(ec.osr)
  /\ \A j \in Len(stucks) - since + 1 .. Len(stucks) : stucks[j]
  => "rct_permanent" \in ec.failure

(* A value that fills the window a reset falls into fails the new collector
   for good, though that collector has seen only the window's rest. *)
ResetKeepsProportion ==
  LET rest == { j \in reset + 1 .. Len(seen) : seen[j] = seen[window.first] }
  IN  /\ reset >= 0 /\ window.first <= reset /\ rest # {}
      /\ Cardinality(rest) >= AptPermanent(ec.osr) - AptCutoff(ec.osr)
      => "apt_permanent" \in ec.failure

-----------------------------------------------------------------------------
(* jitterentropy-health.c:646-651: a reset puts the RCT of the new collector
   at its intermittent cutoff. *)
RctResumesAtCutoff ==
  [][reset' # reset => ec'.rct_count = RctCutoff(ec'.osr)]_vars
=============================================================================
