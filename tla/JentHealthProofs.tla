--------------------------- MODULE JentHealthProofs ---------------------------
(***************************************************************************)
(* Proofs about JentHealth: its five invariants, for every set of deltas,  *)
(* size of the windows and table of cutoffs.  First the operators, from    *)
(* the cutoffs' arithmetic to what one delta makes of the three tests      *)
(* (MeasuredEffect) and a reset of a collector (DuplicatedEffect); then    *)
(* the invariant, which says what each count means in terms of the history *)
(* of deltas and stuck results; then one lemma for each test and action.   *)
(* The last part is about JentPowerUp: Euclid's loop, the fold of it over  *)
(* a history, and the verdict that rests on them.                          *)
(***************************************************************************)
EXTENDS JentPowerUp, FiniteSetTheorems, SequenceTheorems, WellFoundedInduction, TLAPS

(* The time deltas of the library, of which Delta is a part. *)
Value == 0 .. Modulus - 1

(* The health part of struct rand_data. *)
Health ==
  [ osr : MinOsr .. MaxOsr, failure : SUBSET Failures, rct_count : Nat,
    apt_base_set : BOOLEAN, apt_base : Value, apt_count : Nat,
    apt_observations : Nat, lag_observations : Nat,
    lag_history : [LagIndex -> Value], lag_scoreboard : [LagIndex -> Nat],
    lag_best : LagIndex, lag_count : Nat, lag_run : Nat ]

(* The type invariant: the collector is one that struct rand_data can hold,
   and the last health reset lies in the history. *)
TypeOK ==
  /\ ec \in Health
  /\ seen \in Seq(Value) /\ stucks \in Seq(BOOLEAN)
  /\ reset \in Nat \cup {-1} /\ reset <= Len(seen)
  /\ window \in [first : Nat, last : Nat]
  /\ inits \in Nat

(* What a test leaves alone: the state of the other tests. *)
SameRct(r, e) == r.rct_count = e.rct_count

SameApt(r, e) ==
  /\ r.apt_base_set = e.apt_base_set /\ r.apt_base = e.apt_base
  /\ r.apt_count = e.apt_count /\ r.apt_observations = e.apt_observations

SameLag(r, e) ==
  /\ r.lag_observations = e.lag_observations /\ r.lag_history = e.lag_history
  /\ r.lag_scoreboard = e.lag_scoreboard /\ r.lag_best = e.lag_best

-----------------------------------------------------------------------------
(* An alarm is added to the failures and leaves the rest alone. *)
LEMMA AlarmAdds ==
  ASSUME NEW e \in Health, NEW f \in SUBSET Failures
  PROVE  LET r == Alarm(e, f)
         IN  /\ r \in Health /\ r.osr = e.osr /\ r.failure = e.failure \cup f
             /\ SameRct(r, e) /\ SameApt(r, e) /\ SameLag(r, e)
<1> DEFINE g == e.failure \cup f
<1>1. g \in SUBSET Failures
  BY DEF Health
<1>2. Alarm(e, f) = [e EXCEPT !.failure = g]
  BY DEF Alarm, Health
<1> HIDE DEF g
<1>3. QED
  BY <1>1, <1>2 DEF Health, SameRct, SameApt, SameLag, g

(* Setting the repetition count leaves the rest alone. *)
LEMMA RctSet ==
  ASSUME NEW e \in Health, NEW n \in Nat,
         NEW r, r = [e EXCEPT !.rct_count = n]
  PROVE  /\ r \in Health /\ r.osr = e.osr /\ r.failure = e.failure
         /\ r.rct_count = n /\ SameApt(r, e) /\ SameLag(r, e)
BY DEF Health, SameApt, SameLag

-----------------------------------------------------------------------------
(* Arithmetic: remainders by a positive number and quotients rounded up. *)
LEMMA Division ==
  ASSUME NEW n \in Nat \ {0}, NEW a \in Nat
  PROVE  /\ a \div n \in Nat /\ a % n \in 0 .. n - 1
         /\ a = n * (a \div n) + (a % n)
<1>1. \A k \in Nat \ {0} : \A x \in Nat :
        /\ x \div k \in Int /\ x % k \in 0 .. k - 1
        /\ x % k = x - k * (x \div k)
  BY Z3
<1> DEFINE q == a \div n
           r == a % n
<1>2. q \in Int /\ r \in 0 .. n - 1 /\ r = a - n * q
  BY <1>1
<1> HIDE DEF q, r
<1>3. n * q \in Int
  BY <1>2
<1>4. q < 0 => n * q <= -n
  BY <1>2, Z3
<1>5. QED
  BY <1>2, <1>3, <1>4 DEF q, r

(* A remainder is the only one in its range. *)
LEMMA RemainderUnique ==
  ASSUME NEW n \in Nat \ {0}, NEW a \in Nat, NEW q \in Int, NEW m \in 0 .. n - 1,
         a = n * q + m
  PROVE  a % n = m
BY Z3

(* Multiples of a number lie as far apart as their factors say. *)
LEMMA Multiples ==
  ASSUME NEW n \in Nat \ {0}, NEW p \in Int, NEW q \in Int
  PROVE  /\ n * p \in Int /\ n * q - n * p = n * (q - p)
         /\ q - p <= 0 => n * (q - p) <= 0
         /\ q - p >= 1 => n * (q - p) >= n
<1>1. n * p \in Int /\ n * q \in Int
  OBVIOUS
<1>2. n * q - n * p = n * (q - p)
  BY Z3
<1>3. q - p <= 0 => n * (q - p) <= 0
  BY Z3
<1>4. q - p >= 1 => n * (q - p) >= n
  BY Z3
<1>5. QED
  BY <1>1, <1>2, <1>3, <1>4

(* Two numbers with one remainder are a divisor apart. *)
LEMMA RemaindersMeet ==
  ASSUME NEW n \in Nat \ {0}, NEW a \in Nat, NEW b \in Nat, a < b, a % n = b % n
  PROVE  a + n <= b
<1> DEFINE p == a \div n
           q == b \div n
           m == a % n
<1>1. /\ p \in Int /\ q \in Int /\ m \in Int
      /\ a = n * p + m /\ b = n * q + m
  BY Division
<1> HIDE DEF p, q, m
<1>2. /\ n * p \in Int /\ n * q \in Int
      /\ n * q - n * p = n * (q - p)
      /\ q - p <= 0 => n * (q - p) <= 0
      /\ q - p >= 1 => n * (q - p) >= n
  BY <1>1, Multiples
<1> DEFINE x == n * p
           y == n * q
           z == n * (q - p)
<1>3. x \in Int /\ y \in Int /\ z = y - x /\ a = x + m /\ b = y + m
  BY <1>1, <1>2
<1>4. (q - p <= 0 => z <= 0) /\ (q - p >= 1 => z >= n)
  BY <1>2
<1> HIDE DEF x, y, z
<1>5. QED
  BY <1>1, <1>3, <1>4

(* A divisor further, the remainder is the same. *)
LEMMA RemainderStep ==
  ASSUME NEW n \in Nat \ {0}, NEW a \in Nat
  PROVE  (a + n) % n = a % n
<1> DEFINE p == a \div n
           m == a % n
<1>1. p \in Int /\ m \in 0 .. n - 1 /\ a = n * p + m
  BY Division
<1> HIDE DEF p, m
<1>2. n * (p + 1) = n * p + n /\ n * p \in Int
  BY <1>1, Z3
<1>3. a + n = n * (p + 1) + m
  BY <1>1, <1>2
<1>4. a + n \in Nat /\ p + 1 \in Int
  BY <1>1
<1>5. (a + n) % n = m
  BY <1>1, <1>3, <1>4, RemainderUnique
<1>6. QED
  BY <1>5 DEF m

(* Dividing and rounding up leaves a positive number positive and no greater,
   and its double greater, if it is no smaller than the divisor. *)
LEMMA RoundedUp ==
  ASSUME NEW n \in Nat \ {0}, NEW c \in Nat \ {0}, n <= c
  PROVE  LET a == (c + n - 1) \div n
             b == (2 * c + n - 1) \div n
         IN  a \in Nat \ {0} /\ b \in Nat /\ a < b /\ a <= c
<1> DEFINE u == c + n - 1
           v == 2 * c + n - 1
           a == u \div n
           b == v \div n
           r == u % n
           s == v % n
<1>1. u \in Nat /\ v \in Nat
  OBVIOUS
<1> HIDE DEF u, v
<1>2. /\ a \in Nat /\ b \in Nat /\ r \in 0 .. n - 1 /\ s \in 0 .. n - 1
      /\ u = n * a + r /\ v = n * b + s
  BY <1>1, Division
<1> HIDE DEF a, b, r, s
<1>3. a # 0
  <2>1. a = 0 => n * a = 0
    BY Z3
  <2>2. QED
    BY <1>2, <2>1 DEF u
<1>4. a < b
  <2>1. /\ n * a \in Int /\ n * b \in Int /\ n * a - n * b = n * (a - b)
        /\ a - b >= 1 => n * (a - b) >= n
        /\ a = b => n * a = n * b
    BY <1>2, Multiples
  <2> DEFINE x == n * a
             y == n * b
             z == n * (a - b)
  <2>2. x \in Int /\ y \in Int /\ z = x - y /\ u = x + r /\ v = y + s
    BY <1>2, <2>1
  <2>3. (a - b >= 1 => z >= n) /\ (a = b => x = y)
    BY <2>1
  <2> HIDE DEF x, y, z
  <2>4. QED
    BY <1>2, <2>2, <2>3 DEF u, v
<1>5. a <= c
  <2>1. ASSUME a - c >= 1 PROVE FALSE
    <3>1. n * c \in Int /\ n * a \in Int /\ n * a - n * c >= n
      BY <1>2, <2>1, Multiples
    <3>2. n * c >= c
      BY Z3
    <3> DEFINE x == n * a
               y == n * c
    <3>3. x \in Int /\ y \in Int /\ x - y >= n /\ y >= c /\ u = x + r
      BY <1>2, <3>1, <3>2
    <3> HIDE DEF x, y
    <3>4. QED
      BY <1>2, <3>3 DEF u
  <2>2. QED
    BY <1>2, <2>1
<1>6. QED
  BY <1>2, <1>3, <1>4, <1>5 DEF a, b, u, v

-----------------------------------------------------------------------------
(* Cutoffs. *)
LEMMA LookupIn ==
  ASSUME NEW S, NEW table \in Seq(S), table # << >>, NEW osr \in Nat \ {0}
  PROVE  Lookup(table, osr) \in S
<1>1. Len(table) \in Nat \ {0}
  BY EmptySeq, LenProperties
<1>2. (IF osr > Len(table) THEN Len(table) ELSE osr) \in 1 .. Len(table)
  BY <1>1
<1>3. QED
  BY <1>1, <1>2, ElementOfSeq DEF Lookup

(* The cutoffs of every osr are numbers; the RCT's intermittent one lies
   below its permanent one and not above the count a reset starts with; and
   one occurrence is below every cutoff of the APT. *)
LEMMA Cutoffs ==
  ASSUME NEW osr \in MinOsr .. MaxOsr
  PROVE  /\ RctCutoff(osr) \in Nat \ {0} /\ RctPermanent(osr) \in Nat
         /\ RctCutoff(osr) < RctPermanent(osr)
         /\ RctRate * osr \in Nat /\ RctCutoff(osr) <= RctRate * osr
         /\ AptCutoff(osr) \in Nat \ {0, 1} /\ AptPermanent(osr) \in Nat \ {0, 1}
         /\ Lookup(LagLocalLookup, osr) \in Nat
         /\ Lookup(LagGlobalLookup, osr) \in Nat
<1>1. osr \in Nat \ {0} /\ MinOsr \in Nat \ {0} /\ MinOsr <= osr
  BY SizeAssumption
<1>2. /\ AptCutoff(osr) \in Nat \ {0, 1} /\ AptPermanent(osr) \in Nat \ {0, 1}
      /\ Lookup(LagLocalLookup, osr) \in Nat
      /\ Lookup(LagGlobalLookup, osr) \in Nat
  BY <1>1, LookupIn, CutoffAssumption DEF AptCutoff, AptPermanent
<1> DEFINE c == RctRate * osr
<1>3. c \in Nat \ {0} /\ Safety <= c /\ Safety \in Nat /\ 2 * RctRate * osr = 2 * c
  <2>1. RctRate \in Nat \ {0} /\ Safety \in Nat /\ Safety <= RctRate * MinOsr
    BY CutoffAssumption
  <2>2. c \in Nat \ {0} /\ RctRate * MinOsr <= c /\ 2 * RctRate * osr = 2 * c
    <3>1. /\ RctRate * MinOsr \in Int /\ RctRate * osr - RctRate * MinOsr = RctRate * (osr - MinOsr)
      BY <1>1, <2>1, Multiples
    <3>2. RctRate * (osr - MinOsr) >= 0
      BY <1>1, <2>1, Z3
    <3>3. c \in Nat \ {0} /\ 2 * RctRate * osr = 2 * c
      BY <1>1, <2>1, Z3
    <3> QED BY <3>1, <3>2, <3>3
  <2>3. RctRate * MinOsr \in Int
    BY <1>1, <2>1
  <2> QED BY <2>1, <2>2, <2>3
<1>4. RctCutoff(osr) = RctSafety(c) /\ RctPermanent(osr) = RctSafety(2 * c)
  BY <1>3 DEF RctCutoff, RctPermanent
<1> HIDE DEF c
<1>5. CASE Safety = 0
  BY <1>2, <1>3, <1>4, <1>5 DEF RctSafety, c
<1>6. CASE Safety # 0
  <2>1. /\ RctSafety(c) \in Nat \ {0} /\ RctSafety(2 * c) \in Nat
        /\ RctSafety(c) < RctSafety(2 * c) /\ RctSafety(c) <= c
    <3>1. /\ RctSafety(c) = (c + Safety - 1) \div Safety
          /\ RctSafety(2 * c) = (2 * c + Safety - 1) \div Safety
      BY <1>6 DEF RctSafety
    <3>2. Safety \in Nat \ {0}
      BY <1>3, <1>6
    <3>3. QED
      BY <1>3, <3>1, <3>2, RoundedUp
  <2>2. QED
    BY <1>2, <1>3, <1>4, <2>1 DEF c
<1>7. QED
  BY <1>5, <1>6

-----------------------------------------------------------------------------
(* What each test makes of a collector. *)
(* The alarms that a count raises when it has just grown to n. *)
AptAlarm(n, osr) ==
  IF n >= AptPermanent(osr) THEN { "apt_permanent" }
  ELSE IF n = AptCutoff(osr) THEN { "apt" } ELSE {}

RctAlarm(n, osr) ==
  IF n >= RctPermanent(osr) THEN { "rct_permanent" }
  ELSE IF n = RctCutoff(osr) THEN { "rct" } ELSE {}

(* AptCount: one more observation, one more occurrence if d is the base, and
   the alarm of the new count. *)
LEMMA AptCountEffect ==
  ASSUME NEW e \in Health, NEW d \in Value
  PROVE  LET r == AptCount(e, d)
             n == e.apt_count + 1
         IN  /\ r \in Health /\ r.osr = e.osr
             /\ r.apt_base_set = (e.apt_observations + 1 < APT_WINDOW_SIZE)
             /\ r.apt_base = e.apt_base
             /\ r.apt_observations = e.apt_observations + 1
             /\ r.apt_count = IF d = e.apt_base THEN n ELSE e.apt_count
             /\ r.failure = e.failure \cup
                              IF d = e.apt_base THEN AptAlarm(n, e.osr) ELSE {}
             /\ SameRct(r, e) /\ SameLag(r, e)
<1>1. e.apt_count \in Nat /\ e.apt_observations \in Nat /\ e.failure \subseteq Failures
  BY DEF Health
<1>2. PICK n \in Nat : n = IF d = e.apt_base THEN e.apt_count + 1 ELSE e.apt_count
  BY <1>1
<1>3. PICK o \in Nat : o = e.apt_observations + 1
  BY <1>1
<1>4. PICK b : b = (e.apt_observations + 1 < APT_WINDOW_SIZE)
  OBVIOUS
<1>11. b \in BOOLEAN
  BY <1>1, <1>4, SizeAssumption
<1>10. PICK counted : counted = [e EXCEPT !.apt_count = n, !.apt_observations = o,
                                         !.apt_base_set = b]
  OBVIOUS
<1>5. /\ counted \in Health /\ counted.osr = e.osr /\ counted.failure = e.failure
      /\ counted.apt_count = n /\ counted.apt_observations = o
      /\ counted.apt_base_set = b /\ counted.apt_base = e.apt_base
      /\ SameRct(counted, e) /\ SameLag(counted, e)
  BY <1>10, <1>11 DEF Health, SameRct, SameLag
<1>6. AptCount(e, d) = IF n = e.apt_count THEN counted
                       ELSE Alarm(counted, AptAlarm(n, e.osr))
  BY <1>2, <1>3, <1>4, <1>5, <1>10, Zenon DEF AptCount, AptAlarm
<1>7. CASE d = e.apt_base
  <2>1. n = e.apt_count + 1 /\ n # e.apt_count
    BY <1>1, <1>2, <1>7
  <2>2. AptAlarm(n, e.osr) \in SUBSET Failures
    BY DEF AptAlarm, Failures
  <2>3. LET r == Alarm(counted, AptAlarm(n, e.osr))
        IN  /\ r \in Health /\ r.osr = counted.osr
            /\ r.failure = counted.failure \cup AptAlarm(n, e.osr)
            /\ SameRct(r, counted) /\ SameApt(r, counted) /\ SameLag(r, counted)
    BY <1>5, <2>2, AlarmAdds
  <2>4. AptCount(e, d) = Alarm(counted, AptAlarm(n, e.osr))
    BY <1>6, <2>1
  <2>5. QED
    BY <1>3, <1>4, <1>5, <1>7, <2>1, <2>3, <2>4, Zenon DEF SameRct, SameApt, SameLag
<1>8. CASE d # e.apt_base
  <2>1. n = e.apt_count
    BY <1>2, <1>8
  <2>2. AptCount(e, d) = counted
    BY <1>6, <2>1
  <2>3. e.failure = e.failure \cup {}
    OBVIOUS
  <2>4. QED
    BY <1>3, <1>4, <1>5, <1>8, <2>1, <2>2, <2>3, Zenon
<1>9. QED
  BY <1>7, <1>8

(* RctInsert: the count grows with its alarm, or is zero. *)
LEMMA RctEffect ==
  ASSUME NEW e \in Health, NEW stuck \in BOOLEAN
  PROVE  LET r == RctInsert(e, stuck)
             n == e.rct_count + 1
         IN  /\ r \in Health /\ r.osr = e.osr
             /\ r.rct_count = IF stuck THEN n ELSE 0
             /\ r.failure = e.failure \cup IF stuck THEN RctAlarm(n, e.osr) ELSE {}
             /\ SameApt(r, e) /\ SameLag(r, e)
<1>1. e.rct_count \in Nat /\ e.failure \subseteq Failures
  BY DEF Health
<1>2. CASE ~stuck
  <2>1. LET r == [e EXCEPT !.rct_count = 0]
        IN  /\ r \in Health /\ r.osr = e.osr /\ r.failure = e.failure
            /\ r.rct_count = 0 /\ SameApt(r, e) /\ SameLag(r, e)
    BY RctSet
  <2>2. e.failure = e.failure \cup {}
    OBVIOUS
  <2>3. QED
    BY <1>2, <2>1, <2>2, Zenon DEF RctInsert
<1>3. CASE stuck
  <2>1. PICK n \in Nat : n = e.rct_count + 1
    BY <1>1
  <2> DEFINE counted == [e EXCEPT !.rct_count = n]
  <2>2. /\ counted \in Health /\ counted.osr = e.osr
        /\ counted.failure = e.failure /\ counted.rct_count = n
        /\ SameApt(counted, e) /\ SameLag(counted, e)
    BY RctSet
  <2>3. RctInsert(e, stuck) = Alarm(counted, RctAlarm(n, e.osr))
    BY <1>3, <2>1, Zenon DEF RctInsert, RctAlarm
  <2> HIDE DEF counted
  <2>4. RctAlarm(n, e.osr) \in SUBSET Failures
    BY DEF RctAlarm, Failures
  <2>5. LET r == Alarm(counted, RctAlarm(n, e.osr))
        IN  /\ r \in Health /\ r.osr = counted.osr
            /\ r.failure = counted.failure \cup RctAlarm(n, e.osr)
            /\ SameRct(r, counted) /\ SameApt(r, counted) /\ SameLag(r, counted)
    BY <2>2, <2>4, AlarmAdds
  <2>6. QED
    BY <1>3, <2>1, <2>2, <2>3, <2>5, Zenon DEF SameRct, SameApt, SameLag
<1>4. QED
  BY <1>2, <1>3

-----------------------------------------------------------------------------
(* The lag predictor. *)
(* A history or a scoreboard that was wiped is one. *)
LEMMA NoLagTyped == NoLag \in [LagIndex -> Value] /\ NoLag \in [LagIndex -> Nat]
BY DeltaAssumption DEF NoLag, Value

(* The predictors that guess d right, and the scoreboard with their hits. *)
Right(e, d) == { i \in LagIndex : LagHistory(e, i) = d }

(* The scoreboard after the hits of the predictors in right. *)
Raised(s, right) == [i \in LagIndex |-> s[i] + IF i \in right THEN 1 ELSE 0]

(* LagGuess: nothing but the lag predictor's alarm. *)
LEMMA GuessEffect ==
  ASSUME NEW e \in Health, NEW d \in Value
  PROVE  LET r == LagGuess(e, d)
         IN  /\ r \in Health /\ r.osr = e.osr
             /\ r.failure = e.failure \/ r.failure = e.failure \cup {"lag"}
             /\ SameRct(r, e) /\ SameApt(r, e) /\ SameLag(r, e)
<1>1. /\ e.lag_count \in Nat /\ e.lag_run \in Nat
      /\ {"lag"} \in SUBSET Failures
  BY DEF Health, Failures
<1>2. \A c \in Nat, l \in Nat :
        LET r == [e EXCEPT !.lag_count = c, !.lag_run = l]
        IN  /\ r \in Health /\ r.osr = e.osr /\ r.failure = e.failure
            /\ SameRct(r, e) /\ SameApt(r, e) /\ SameLag(r, e)
  BY DEF Health, SameRct, SameApt, SameLag
<1>3. LET r == [e EXCEPT !.lag_run = 0]
      IN  /\ r \in Health /\ r.osr = e.osr /\ r.failure = e.failure
          /\ SameRct(r, e) /\ SameApt(r, e) /\ SameLag(r, e)
  BY DEF Health, SameRct, SameApt, SameLag
<1>4. PICK c \in Nat, l \in Nat : c = e.lag_count + 1 /\ l = e.lag_run + 1
  BY <1>1
<1> DEFINE hit == [e EXCEPT !.lag_count = c, !.lag_run = l]
<1>5. \/ LagGuess(e, d) = [e EXCEPT !.lag_run = 0]
      \/ LagGuess(e, d) = hit
      \/ LagGuess(e, d) = Alarm(hit, {"lag"})
  BY <1>4, Zenon DEF LagGuess
<1>6. /\ hit \in Health /\ hit.osr = e.osr /\ hit.failure = e.failure
      /\ SameRct(hit, e) /\ SameApt(hit, e) /\ SameLag(hit, e)
  BY <1>2
<1> HIDE DEF hit
<1>7. LET r == Alarm(hit, {"lag"})
      IN  /\ r \in Health /\ r.osr = hit.osr /\ r.failure = hit.failure \cup {"lag"}
          /\ SameRct(r, hit) /\ SameApt(r, hit) /\ SameLag(r, hit)
  BY <1>1, <1>6, AlarmAdds
<1>8. QED
  BY <1>3, <1>5, <1>6, <1>7, Zenon DEF SameRct, SameApt, SameLag

-----------------------------------------------------------------------------
(* Every set of natural numbers that is not empty has a least member: with it
   a property of a loop is shown for every number of rounds. *)
LEMMA LeastOf ==
  ASSUME NEW T \in SUBSET Nat, T # {}
  PROVE  \E x \in T : \A y \in T : x <= y
<1> DEFINE R == { ss \in Nat \X Nat : ss[1] < ss[2] }
<1>1. R = OpToRel(<, Nat)
  BY DEF OpToRel
<1>2. IsWellFoundedOn(R, Nat)
  BY <1>1, NatLessThanWellFounded, Zenon
<1>3. \E x \in T : \A y \in T : ~ (<<y, x>> \in R)
  <2> HIDE DEF R
  <2> QED BY <1>2, WFMin, Zenon
<1>4. PICK x \in T : \A y \in T : ~ (<<y, x>> \in R)
  BY <1>3
<1>5. ASSUME NEW y \in T, y < x PROVE <<y, x>> \in R
  <2>1. <<y, x>> \in Nat \X Nat
    OBVIOUS
  <2>2. <<y, x>>[1] < <<y, x>>[2]
    BY <1>5
  <2>3. QED
    BY <2>1, <2>2, Zenon
<1>6. \A y \in T : x <= y
  <2>1. \A y \in T : ~ (y < x)
    BY <1>4, <1>5, Zenon
  <2>2. QED
    BY <2>1
<1>7. QED
  BY <1>6

(* One round of the walk over the scoreboard in jent_lag_insert: the score of
   the best predictor b is raised only if the walk has passed it. *)
NextBest(e, right, i, b) ==
  IF /\ i \in right
     /\ e.lag_scoreboard[i] + (IF i \in right THEN 1 ELSE 0)
          > IF b < i THEN e.lag_scoreboard[b] + (IF b \in right THEN 1 ELSE 0)
                     ELSE e.lag_scoreboard[b]
  THEN i ELSE b

(* f[n] is the best predictor after n rounds, for n up to k. *)
IsWalk(e, right, k, f) ==
  f = [n \in 0 .. k |-> IF n = 0 THEN e.lag_best
                        ELSE NextBest(e, right, n - 1, f[n - 1])]

(* By induction on the number of rounds: the walk is defined. *)
LEMMA WalkExists ==
  ASSUME NEW e, NEW right, NEW k \in Nat
  PROVE  \E f : IsWalk(e, right, k, f)
<1> USE DEF IsWalk
<1> DEFINE Walk(m) == \E f : IsWalk(e, right, m, f)
           T == { m \in Nat : ~Walk(m) }
<1>1. SUFFICES ASSUME T # {} PROVE FALSE
  OBVIOUS
<1>2. PICK m \in T : \A y \in T : m <= y
  BY <1>1, LeastOf, Zenon
<1>3. m \in Nat /\ ~Walk(m)
  OBVIOUS
<1>4. m # 0
  <2>1. Walk(0)
    <3> DEFINE f0 == [n \in 0 .. 0 |-> e.lag_best]
    <3>1. f0 = [n \in 0 .. 0 |->
                  IF n = 0 THEN e.lag_best
                           ELSE NextBest(e, right, n - 1, f0[n - 1])]
      OBVIOUS
    <3> QED BY <3>1
  <2> QED BY <2>1, <1>3
<1>5. Walk(m - 1)
  <2>1. m - 1 \in Nat /\ ~ (m <= m - 1)
    BY <1>3, <1>4
  <2>2. m - 1 \notin T
    BY <1>2, <2>1, Zenon
  <2>3. QED
    BY <2>1, <2>2, Zenon
<1>6. PICK g : g = [n \in 0 .. m - 1 |->
                      IF n = 0 THEN e.lag_best
                               ELSE NextBest(e, right, n - 1, g[n - 1])]
  BY <1>5
<1> DEFINE f == [n \in 0 .. m |->
                   IF n = m THEN NextBest(e, right, m - 1, g[m - 1]) ELSE g[n]]
<1>7. f = [n \in 0 .. m |->
             IF n = 0 THEN e.lag_best
                      ELSE NextBest(e, right, n - 1, f[n - 1])]
  BY <1>6, <1>3, <1>4
<1>8. QED
  BY <1>7, <1>3

(* LagBest is the end of that walk. *)
LEMMA LagBestIsWalk ==
  ASSUME NEW e, NEW right
  PROVE  \E f : /\ IsWalk(e, right, LAG_HISTORY_SIZE, f)
                /\ LagBest(e, right) = f[LAG_HISTORY_SIZE]
<1> DEFINE best == CHOOSE f : IsWalk(e, right, LAG_HISTORY_SIZE, f)
<1>1. LAG_HISTORY_SIZE \in Nat
  BY SizeAssumption
<1>2. \E f : IsWalk(e, right, LAG_HISTORY_SIZE, f)
  BY <1>1, WalkExists
<1>3. IsWalk(e, right, LAG_HISTORY_SIZE, best)
  BY <1>2, Zenon
<1>4. LagBest(e, right) = best[LAG_HISTORY_SIZE]
  BY Zenon DEF LagBest, NextBest, IsWalk
<1>5. QED
  BY <1>3, <1>4, Zenon

(* The walk ends at a predictor that no other beats, if it began at one. *)
LEMMA BestIsUnbeaten ==
  ASSUME NEW e \in Health, NEW right \in SUBSET LagIndex,
         \A i \in LagIndex : e.lag_scoreboard[i] <= e.lag_scoreboard[e.lag_best]
  PROVE  LET s == Raised(e.lag_scoreboard, right)
             b == LagBest(e, right)
         IN  b \in LagIndex /\ \A i \in LagIndex : s[i] <= s[b]
<1> DEFINE H == LAG_HISTORY_SIZE
           s == e.lag_scoreboard
<1>1. /\ s \in [LagIndex -> Nat] /\ e.lag_best \in LagIndex
      /\ H \in Nat \ {0} /\ LagIndex = 0 .. H - 1
  BY SizeAssumption DEF Health, LagIndex
<1>2. PICK f : /\ f = [n \in 0 .. H |->
                         IF n = 0 THEN e.lag_best
                                  ELSE NextBest(e, right, n - 1, f[n - 1])]
               /\ LagBest(e, right) = f[H]
  BY LagBestIsWalk DEF IsWalk
<1> DEFINE Now(n, i) == s[i] + IF i < n /\ i \in right THEN 1 ELSE 0
           Good(n) == /\ f[n] \in LagIndex
                      /\ \A i \in LagIndex : Now(n, i) <= Now(n, f[n])
           T == { n \in 0 .. H : ~Good(n) }
<1>3. Good(H)
  <2>1. SUFFICES ASSUME ~Good(H) PROVE FALSE
    OBVIOUS
  <2>2. T \in SUBSET Nat /\ T # {}
    <3>1. H \in 0 .. H
      BY <1>1
    <3>2. T # {}
      BY <2>1, <3>1, Zenon
    <3>3. QED
      BY <1>1, <3>2
  <2>3. PICK m \in T : \A y \in T : m <= y
    BY <2>2, LeastOf, Zenon
  <2>4. m \in 0 .. H /\ ~Good(m)
    OBVIOUS
  <2>5. Good(0)
    <3>1. 0 \in 0 .. H
      BY <1>1
    <3>2. f[0] = e.lag_best
      BY <1>2, <3>1, Zenon
    <3>3. \A i \in LagIndex : Now(0, i) = s[i]
      BY <1>1
    <3>4. f[0] \in LagIndex /\ \A i \in LagIndex : Now(0, i) <= Now(0, f[0])
      <4>1. e.lag_best \in LagIndex /\ \A i \in LagIndex : s[i] <= s[e.lag_best]
        BY <1>1
      <4>2. QED
        BY <3>2, <3>3, <4>1
    <3>5. QED
      BY <3>4, Zenon
  <2>6. m # 0
    BY <2>4, <2>5
  <2>7. m - 1 \in 0 .. H /\ Good(m - 1) /\ m - 1 \in LagIndex
    BY <1>1, <2>3, <2>4, <2>6
  <2>8. f[m] = NextBest(e, right, m - 1, f[m - 1])
    BY <1>2, <2>4, <2>6
  <2> DEFINE b == f[m - 1]
             i == m - 1
  <2>9. b \in LagIndex /\ i \in LagIndex /\ \A j \in LagIndex : Now(i, j) <= Now(i, b)
    BY <2>7
  <2>10. \A j \in LagIndex :
           /\ s[j] \in Nat
           /\ Now(m, j) = IF j = i /\ i \in right THEN s[i] + 1 ELSE Now(i, j)
           /\ Now(i, j) \in Nat
    BY <1>1, <2>4, <2>6
  <2>11. Now(i, i) = s[i]
    BY <1>1, <2>9
  <2>12. f[m] = IF i \in right /\ s[i] + 1 > Now(i, b) THEN i ELSE b
    <3>1. (IF b < i THEN s[b] + (IF b \in right THEN 1 ELSE 0) ELSE s[b]) = Now(i, b)
      BY <1>1, <2>9
    <3>2. QED
      BY <2>8, <3>1 DEF NextBest
  <2> HIDE DEF Now, b, i, s
  <2>13. /\ f[m] \in LagIndex
         /\ \A j \in LagIndex : Now(m, j) <= Now(m, f[m])
    <3>1. CASE i \in right /\ s[i] + 1 > Now(i, b)
      BY <2>9, <2>10, <2>12, <3>1
    <3>2. CASE ~(i \in right /\ s[i] + 1 > Now(i, b))
      BY <2>9, <2>10, <2>11, <2>12, <3>2
    <3>3. QED
      BY <3>1, <3>2
  <2>14. QED
    BY <2>4, <2>13
<1>4. \A i \in LagIndex : Now(H, i) = Raised(s, right)[i]
  BY <1>1 DEF Raised
<1>5. QED
  BY <1>2, <1>3, <1>4 DEF Raised

(* LagScore: the scores of the right predictors, and a best one. *)
LEMMA ScoreEffect ==
  ASSUME NEW e \in Health, NEW d \in Value,
         \A i \in LagIndex : e.lag_scoreboard[i] <= e.lag_scoreboard[e.lag_best]
  PROVE  LET r == LagScore(e, d)
             s == Raised(e.lag_scoreboard, Right(e, d))
         IN  /\ r \in Health /\ r.osr = e.osr /\ r.failure = e.failure
             /\ SameRct(r, e) /\ SameApt(r, e)
             /\ r.lag_observations = e.lag_observations
             /\ r.lag_history = e.lag_history
             /\ r.lag_scoreboard = s
             /\ \A i \in LagIndex : s[i] <= s[r.lag_best]
<1>1. Right(e, d) \in SUBSET LagIndex
  BY DEF Right
<1>2. PICK b \in LagIndex :
        /\ b = LagBest(e, Right(e, d))
        /\ \A i \in LagIndex : Raised(e.lag_scoreboard, Right(e, d))[i]
                                 <= Raised(e.lag_scoreboard, Right(e, d))[b]
  BY <1>1, BestIsUnbeaten
<1>3. Raised(e.lag_scoreboard, Right(e, d)) \in [LagIndex -> Nat]
  BY DEF Raised, Health
<1>4. PICK s \in [LagIndex -> Nat] : s = Raised(e.lag_scoreboard, Right(e, d))
  BY <1>3
<1>5. PICK r : r = LagScore(e, d)
  OBVIOUS
<1>6. r = [e EXCEPT !.lag_best = b, !.lag_scoreboard = s]
  BY <1>2, <1>4, <1>5, Zenon DEF LagScore, Right, Raised
<1>7. /\ r \in Health /\ r.osr = e.osr /\ r.failure = e.failure
      /\ SameRct(r, e) /\ SameApt(r, e)
      /\ r.lag_observations = e.lag_observations
      /\ r.lag_history = e.lag_history
      /\ r.lag_scoreboard = s /\ r.lag_best = b
  BY <1>6 DEF Health, SameRct, SameApt
<1>8. QED
  BY <1>2, <1>4, <1>5, <1>7, Zenon

(* LagStore: the delta takes its place in the history. *)
LEMMA StoreEffect ==
  ASSUME NEW e \in Health, NEW d \in Value
  PROVE  LET r == LagStore(e, d)
             o == e.lag_observations
         IN  /\ r \in Health /\ r.osr = e.osr /\ r.failure = e.failure
             /\ SameRct(r, e) /\ SameApt(r, e)
             /\ r.lag_observations = o + 1
             /\ r.lag_history = [e.lag_history EXCEPT ![o % LAG_HISTORY_SIZE] = d]
             /\ r.lag_scoreboard = e.lag_scoreboard
             /\ r.lag_best = e.lag_best
<1>1. e.lag_observations \in Nat /\ e.lag_history \in [LagIndex -> Value]
  BY DEF Health
<1>2. PICK o \in Nat : o = e.lag_observations + 1
  BY <1>1
<1>3. PICK h \in [LagIndex -> Value] :
        h = [e.lag_history EXCEPT ![e.lag_observations % LAG_HISTORY_SIZE] = d]
  BY <1>1
<1>4. PICK r : r = LagStore(e, d)
  OBVIOUS
<1>5. r = [e EXCEPT !.lag_history = h, !.lag_observations = o]
  <2>1. LagStore(e, d) = [e EXCEPT
          !.lag_history = [e.lag_history EXCEPT
                             ![e.lag_observations % LAG_HISTORY_SIZE] = d],
          !.lag_observations = e.lag_observations + 1]
    BY DEF LagStore, Health
  <2>2. QED
    BY <1>2, <1>3, <1>4, <2>1, Zenon
<1>6. /\ r \in Health /\ r.osr = e.osr /\ r.failure = e.failure
      /\ SameRct(r, e) /\ SameApt(r, e)
      /\ r.lag_observations = o /\ r.lag_history = h
      /\ r.lag_scoreboard = e.lag_scoreboard
      /\ r.lag_best = e.lag_best
  BY <1>5 DEF Health, SameRct, SameApt
<1>7. QED
  BY <1>2, <1>3, <1>4, <1>6, Zenon

(* LagReset: the predictor starts afresh. *)
LEMMA LagResetEffect ==
  ASSUME NEW e \in Health
  PROVE  LET r == LagReset(e)
         IN  /\ r \in Health /\ r.osr = e.osr /\ r.failure = e.failure
             /\ SameRct(r, e) /\ SameApt(r, e)
             /\ r.lag_observations = 0 /\ r.lag_history = NoLag
             /\ r.lag_scoreboard = NoLag /\ r.lag_best = 0
<1>1. 0 \in LagIndex
  BY SizeAssumption DEF LagIndex
<1>2. QED
  BY <1>1, NoLagTyped DEF LagReset, Health, SameRct, SameApt

(* What a delta makes of the lag predictor: in the first part of a window it
   only fills the history, afterwards the right predictors score. *)
Unbeaten(e) ==
  \A i \in LagIndex : e.lag_scoreboard[i] <= e.lag_scoreboard[e.lag_best]

(* The history with d at the place of the next observation. *)
Stored(e, d) ==
  [e.lag_history EXCEPT ![e.lag_observations % LAG_HISTORY_SIZE] = d]

(* LagInsert: filling, scoring, or the end of a window. *)
LEMMA LagEffect ==
  ASSUME NEW e \in Health, NEW d \in Value, Unbeaten(e)
  PROVE  LET r == LagInsert(e, d)
             o == e.lag_observations
         IN  /\ r \in Health /\ r.osr = e.osr
             /\ r.failure = e.failure \/ r.failure = e.failure \cup {"lag"}
             /\ SameRct(r, e) /\ SameApt(r, e)
             /\ Unbeaten(r)
             /\ o < LAG_HISTORY_SIZE =>
                  /\ r.lag_observations = o + 1 /\ r.lag_history = Stored(e, d)
                  /\ r.lag_scoreboard = e.lag_scoreboard
             /\ o >= LAG_HISTORY_SIZE /\ o + 1 < LAG_WINDOW_SIZE =>
                  /\ r.lag_observations = o + 1 /\ r.lag_history = Stored(e, d)
                  /\ r.lag_scoreboard = Raised(e.lag_scoreboard, Right(e, d))
             /\ o >= LAG_HISTORY_SIZE /\ o + 1 >= LAG_WINDOW_SIZE =>
                  /\ r.lag_observations = 0 /\ r.lag_scoreboard = NoLag
<1>1. /\ e.lag_observations \in Nat
      /\ LAG_HISTORY_SIZE \in Nat /\ LAG_WINDOW_SIZE \in Nat
      /\ LAG_HISTORY_SIZE < LAG_WINDOW_SIZE
  BY SizeAssumption DEF Health
<1>2. CASE e.lag_observations < LAG_HISTORY_SIZE
  <2>1. LagInsert(e, d) = LagStore(e, d)
    BY <1>2 DEF LagInsert
  <2>2. ~(e.lag_observations >= LAG_HISTORY_SIZE)
    BY <1>1, <1>2
  <2>3. Unbeaten(LagStore(e, d))
    BY StoreEffect, Zenon DEF Unbeaten
  <2>4. QED
    BY <1>2, <2>1, <2>2, <2>3, StoreEffect, Zenon DEF Stored
<1>3. CASE e.lag_observations >= LAG_HISTORY_SIZE
  <2>1. ~(e.lag_observations < LAG_HISTORY_SIZE)
    BY <1>1, <1>3
  <2>2. PICK guess : guess = LagGuess(e, d)
    OBVIOUS
  <2>3. /\ guess \in Health /\ guess.osr = e.osr
        /\ guess.failure = e.failure \/ guess.failure = e.failure \cup {"lag"}
        /\ SameRct(guess, e) /\ SameApt(guess, e) /\ SameLag(guess, e)
    BY <2>2, GuessEffect, Zenon
  <2>4. Right(guess, d) = Right(e, d)
    BY <2>3 DEF Right, LagHistory, SameLag
  <2>5. Unbeaten(guess)
    BY <2>3, Zenon DEF Unbeaten, SameLag
  <2>6. PICK score : score = LagScore(guess, d)
    OBVIOUS
  <2> DEFINE s == Raised(e.lag_scoreboard, Right(e, d))
  <2>7. /\ score \in Health /\ score.osr = guess.osr /\ score.failure = guess.failure
        /\ SameRct(score, guess) /\ SameApt(score, guess)
        /\ score.lag_observations = e.lag_observations
        /\ score.lag_history = e.lag_history
        /\ score.lag_scoreboard = s
        /\ \A i \in LagIndex : s[i] <= s[score.lag_best]
    <3>1. /\ score \in Health /\ score.osr = guess.osr
          /\ score.failure = guess.failure
          /\ SameRct(score, guess) /\ SameApt(score, guess)
          /\ score.lag_observations = guess.lag_observations
          /\ score.lag_history = guess.lag_history
          /\ score.lag_scoreboard = Raised(guess.lag_scoreboard, Right(guess, d))
          /\ \A i \in LagIndex :
               Raised(guess.lag_scoreboard, Right(guess, d))[i]
                 <= Raised(guess.lag_scoreboard, Right(guess, d))[score.lag_best]
      BY <2>3, <2>5, <2>6, ScoreEffect DEF Unbeaten
    <3>2. Raised(guess.lag_scoreboard, Right(guess, d)) = s
      BY <2>3, <2>4, Zenon DEF SameLag
    <3> HIDE DEF s
    <3>3. QED
      BY <2>3, <3>1, <3>2, Zenon DEF SameLag
  <2> HIDE DEF s
  <2>8. PICK after : after = LagStore(score, d)
    OBVIOUS
  <2>9. /\ after \in Health /\ after.osr = score.osr /\ after.failure = score.failure
        /\ SameRct(after, score) /\ SameApt(after, score)
        /\ after.lag_observations = e.lag_observations + 1
        /\ after.lag_history = Stored(e, d)
        /\ after.lag_scoreboard = s /\ after.lag_best = score.lag_best
    <3>1. /\ after \in Health /\ after.osr = score.osr
          /\ after.failure = score.failure
          /\ SameRct(after, score) /\ SameApt(after, score)
          /\ after.lag_observations = score.lag_observations + 1
          /\ after.lag_history = Stored(score, d)
          /\ after.lag_scoreboard = score.lag_scoreboard
          /\ after.lag_best = score.lag_best
      BY <2>7, <2>8, StoreEffect DEF Stored
    <3>2. Stored(score, d) = Stored(e, d)
      BY <2>7, Zenon DEF Stored
    <3>3. QED
      BY <2>7, <3>1, <3>2, Zenon
  <2>10. Unbeaten(after)
    BY <2>7, <2>9, Zenon DEF Unbeaten
  <2>11. SameRct(after, e) /\ SameApt(after, e)
    BY <2>3, <2>7, <2>9, Zenon DEF SameRct, SameApt
  <2>12. LagInsert(e, d) = IF after.lag_observations >= LAG_WINDOW_SIZE
                           THEN LagReset(after) ELSE after
    BY <2>1, <2>2, <2>6, <2>8, Zenon DEF LagInsert
  <2>13. CASE e.lag_observations + 1 >= LAG_WINDOW_SIZE
    <3>1. LagInsert(e, d) = LagReset(after)
      BY <2>9, <2>12, <2>13
    <3>2. LET r == LagReset(after)
          IN  /\ r \in Health /\ r.osr = after.osr /\ r.failure = after.failure
              /\ SameRct(r, after) /\ SameApt(r, after)
              /\ r.lag_observations = 0 /\ r.lag_scoreboard = NoLag
              /\ r.lag_best = 0
      BY <2>9, LagResetEffect, Zenon
    <3>3. Unbeaten(LagReset(after))
      <4>1. 0 \in LagIndex /\ \A i \in LagIndex : NoLag[i] <= NoLag[0]
        BY SizeAssumption DEF NoLag, LagIndex
      <4>2. QED
        BY <3>2, <4>1, Zenon DEF Unbeaten
    <3>4. SameRct(LagReset(after), e) /\ SameApt(LagReset(after), e)
      BY <2>11, <3>2, Zenon DEF SameRct, SameApt
    <3>5. ~(e.lag_observations + 1 < LAG_WINDOW_SIZE)
      BY <1>1, <2>13
    <3>6. QED
      BY <2>1, <2>3, <2>7, <2>9, <3>1, <3>2, <3>3, <3>4, <3>5, Zenon
  <2>14. CASE ~(e.lag_observations + 1 >= LAG_WINDOW_SIZE)
    <3>1. LagInsert(e, d) = after
      BY <2>9, <2>12, <2>14
    <3>2. QED
      BY <2>1, <2>3, <2>7, <2>9, <2>10, <2>11, <2>14, <3>1, Zenon DEF s
  <2>15. QED
    BY <2>13, <2>14
<1>4. QED
  BY <1>1, <1>2, <1>3

-----------------------------------------------------------------------------
(* What one delta makes of the three tests, and which alarms it adds. *)
AptMoves(r, e, d) ==
  /\ ~e.apt_base_set =>
       /\ r.apt_base_set /\ r.apt_base = d
       /\ r.apt_count = 1 /\ r.apt_observations = 1
  /\ e.apt_base_set =>
       /\ r.apt_base_set <=> e.apt_observations + 1 < APT_WINDOW_SIZE
       /\ r.apt_base = e.apt_base
       /\ r.apt_observations = e.apt_observations + 1
       /\ r.apt_count = IF d = e.apt_base THEN e.apt_count + 1 ELSE e.apt_count

(* The lag predictor: filling, scoring, or the end of a window. *)
LagMoves(r, e, d) ==
  LET o == e.lag_observations IN
  /\ o < LAG_HISTORY_SIZE =>
       /\ r.lag_observations = o + 1 /\ r.lag_history = Stored(e, d)
       /\ r.lag_scoreboard = e.lag_scoreboard
  /\ o >= LAG_HISTORY_SIZE /\ o + 1 < LAG_WINDOW_SIZE =>
       /\ r.lag_observations = o + 1 /\ r.lag_history = Stored(e, d)
       /\ r.lag_scoreboard = Raised(e.lag_scoreboard, Right(e, d))
  /\ o >= LAG_HISTORY_SIZE /\ o + 1 >= LAG_WINDOW_SIZE =>
       /\ r.lag_observations = 0 /\ r.lag_scoreboard = NoLag

(* The repetition count. *)
RctMoves(r, e, stuck) ==
  r.rct_count = IF stuck THEN e.rct_count + 1 ELSE 0

(* A failure is one that was there or is raised by its own test's count. *)
Alarms(r, e, d, stuck) ==
  LET base == e.apt_base_set /\ d = e.apt_base
      n == e.apt_count + 1
      m == e.rct_count + 1
  IN
  /\ "apt_permanent" \in r.failure <=>
       "apt_permanent" \in e.failure \/ (base /\ n >= AptPermanent(e.osr))
  /\ "apt" \in r.failure <=>
       \/ "apt" \in e.failure
       \/ base /\ n = AptCutoff(e.osr) /\ ~(n >= AptPermanent(e.osr))
  /\ "rct_permanent" \in r.failure <=>
       "rct_permanent" \in e.failure \/ (stuck /\ m >= RctPermanent(e.osr))
  /\ "rct" \in r.failure <=>
       \/ "rct" \in e.failure
       \/ stuck /\ m = RctCutoff(e.osr) /\ ~(m >= RctPermanent(e.osr))

(* AptInsert: a new base or one more observation. *)
LEMMA AptEffect ==
  ASSUME NEW e \in Health, NEW d \in Value
  PROVE  LET r == AptInsert(e, d)
         IN  /\ r \in Health /\ r.osr = e.osr
             /\ SameRct(r, e) /\ SameLag(r, e)
             /\ AptMoves(r, e, d)
             /\ r.failure = e.failure \cup
                  IF e.apt_base_set /\ d = e.apt_base
                  THEN AptAlarm(e.apt_count + 1, e.osr) ELSE {}
<1>1. CASE e.apt_base_set
  <2>1. AptInsert(e, d) = AptCount(e, d)
    BY <1>1, Zenon DEF AptInsert
  <2>2. PICK r : r = AptCount(e, d)
    OBVIOUS
  <2>3. /\ r \in Health /\ r.osr = e.osr
        /\ r.apt_base_set = (e.apt_observations + 1 < APT_WINDOW_SIZE)
        /\ r.apt_base = e.apt_base
        /\ r.apt_observations = e.apt_observations + 1
        /\ r.apt_count = IF d = e.apt_base THEN e.apt_count + 1 ELSE e.apt_count
        /\ r.failure = e.failure \cup IF d = e.apt_base
                         THEN AptAlarm(e.apt_count + 1, e.osr) ELSE {}
        /\ SameRct(r, e) /\ SameLag(r, e)
    BY <2>2, AptCountEffect, Zenon
  <2>4. AptMoves(r, e, d)
    BY <1>1, <2>3, Zenon DEF AptMoves
  <2>5. (IF e.apt_base_set /\ d = e.apt_base
         THEN AptAlarm(e.apt_count + 1, e.osr) ELSE {})
          = IF d = e.apt_base THEN AptAlarm(e.apt_count + 1, e.osr) ELSE {}
    BY <1>1, Zenon
  <2>6. QED
    BY <2>1, <2>2, <2>3, <2>4, <2>5, Zenon
<1>2. CASE ~e.apt_base_set
  <2>1. AptInsert(e, d) = AptReinit(e, d, 1, 1)
    BY <1>2, Zenon DEF AptInsert
  <2>2. PICK one \in Nat : one = 1
    OBVIOUS
  <2>3. PICK r : r = [e EXCEPT !.apt_base = d, !.apt_base_set = TRUE,
                               !.apt_count = one, !.apt_observations = one]
    OBVIOUS
  <2>4. AptInsert(e, d) = r
    <3>1. one # 0 /\ 1 # 0
      BY <2>2
    <3>2. QED
      BY <2>1, <2>2, <2>3, <3>1, Zenon DEF AptReinit
  <2>7. /\ r \in Health /\ r.osr = e.osr /\ r.failure = e.failure
        /\ r.apt_base_set /\ r.apt_base = d
        /\ r.apt_count = one /\ r.apt_observations = one
        /\ SameRct(r, e) /\ SameLag(r, e)
    BY <2>3 DEF Health, SameRct, SameLag
  <2>5. e.failure = e.failure \cup {}
    OBVIOUS
  <2>6. QED
    BY <1>2, <2>2, <2>4, <2>5, <2>7, Zenon DEF AptMoves
<1>3. QED
  BY <1>1, <1>2

(* Measured: the three tests, none of which disturbs another. *)
LEMMA MeasuredEffect ==
  ASSUME NEW e \in Health, NEW d \in Value, Unbeaten(e)
  PROVE  LET r == Measured(e, d)
         IN  /\ r \in Health /\ r.osr = e.osr /\ Unbeaten(r)
             /\ AptMoves(r, e, d) /\ LagMoves(r, e, d)
             /\ RctMoves(r, e, Stuck(e, d)) /\ Alarms(r, e, d, Stuck(e, d))
<1>1. Stuck(e, d) \in BOOLEAN
  BY DEF Stuck
<1>2. PICK stuck \in BOOLEAN : stuck = Stuck(e, d)
  BY <1>1
<1>3. PICK a : a = AptInsert(e, d)
  OBVIOUS
<1>4. /\ a \in Health /\ a.osr = e.osr
      /\ SameRct(a, e) /\ SameLag(a, e) /\ AptMoves(a, e, d)
      /\ a.failure = e.failure \cup
           IF e.apt_base_set /\ d = e.apt_base
           THEN AptAlarm(e.apt_count + 1, e.osr) ELSE {}
  BY <1>3, AptEffect, Zenon
<1>5. Unbeaten(a)
  BY <1>4, Zenon DEF Unbeaten, SameLag
<1>6. PICK l : l = LagInsert(a, d)
  OBVIOUS
<1>7. /\ l \in Health /\ l.osr = a.osr
      /\ l.failure = a.failure \/ l.failure = a.failure \cup {"lag"}
      /\ SameRct(l, a) /\ SameApt(l, a) /\ Unbeaten(l) /\ LagMoves(l, a, d)
  BY <1>4, <1>5, <1>6, LagEffect DEF LagMoves
<1>8. LagMoves(l, e, d)
  <2>1. Stored(a, d) = Stored(e, d)
    BY <1>4, Zenon DEF Stored, SameLag
  <2>2. Right(a, d) = Right(e, d)
    BY <1>4 DEF Right, LagHistory, SameLag
  <2>3. QED
    BY <1>4, <1>7, <2>1, <2>2, Zenon DEF LagMoves, SameLag
<1>9. PICK r : r = RctInsert(l, stuck)
  OBVIOUS
<1>10. r = Measured(e, d)
  BY <1>2, <1>3, <1>6, <1>9, Zenon DEF Measured
<1>11. /\ r \in Health /\ r.osr = l.osr
       /\ r.rct_count = IF stuck THEN l.rct_count + 1 ELSE 0
       /\ r.failure = l.failure \cup
            IF stuck THEN RctAlarm(l.rct_count + 1, l.osr) ELSE {}
       /\ SameApt(r, l) /\ SameLag(r, l)
  BY <1>7, <1>9, RctEffect
<1>12. AptMoves(r, e, d)
  <2>1. /\ r.apt_base_set = a.apt_base_set /\ r.apt_base = a.apt_base
        /\ r.apt_count = a.apt_count /\ r.apt_observations = a.apt_observations
    BY <1>7, <1>11, Zenon DEF SameApt
  <2>2. QED
    BY <1>4, <2>1, Zenon DEF AptMoves
<1>13. LagMoves(r, e, d) /\ Unbeaten(r)
  <2>1. LagMoves(r, e, d)
    BY <1>8, <1>11, Zenon DEF LagMoves, SameLag
  <2>2. Unbeaten(r)
    BY <1>7, <1>11, Zenon DEF Unbeaten, SameLag
  <2>3. QED
    BY <2>1, <2>2
<1>14. l.rct_count = e.rct_count /\ l.osr = e.osr
  BY <1>4, <1>7, Zenon DEF SameRct
<1>15. RctMoves(r, e, stuck)
  BY <1>11, <1>14, Zenon DEF RctMoves
<1> DEFINE A == IF e.apt_base_set /\ d = e.apt_base
                THEN AptAlarm(e.apt_count + 1, e.osr) ELSE {}
           R == IF stuck THEN RctAlarm(e.rct_count + 1, e.osr) ELSE {}
<1>16. \/ r.failure = (e.failure \cup A) \cup R
       \/ r.failure = ((e.failure \cup A) \cup {"lag"}) \cup R
  BY <1>4, <1>7, <1>11, <1>14, Zenon
<1>17. /\ "rct" \notin A /\ "rct_permanent" \notin A
       /\ "apt" \notin R /\ "apt_permanent" \notin R
  BY DEF AptAlarm, RctAlarm
<1>18. /\ "apt_permanent" \in A <=>
            /\ e.apt_base_set /\ d = e.apt_base
            /\ e.apt_count + 1 >= AptPermanent(e.osr)
       /\ "apt" \in A <=>
            /\ e.apt_base_set /\ d = e.apt_base
            /\ e.apt_count + 1 = AptCutoff(e.osr)
            /\ ~(e.apt_count + 1 >= AptPermanent(e.osr))
  BY DEF AptAlarm
<1>19. /\ "rct_permanent" \in R <=>
            stuck /\ e.rct_count + 1 >= RctPermanent(e.osr)
       /\ "rct" \in R <=>
            /\ stuck /\ e.rct_count + 1 = RctCutoff(e.osr)
            /\ ~(e.rct_count + 1 >= RctPermanent(e.osr))
  BY DEF RctAlarm
<1> HIDE DEF A, R
<1>20. /\ "apt_permanent" \in r.failure <=> "apt_permanent" \in e.failure \cup A
       /\ "apt" \in r.failure <=> "apt" \in e.failure \cup A
       /\ "rct_permanent" \in r.failure <=> "rct_permanent" \in e.failure \cup R
       /\ "rct" \in r.failure <=> "rct" \in e.failure \cup R
  BY <1>16, <1>17
<1>21. Alarms(r, e, d, stuck)
  BY <1>18, <1>19, <1>20, Zenon DEF Alarms
<1>22. QED
  BY <1>2, <1>7, <1>4, <1>10, <1>11, <1>12, <1>13, <1>15, <1>21, Zenon

(* A new collector is one, without a failure. *)
LEMMA NewTyped ==
  ASSUME NEW osr \in MinOsr .. MaxOsr
  PROVE  /\ NewCollector(osr) \in Health
         /\ NewCollector(osr).osr = osr /\ NewCollector(osr).failure = {}
BY NoLagTyped, SizeAssumption, DeltaAssumption
   DEF NewCollector, Health, LagIndex, Value

(* Duplicated: the RCT and the APT stand at the count of the intermittent
   cutoff, the APT in the old window; the lag predictor is the old one. *)
LEMMA DuplicatedEffect ==
  ASSUME NEW e \in Health, NEW osr \in MinOsr .. MaxOsr, e.apt_observations # 0
  PROVE  LET r == Duplicated(NewCollector(osr), e)
         IN  /\ r \in Health /\ r.osr = osr /\ r.failure = {}
             /\ r.rct_count = RctRate * osr
             /\ r.apt_base_set /\ r.apt_base = e.apt_base
             /\ r.apt_count = AptCutoff(osr)
             /\ r.apt_observations = e.apt_observations
             /\ SameLag(r, e)
<1>1. /\ e.apt_base \in Value /\ e.apt_observations \in Nat
      /\ e.lag_run \in Nat /\ e.lag_count \in Nat /\ e.lag_best \in LagIndex
      /\ e.lag_observations \in Nat /\ e.lag_scoreboard \in [LagIndex -> Nat]
      /\ e.lag_history \in [LagIndex -> Value]
  BY DEF Health
<1>2. PICK new \in Health : /\ new = NewCollector(osr)
                            /\ new.osr = osr /\ new.failure = {}
  BY NewTyped
<1>10. PICK n \in Nat : n = AptCutoff(osr)
  BY Cutoffs
<1>3. PICK a : a = [new EXCEPT !.apt_base = e.apt_base, !.apt_base_set = TRUE,
                               !.apt_count = n,
                               !.apt_observations = e.apt_observations]
  OBVIOUS
<1>11. a = AptReinit(new, e.apt_base, 0, e.apt_observations)
  BY <1>2, <1>3, <1>10, Zenon DEF AptReinit
<1>4. /\ a \in Health /\ a.osr = osr /\ a.failure = {}
      /\ a.apt_base_set /\ a.apt_base = e.apt_base
      /\ a.apt_observations = e.apt_observations /\ a.apt_count = n
  BY <1>1, <1>2, <1>3 DEF Health
<1>5. PICK c \in Nat : c = RctRate * osr
  BY Cutoffs
<1>6. PICK r : r = [a EXCEPT !.rct_count = c, !.lag_run = e.lag_run,
                             !.lag_count = e.lag_count, !.lag_best = e.lag_best,
                             !.lag_observations = e.lag_observations,
                             !.lag_scoreboard = e.lag_scoreboard,
                             !.lag_history = e.lag_history]
  OBVIOUS
<1>7. r = Duplicated(NewCollector(osr), e)
  <2>1. ~(e.apt_observations = 0)
    OBVIOUS
  <2>2. QED
    BY <1>2, <1>11, <1>5, <1>6, <2>1, Zenon DEF Duplicated
<1>8. /\ r \in Health /\ r.osr = a.osr /\ r.failure = a.failure
      /\ r.rct_count = c /\ SameApt(r, a) /\ SameLag(r, e)
  BY <1>1, <1>4, <1>6 DEF Health, SameApt, SameLag
<1>9. QED
  BY <1>4, <1>5, <1>7, <1>8, <1>10, Zenon DEF SameApt

-----------------------------------------------------------------------------
(* The inductive invariant.  The APT's collector agrees with the window that
   lies in the history: its base is the window's first value, and a base is set
   as long as the window has a value to come. *)
AptWindow ==
  LET n == Len(seen) IN
  /\ n = 0 => /\ ec.failure = {} /\ ~ec.apt_base_set /\ ec.apt_observations = 0
              /\ window.last = 0 /\ reset = -1
  /\ n > 0 => /\ window.first \in 1 .. n /\ n <= window.last
              /\ window.first + APT_WINDOW_SIZE <= window.last + 1
              /\ \/ n >= window.last
                 \/ window.last + 1 = window.first + APT_WINDOW_SIZE
                 \/ window.last = n + 1
              /\ ec.apt_base_set <=> n < window.last
              /\ ec.apt_base = seen[window.first]
              /\ ec.apt_observations = n - window.first + 1

(* Without a reset the windows lie one behind the other and the count is that
   of the window's first value. *)
AptCounts ==
  reset = -1 /\ Len(seen) > 0 =>
    /\ (window.first - 1) % APT_WINDOW_SIZE = 0
    /\ window.last + 1 = window.first + APT_WINDOW_SIZE
    /\ ec.apt_count = Occurrences(window.first)

(* The window's values after a reset that equal its first one. *)
Rest == { j \in reset + 1 .. Len(seen) : seen[j] = seen[window.first] }

(* After a reset within the window the count is the cutoff and the values of
   the window's rest that equal its first one. *)
AptResumes ==
  reset >= 0 /\ window.first <= reset =>
    ec.apt_count = AptCutoff(ec.osr) + Cardinality(Rest)

(* The repetition count is the number of stuck values at the end. *)
RctCounts ==
  reset = -1 =>
    /\ ec.rct_count <= Len(stucks)
    /\ \A j \in Len(stucks) - ec.rct_count + 1 .. Len(stucks) : stucks[j]
    /\ ec.rct_count < Len(stucks) => ~stucks[Len(stucks) - ec.rct_count]

(* After a reset, while every value was stuck, the count stands as many above
   the one the reset started with. *)
RctResumes ==
  inits = 0 =>
    /\ Len(stucks) = Len(seen)
    /\ reset >= 0 /\ (\A j \in reset + 1 .. Len(stucks) : stucks[j]) =>
         ec.rct_count = RctRate * ec.osr + (Len(stucks) - reset)

(* The lag predictor's history is the end of the deltas. *)
LagFollows ==
  LET n == Len(seen) IN
  /\ ec.lag_observations <= n /\ ec.lag_observations < LAG_WINDOW_SIZE
  /\ \A k \in LagIndex :
       k < ec.lag_observations => LagHistory(ec, k) = seen[n - k]

(* The invariant: what the tests' counts mean, beside the properties. *)
Inv ==
  /\ TypeOK
  /\ AptWindow /\ AptCounts /\ AptResumes
  /\ RctCounts /\ RctResumes /\ LagFollows
  /\ RctIsRunLength /\ AptIsProportion /\ LagScoresAreHits
  /\ ResetKeepsStuckRun /\ ResetKeepsProportion

-----------------------------------------------------------------------------
(* What the three actions do to the collector and to the histories. *)
LEMMA MeasureEffect ==
  ASSUME TypeOK, Unbeaten(ec), NEW d \in Delta, Measure(d)
  PROVE  /\ TypeOK' /\ d \in Value /\ Stuck(ec, d) \in BOOLEAN
         /\ ec'.osr = ec.osr /\ Unbeaten(ec')
         /\ AptMoves(ec', ec, d) /\ LagMoves(ec', ec, d)
         /\ RctMoves(ec', ec, Stuck(ec, d)) /\ Alarms(ec', ec, d, Stuck(ec, d))
         /\ seen' = Append(seen, d) /\ stucks' = Append(stucks, Stuck(ec, d))
<1>1. d \in Value
  BY DeltaAssumption DEF Value
<1>2. Stuck(ec, d) \in BOOLEAN
  BY DEF Stuck
<1>3. PICK r : r = Measured(ec, d)
  OBVIOUS
<1>4. /\ r \in Health /\ r.osr = ec.osr /\ Unbeaten(r)
      /\ AptMoves(r, ec, d) /\ LagMoves(r, ec, d)
      /\ RctMoves(r, ec, Stuck(ec, d)) /\ Alarms(r, ec, d, Stuck(ec, d))
  BY <1>1, <1>3, MeasuredEffect, Zenon DEF TypeOK
<1>5. ec' = r /\ seen' = Append(seen, d) /\ stucks' = Append(stucks, Stuck(ec, d))
  BY <1>3, Zenon DEF Measure
<1>6. seen' \in Seq(Value) /\ Len(seen') = Len(seen) + 1 /\ Len(seen) \in Nat
  BY <1>1, <1>5, AppendProperties, LenProperties DEF TypeOK
<1>7. stucks' \in Seq(BOOLEAN)
  BY <1>2, <1>5, AppendProperties DEF TypeOK
<1>8. window' \in [first : Nat, last : Nat]
  BY <1>6, SizeAssumption DEF TypeOK, Measure
<1>9. reset' \in Nat \cup {-1} /\ reset' <= Len(seen') /\ inits' \in Nat
  BY <1>6 DEF TypeOK, Measure
<1>10. TypeOK'
  BY <1>4, <1>5, <1>6, <1>7, <1>8, <1>9 DEF TypeOK
<1>11. QED
  BY <1>1, <1>2, <1>4, <1>5, <1>10, Zenon

(* HealthInit: only the repetition count starts anew. *)
LEMMA HealthInitEffect ==
  ASSUME TypeOK, HealthInit
  PROVE  /\ TypeOK' /\ ec'.osr = ec.osr /\ ec'.failure = ec.failure
         /\ ec'.rct_count = 0 /\ SameApt(ec', ec) /\ SameLag(ec', ec)
         /\ seen' = seen /\ stucks' = Append(stucks, FALSE)
         /\ reset' = reset /\ window' = window
         /\ inits' = inits + 1 /\ inits \in Nat
<1>1. PICK r : r = [ec EXCEPT !.rct_count = 0]
  OBVIOUS
<1>2. /\ r \in Health /\ r.osr = ec.osr /\ r.failure = ec.failure
      /\ r.rct_count = 0 /\ SameApt(r, ec) /\ SameLag(r, ec)
  BY <1>1 DEF TypeOK, Health, SameApt, SameLag
<1>3. ec' = r /\ stucks' = Append(stucks, FALSE)
  BY <1>1 DEF HealthInit
<1>4. stucks' \in Seq(BOOLEAN)
  BY <1>3, AppendProperties DEF TypeOK
<1>7. /\ seen' = seen /\ reset' = reset /\ window' = window
      /\ inits' = inits + 1 /\ inits \in Nat
  BY DEF HealthInit, TypeOK
<1>5. TypeOK'
  BY <1>2, <1>3, <1>4, <1>7 DEF TypeOK
<1>6. QED
  BY <1>2, <1>3, <1>5, <1>7, Zenon

(* A collector that failed has counted a value. *)
LEMMA HealthResetEffect ==
  ASSUME TypeOK, AptWindow, NEW osr \in MinOsr .. MaxOsr, HealthReset(osr)
  PROVE  /\ TypeOK' /\ Len(seen) \in Nat \ {0}
         /\ ec'.failure = {} /\ ec'.rct_count = RctRate * ec'.osr
         /\ ec'.apt_base_set /\ ec'.apt_base = ec.apt_base
         /\ ec'.apt_count = AptCutoff(ec'.osr)
         /\ ec'.apt_observations = ec.apt_observations
         /\ SameLag(ec', ec)
         /\ seen' = seen /\ stucks' = stucks /\ inits' = inits
         /\ reset' = Len(seen)
<1>1. Len(seen) \in Nat
  BY LenProperties DEF TypeOK
<1>2. Len(seen) # 0
  BY DEF AptWindow, HealthReset
<1>3. window.first \in 1 .. Len(seen) /\ ec.apt_observations = Len(seen) - window.first + 1
  BY <1>1, <1>2 DEF AptWindow
<1>4. ec.apt_observations # 0
  BY <1>1, <1>3
<1>6. PICK r : r = Duplicated(NewCollector(osr), ec)
  OBVIOUS
<1>7. /\ r \in Health /\ r.osr = osr /\ r.failure = {}
      /\ r.rct_count = RctRate * osr
      /\ r.apt_base_set /\ r.apt_base = ec.apt_base
      /\ r.apt_count = AptCutoff(osr)
      /\ r.apt_observations = ec.apt_observations
      /\ SameLag(r, ec)
  BY <1>4, <1>6, DuplicatedEffect, Zenon DEF TypeOK
<1>8. ec' = r
  BY <1>6, Zenon DEF HealthReset
<1>9. window' \in [first : Nat, last : Nat]
  BY <1>1 DEF HealthReset, TypeOK
<1>10. TypeOK'
  BY <1>1, <1>7, <1>8, <1>9 DEF TypeOK, HealthReset
<1>11. QED
  BY <1>1, <1>2, <1>7, <1>8, <1>10 DEF HealthReset

(* An appended value leaves the others where they were. *)
LEMMA Appended ==
  ASSUME NEW S, NEW s \in Seq(S), NEW d \in S
  PROVE  LET t == Append(s, d)
         IN  /\ Len(s) \in Nat /\ Len(t) = Len(s) + 1 /\ t[Len(t)] = d
             /\ \A i \in 1 .. Len(s) : t[i] = s[i] /\ s[i] \in S
<1>1. \A i \in 1 .. Len(s) : s[i] \in S
  BY ElementOfSeq
<1>2. QED
  BY <1>1, AppendProperties, LenProperties

-----------------------------------------------------------------------------
(* The adaptive proportion test. *)
LEMMA AptWindowMeasure ==
  ASSUME TypeOK, Unbeaten(ec), AptWindow, NEW d \in Delta, Measure(d)
  PROVE  AptWindow'
<1> DEFINE n == Len(seen)
           f == window.first
           l == window.last
<1>1. /\ AptMoves(ec', ec, d) /\ Alarms(ec', ec, d, Stuck(ec, d))
      /\ seen' = Append(seen, d) /\ d \in Value
  BY MeasureEffect
<1>2. /\ n \in Nat /\ Len(seen') = n + 1 /\ seen'[n + 1] = d
      /\ \A i \in 1 .. n : seen'[i] = seen[i]
  BY <1>1, Appended DEF TypeOK
<1>3. f \in Nat /\ l \in Nat /\ APT_WINDOW_SIZE \in Nat /\ APT_WINDOW_SIZE > 1
      /\ ec.apt_observations \in Nat
  BY SizeAssumption DEF TypeOK, Health
<1>4. window' = IF n < l THEN window
                ELSE [first |-> n + 1, last |-> n + APT_WINDOW_SIZE]
  BY DEF Measure
<1>5. ec.apt_base_set <=> n < l
  BY <1>2, <1>3 DEF AptWindow
<1>6. CASE n < l
  <2>1. n > 0
    BY <1>2, <1>3, <1>6 DEF AptWindow
  <2>2. /\ ec'.apt_base = ec.apt_base
        /\ ec'.apt_observations = ec.apt_observations + 1
        /\ ec'.apt_base_set <=> ec.apt_observations + 1 < APT_WINDOW_SIZE
    BY <1>1, <1>5, <1>6 DEF AptMoves
  <2>3. /\ f \in 1 .. n /\ n <= l /\ f + APT_WINDOW_SIZE <= l + 1
        /\ n >= l \/ l + 1 = f + APT_WINDOW_SIZE \/ l = n + 1
        /\ ec.apt_base = seen[f] /\ ec.apt_observations = n - f + 1
    BY <1>2, <2>1 DEF AptWindow
  <2>4. window' = window
    BY <1>4, <1>6
  <2>5. seen'[f] = seen[f] /\ ec'.apt_base = seen[f]
    BY <1>2, <2>2, <2>3, Zenon
  <2>6. n + 1 > 0 /\ ~(n + 1 = 0) /\ f \in 1 .. n + 1 /\ n + 1 <= l
    BY <1>2, <1>3, <1>6, <2>3
  <2>7. n + 1 >= l \/ l + 1 = f + APT_WINDOW_SIZE \/ l = (n + 1) + 1
    BY <1>2, <1>3, <1>6, <2>3
  <2>8. ec.apt_observations + 1 < APT_WINDOW_SIZE <=> n + 1 < l
    <3>1. l \in Nat /\ f \in Nat /\ n \in Nat /\ ec.apt_observations \in Nat
      BY <1>2, <1>3
    <3>2. \/ l + 1 = f + APT_WINDOW_SIZE
          \/ l = n + 1 /\ f + APT_WINDOW_SIZE <= n + 2
      BY <1>3, <1>6, <2>3, <3>1
    <3> HIDE DEF n, f, l
    <3>3. QED
      BY <1>3, <2>3, <3>1, <3>2
  <2>9. ec'.apt_observations = (n + 1) - f + 1
    BY <1>2, <1>3, <2>2, <2>3
  <2>10. ec'.apt_base_set <=> n + 1 < l
    BY <2>2, <2>8, Zenon
  <2> HIDE DEF n, f, l
  <2>11. Len(seen)' = n + 1 /\ window.first = f /\ window.last = l
    BY <1>2, Zenon DEF f, l
  <2>12. QED
    BY <2>3, <2>4, <2>5, <2>6, <2>7, <2>9, <2>10, <2>11, Zenon DEF AptWindow
<1>7. CASE ~(n < l)
  <2>1. /\ ec'.apt_base_set /\ ec'.apt_base = d /\ ec'.apt_observations = 1
    BY <1>1, <1>5, <1>7 DEF AptMoves
  <2>2. window'.first = n + 1 /\ window'.last = n + APT_WINDOW_SIZE
    BY <1>4, <1>7
  <2>3. QED
    BY <1>2, <1>3, <2>1, <2>2 DEF AptWindow
<1>8. QED
  BY <1>6, <1>7

(* A reset goes on in the window, or one value beyond it. *)
LEMMA AptWindowReset ==
  ASSUME TypeOK, AptWindow, NEW osr \in MinOsr .. MaxOsr, HealthReset(osr)
  PROVE  AptWindow'
<1> DEFINE n == Len(seen)
           f == window.first
           l == window.last
<1>1. /\ n \in Nat \ {0} /\ seen' = seen
      /\ ec'.apt_base_set /\ ec'.apt_base = ec.apt_base
      /\ ec'.apt_observations = ec.apt_observations
  BY HealthResetEffect
<1>2. /\ f \in 1 .. n /\ n <= l /\ f + APT_WINDOW_SIZE <= l + 1
      /\ n >= l \/ l + 1 = f + APT_WINDOW_SIZE \/ l = n + 1
      /\ ec.apt_base = seen[f] /\ ec.apt_observations = n - f + 1
  BY <1>1 DEF AptWindow
<1>3. f \in Nat /\ l \in Nat /\ APT_WINDOW_SIZE \in Nat
  BY SizeAssumption DEF TypeOK
<1>4. PICK k \in Nat : k = IF n < l THEN l ELSE n + 1
  BY <1>1, <1>3
<1>5. window'.first = f /\ window'.last = k
  BY <1>4 DEF HealthReset, TypeOK
<1>6. /\ n < k /\ f + APT_WINDOW_SIZE <= k + 1
      /\ n >= k \/ k + 1 = f + APT_WINDOW_SIZE \/ k = n + 1
  BY <1>1, <1>2, <1>3, <1>4
<1>7. n > 0 /\ ~(n = 0) /\ n <= k
  BY <1>1, <1>6
<1>8. Len(seen)' = n /\ window.last = l /\ window.first = f
  BY <1>1, Zenon
<1> HIDE DEF n, f, l
<1>9. QED
  BY <1>1, <1>2, <1>5, <1>6, <1>7, <1>8, Zenon DEF AptWindow

(* Occurrences for any history: one more value counts in the windows it lies
   in, and begins a window of its own with one occurrence. *)
OccurrencesIn(s, i) ==
  Cardinality({ j \in i .. Len(s) : j < i + APT_WINDOW_SIZE /\ s[j] = s[i] })

(* A value counts in every window that it lies in and whose base it is. *)
LEMMA OccurrencesGrow ==
  ASSUME NEW s \in Seq(Value), NEW d \in Value, NEW i \in 1 .. Len(s)
  PROVE  /\ OccurrencesIn(s, i) \in Nat
         /\ OccurrencesIn(Append(s, d), i) =
              IF Len(s) + 1 < i + APT_WINDOW_SIZE /\ d = s[i]
              THEN OccurrencesIn(s, i) + 1 ELSE OccurrencesIn(s, i)
<1> DEFINE n == Len(s)
           t == Append(s, d)
           A == { j \in i .. n : j < i + APT_WINDOW_SIZE /\ s[j] = s[i] }
           B == { j \in i .. n + 1 : j < i + APT_WINDOW_SIZE /\ t[j] = t[i] }
<1>1. /\ n \in Nat /\ Len(t) = n + 1 /\ t[n + 1] = d
      /\ \A j \in 1 .. n : t[j] = s[j]
  BY Appended
<1>2. A \subseteq i .. n /\ IsFiniteSet(A) /\ n + 1 \notin A
  <2>1. A \subseteq i .. n /\ i \in Int /\ n \in Int
    BY <1>1
  <2>2. IsFiniteSet(i .. n)
    BY <2>1, FS_Interval
  <2>3. IsFiniteSet(A)
    BY <2>1, <2>2, FS_Subset
  <2>4. n + 1 \notin A
    BY <1>1
  <2>5. QED
    BY <2>1, <2>3, <2>4
<1>3. B = IF n + 1 < i + APT_WINDOW_SIZE /\ d = s[i] THEN A \cup {n + 1} ELSE A
  <2> HIDE DEF t, n
  <2>1. \A j \in i .. n + 1 : j \in i .. n \/ j = n + 1
    BY <1>1
  <2>2. i \in i .. n /\ n + 1 \in i .. n + 1 /\ i .. n \subseteq i .. n + 1
    BY <1>1 DEF n
  <2>3. t[i] = s[i] /\ \A j \in i .. n : t[j] = s[j]
    BY <1>1 DEF n
  <2>4. QED
    BY <1>1, <2>1, <2>2, <2>3
<1>4. Cardinality(A \cup {n + 1}) = Cardinality(A) + 1 /\ Cardinality(A) \in Nat
  BY <1>2, FS_AddElement, FS_CardinalityType
<1>5. OccurrencesIn(s, i) = Cardinality(A) /\ OccurrencesIn(t, i) = Cardinality(B)
  BY <1>1 DEF OccurrencesIn
<1> HIDE DEF A, B
<1>6. QED
  BY <1>3, <1>4, <1>5

(* The first value of a window occurs once. *)
LEMMA OccursOnce ==
  ASSUME NEW s \in Seq(Value), NEW d \in Value
  PROVE  OccurrencesIn(Append(s, d), Len(s) + 1) = 1
<1> DEFINE n == Len(s)
           t == Append(s, d)
<1>1. n \in Nat /\ Len(t) = n + 1
  BY Appended
<1>2. { j \in n + 1 .. n + 1 : j < n + 1 + APT_WINDOW_SIZE /\ t[j] = t[n + 1] }
        = { n + 1 }
  BY <1>1, SizeAssumption
<1>3. OccurrencesIn(t, n + 1) = Cardinality({ n + 1 })
  BY <1>1, <1>2 DEF OccurrencesIn
<1>4. QED
  BY <1>3, FS_Singleton

(* The windows after one more value: the complete ones are as they were. *)
LEMMA WindowsGrow ==
  ASSUME TypeOK, Unbeaten(ec), AptWindow, AptCounts, reset = -1,
         NEW d \in Delta, Measure(d)
  PROVE  /\ \A i \in AptWindows : Occurrences(i) \in Nat
         /\ \A i \in AptWindows \ {window.first} :
              Occurrences(i)' = Occurrences(i)
         /\ ec.apt_base_set =>
              /\ AptWindows' = AptWindows /\ window.first \in AptWindows
              /\ window' = window /\ ec.apt_count = Occurrences(window.first)
              /\ Occurrences(window.first)' = ec'.apt_count
         /\ ~ec.apt_base_set =>
              /\ AptWindows' = AptWindows \cup {Len(seen) + 1}
              /\ Occurrences(window.first)' = 1 /\ ec'.apt_count = 1
              /\ window'.first = Len(seen) + 1 /\ window'.first \notin AptWindows
              /\ window'.last = Len(seen) + APT_WINDOW_SIZE
              /\ \A i \in AptWindows : Occurrences(i)' = Occurrences(i)
<1> DEFINE n == Len(seen)
           f == window.first
           l == window.last
           W == APT_WINDOW_SIZE
<1>1. /\ AptMoves(ec', ec, d) /\ seen' = Append(seen, d) /\ d \in Value
      /\ seen \in Seq(Value)
  BY MeasureEffect DEF TypeOK
<1>2. /\ n \in Nat /\ Len(seen') = n + 1 /\ seen'[n + 1] = d
      /\ \A i \in 1 .. n : seen'[i] = seen[i]
  BY <1>1, Appended DEF TypeOK
<1>3. f \in Nat /\ l \in Nat /\ W \in Nat \ {0} /\ W > 1
  BY SizeAssumption DEF TypeOK
<1>4. \A i \in 1 .. n :
        /\ Occurrences(i) \in Nat
        /\ Occurrences(i)' = IF n + 1 < i + W /\ d = seen[i]
                             THEN Occurrences(i) + 1 ELSE Occurrences(i)
  <2>1. SUFFICES ASSUME NEW i \in 1 .. n
                 PROVE  /\ Occurrences(i) \in Nat
                        /\ Occurrences(i)' = IF n + 1 < i + W /\ d = seen[i]
                                             THEN Occurrences(i) + 1 ELSE Occurrences(i)
    OBVIOUS
  <2>2. /\ Occurrences(i) = OccurrencesIn(seen, i)
        /\ Occurrences(i)' = OccurrencesIn(Append(seen, d), i)
    BY <1>1, Zenon DEF Occurrences, OccurrencesIn
  <2>3. QED
    BY <1>1, <2>2, OccurrencesGrow
<1>5. AptWindows = { i \in 1 .. n : (i - 1) % W = 0 }
  BY DEF AptWindows
<1>6. AptWindows' = { i \in 1 .. n + 1 : (i - 1) % W = 0 }
  BY <1>2 DEF AptWindows
<1>7. (ec.apt_base_set <=> n < l) /\ n <= l
  BY <1>2, <1>3 DEF AptWindow
<1>8. n > 0 => /\ f \in 1 .. n /\ (f - 1) % W = 0 /\ l + 1 = f + W
               /\ ec.apt_count = Occurrences(f) /\ ec.apt_base = seen[f]
  BY <1>2, Zenon DEF AptWindow, AptCounts
<1>13. \A a, b \in Nat : a < b /\ a % W = b % W => a + W <= b
  BY <1>3, RemaindersMeet
<1>9. \A i \in AptWindows \ {f} : i + W <= n /\ Occurrences(i)' = Occurrences(i)
  <2>1. SUFFICES ASSUME NEW i \in AptWindows, i # f
                 PROVE  i + W <= n /\ Occurrences(i)' = Occurrences(i)
    BY Zenon
  <2>2. i \in 1 .. n /\ (i - 1) % W = 0 /\ i - 1 \in Nat /\ n > 0
    BY <1>2, <1>5
  <2>3. f \in 1 .. n /\ (f - 1) % W = 0 /\ l + 1 = f + W /\ f - 1 \in Nat
    BY <1>2, <1>8, <2>2
  <2>9. i - 1 < f - 1 => (i - 1) + W <= f - 1
    BY <1>13, <2>2, <2>3, Zenon
  <2>10. f - 1 < i - 1 => (f - 1) + W <= i - 1
    BY <1>13, <2>2, <2>3, Zenon
  <2>4. i < f => (i - 1) + W <= f - 1
    BY <1>2, <1>3, <2>2, <2>3, <2>9
  <2>5. f < i => (f - 1) + W <= i - 1
    BY <1>2, <1>3, <2>2, <2>3, <2>10
  <2>6. i + W <= n
    <3>1. i \in Nat /\ f \in Nat /\ l \in Nat /\ n \in Nat /\ W \in Nat /\ i # f
      BY <1>2, <1>3, <2>1, <2>2
    <3>2. i <= n /\ f <= n /\ n <= l /\ l + 1 = f + W
      BY <1>2, <1>7, <2>2, <2>3
    <3>3. CASE i < f
      <4>1. (i - 1) + W <= f - 1
        BY <2>4, <3>3, Zenon
      <4>2. QED
        BY <3>1, <3>2, <4>1
    <3>4. CASE f < i
      <4>1. (f - 1) + W <= i - 1
        BY <2>5, <3>4, Zenon
      <4>2. QED
        BY <3>1, <3>2, <4>1
    <3>5. QED
      BY <3>1, <3>3, <3>4
  <2>7. ~(n + 1 < i + W)
    BY <1>2, <1>3, <2>2, <2>6
  <2>8. QED
    BY <1>4, <2>2, <2>6, <2>7
<1>10. CASE ec.apt_base_set
  <2>1. n < l /\ n > 0
    BY <1>2, <1>3, <1>7, <1>10 DEF AptWindow
  <2>2. f \in AptWindows /\ n + 1 < f + W /\ window' = window
    BY <1>2, <1>3, <1>5, <1>8, <2>1 DEF Measure
  <2>3. n % W # 0
    <3>1. SUFFICES ASSUME n % W = 0 PROVE FALSE
      OBVIOUS
    <3>4. f - 1 \in Nat /\ n \in Nat /\ f - 1 < n /\ (f - 1) % W = 0
      <4>1. f \in 1 .. n /\ (f - 1) % W = 0
        BY <1>8, <2>1
      <4>2. QED
        BY <1>2, <1>3, <4>1
    <3>2. (f - 1) + W <= n
      BY <1>13, <3>1, <3>4, Zenon
    <3>3. QED
      BY <1>2, <1>3, <1>8, <2>1, <3>2
  <2>4. AptWindows' = AptWindows
    <3>1. (n + 1) - 1 = n
      BY <1>2
    <3>2. \A i \in 1 .. n + 1 : i \in 1 .. n \/ i = n + 1
      BY <1>2
    <3>3. 1 .. n \subseteq 1 .. n + 1
      BY <1>2
    <3> HIDE DEF n
    <3>4. QED
      BY <1>5, <1>6, <2>3, <3>1, <3>2, <3>3
  <2>5. ec'.apt_count = IF d = ec.apt_base THEN ec.apt_count + 1 ELSE ec.apt_count
    BY <1>1, <1>10 DEF AptMoves
  <2>6. Occurrences(window.first)' = ec'.apt_count
    <3>1. Occurrences(f)' = ec'.apt_count
      BY <1>4, <1>8, <2>1, <2>2, <2>5
    <3>2. Occurrences(window.first)' = OccurrencesIn(seen', window'.first)
      BY Zenon DEF Occurrences, OccurrencesIn
    <3>3. Occurrences(f)' = OccurrencesIn(seen', window'.first)
      BY <2>2, Zenon DEF Occurrences, OccurrencesIn
    <3>4. QED
      BY <3>1, <3>2, <3>3
  <2>7. QED
    BY <1>4, <1>5, <1>8, <1>9, <1>10, <2>1, <2>2, <2>4, <2>6
<1>11. CASE ~ec.apt_base_set
  <2>1. n = l
    BY <1>2, <1>3, <1>7, <1>11
  <2>2. window'.first = n + 1 /\ window'.last = n + W
    BY <1>2, <1>3, <2>1 DEF Measure
  <2>3. n % W = 0
    <3>1. CASE n = 0
      BY <1>3, <3>1, RemainderUnique
    <3>2. CASE n # 0
      <4>1. f - 1 \in Nat /\ (f - 1) % W = 0 /\ n = (f - 1) + W
        <5>1. n > 0
          BY <1>2, <3>2
        <5>2. f \in 1 .. n /\ (f - 1) % W = 0 /\ l + 1 = f + W
          BY <1>8, <5>1
        <5>3. f \in 1 .. n /\ l + 1 = f + W
          BY <5>2
        <5>6. n \in Nat /\ f \in Nat /\ l \in Nat /\ W \in Nat
          BY <1>2, <1>3
        <5> HIDE DEF n, f, l, W
        <5>4. f - 1 \in Nat /\ n = (f - 1) + W
          BY <2>1, <5>3, <5>6
        <5>5. QED
          BY <5>2, <5>4
      <4>2. QED
        BY <1>3, <4>1, RemainderStep
    <3>3. QED
      BY <3>1, <3>2
  <2>4. AptWindows' = AptWindows \cup {n + 1} /\ n + 1 \notin AptWindows
    <3>1. (n + 1) - 1 = n /\ n + 1 \notin 1 .. n /\ n + 1 \in 1 .. n + 1
      BY <1>2
    <3>2. \A i \in 1 .. n + 1 : i \in 1 .. n \/ i = n + 1
      BY <1>2
    <3>3. 1 .. n \subseteq 1 .. n + 1
      BY <1>2
    <3> HIDE DEF n
    <3>4. QED
      BY <1>5, <1>6, <2>3, <3>1, <3>2, <3>3
  <2>5. Occurrences(window.first)' = 1 /\ ec'.apt_count = 1
    <3>1. Occurrences(window.first)' = OccurrencesIn(seen', window'.first)
      BY Zenon DEF Occurrences, OccurrencesIn
    <3>2. OccurrencesIn(seen', n + 1) = 1
      BY <1>1, OccursOnce
    <3>3. ec'.apt_count = 1
      BY <1>1, <1>11 DEF AptMoves
    <3>4. QED
      BY <2>2, <3>1, <3>2, <3>3, Zenon
  <2>6. \A i \in AptWindows : Occurrences(i)' = Occurrences(i)
    <3>1. SUFFICES ASSUME NEW i \in AptWindows, i = f
                   PROVE  Occurrences(i)' = Occurrences(i)
      BY <1>9, Zenon
    <3>2. i \in 1 .. n /\ n > 0
      BY <1>2, <1>5
    <3>3. ~(n + 1 < i + W)
      BY <1>2, <1>3, <1>8, <2>1, <3>1, <3>2
    <3>4. QED
      BY <1>4, <3>2, <3>3
  <2>7. QED
    BY <1>4, <1>5, <1>9, <1>11, <2>2, <2>4, <2>5, <2>6
<1>12. QED
  BY <1>10, <1>11

(* The count is that of the open window, and its alarms are those of the
   first count that reaches a cutoff. *)
LEMMA AptMeasure ==
  ASSUME TypeOK, Unbeaten(ec), AptWindow, AptCounts, AptIsProportion,
         NEW d \in Delta, Measure(d)
  PROVE  AptCounts' /\ AptIsProportion'
<1> SUFFICES ASSUME reset = -1
             PROVE  AptCounts' /\ AptIsProportion'
  BY DEF AptCounts, AptIsProportion, Measure
<1>10. PICK n, f, C, P : /\ n = Len(seen) /\ f = window.first
                         /\ C = AptCutoff(ec.osr) /\ P = AptPermanent(ec.osr)
  OBVIOUS
<1> DEFINE W == APT_WINDOW_SIZE
<1>1. /\ AptMoves(ec', ec, d) /\ Alarms(ec', ec, d, Stuck(ec, d))
      /\ ec'.osr = ec.osr /\ seen' = Append(seen, d)
  BY MeasureEffect
<1>2. /\ C \in Nat \ {0, 1} /\ P \in Nat \ {0, 1}
      /\ ec.apt_count \in Nat /\ C = AptCutoff(ec'.osr) /\ P = AptPermanent(ec'.osr)
  <2>1. ec.osr \in MinOsr .. MaxOsr /\ ec.apt_count \in Nat
    BY DEF TypeOK, Health
  <2>2. QED
    BY <1>1, <1>10, <2>1, Cutoffs
<1>3. /\ \A i \in AptWindows : Occurrences(i) \in Nat
      /\ \A i \in AptWindows \ {f} : Occurrences(i)' = Occurrences(i)
  BY <1>10, WindowsGrow
<1>4. n \in Nat /\ Len(seen') = n + 1 /\ f \in Nat /\ W \in Nat
  BY <1>1, <1>10, AppendProperties, LenProperties, SizeAssumption DEF TypeOK
<1> DEFINE hit == ec.apt_base_set /\ d = ec.apt_base
<1>5. /\ "apt_permanent" \in ec'.failure <=>
           "apt_permanent" \in ec.failure \/ (hit /\ ec.apt_count + 1 >= P)
      /\ "apt" \in ec'.failure <=>
           \/ "apt" \in ec.failure
           \/ hit /\ ec.apt_count + 1 = C /\ ~(ec.apt_count + 1 >= P)
  BY <1>1, <1>10, Zenon DEF Alarms
<1>6. /\ "apt_permanent" \in ec.failure <=> \E i \in AptWindows : Occurrences(i) >= P
      /\ "apt" \in ec.failure <=>
           \E i \in AptWindows : Occurrences(i) >= C /\ C < P
  BY <1>10, Zenon DEF AptIsProportion
<1> DEFINE Goal ==
      /\ "apt_permanent" \in ec'.failure <=>
           \E i \in AptWindows' : Occurrences(i)' >= P
      /\ "apt" \in ec'.failure <=>
           \E i \in AptWindows' : Occurrences(i)' >= C /\ C < P
<1>7. CASE ec.apt_base_set
  <2>1. /\ AptWindows' = AptWindows /\ f \in AptWindows
        /\ window' = window /\ ec.apt_count = Occurrences(f)
        /\ Occurrences(window.first)' = ec'.apt_count
    BY <1>7, <1>10, WindowsGrow
  <2>2. Occurrences(f)' = ec'.apt_count
    <3>1. Occurrences(f)' = OccurrencesIn(seen', f)
      BY Zenon DEF Occurrences, OccurrencesIn
    <3>2. Occurrences(window.first)' = OccurrencesIn(seen', window'.first)
      BY Zenon DEF Occurrences, OccurrencesIn
    <3>3. QED
      BY <1>10, <2>1, <3>1, <3>2, Zenon
  <2>3. ec'.apt_count = IF hit THEN ec.apt_count + 1 ELSE ec.apt_count
    BY <1>1, <1>7 DEF AptMoves
  <2>4. AptCounts'
    <3>1. n > 0
      BY <1>4, <1>7, <1>10 DEF AptWindow
    <3>2. (f - 1) % W = 0 /\ window.last + 1 = f + W
      BY <1>10, <3>1, Zenon DEF AptCounts
    <3>3. ec'.apt_count = Occurrences(window.first)'
      BY <2>1
    <3>4. QED
      BY <1>10, <2>1, <3>2, <3>3, Zenon DEF AptCounts
  <2>5. Goal
    <3> DEFINE a == ec.apt_count
               b == ec'.apt_count
               O(i) == Occurrences(i)
               Q(i) == Occurrences(i)'
               S == AptWindows
    <3>1. /\ a \in Nat /\ b = IF hit THEN a + 1 ELSE a
          /\ f \in S /\ O(f) = a /\ Q(f) = b
          /\ \A i \in S : O(i) \in Nat
          /\ \A i \in S : i # f => Q(i) = O(i)
      BY <1>2, <1>3, <2>1, <2>2, <2>3
    <3>2. /\ "apt_permanent" \in ec.failure <=> \E i \in S : O(i) >= P
          /\ "apt" \in ec.failure <=> \E i \in S : O(i) >= C /\ C < P
      BY <1>6
    <3>3. /\ Goal <=>
               /\ "apt_permanent" \in ec'.failure <=> \E i \in S : Q(i) >= P
               /\ "apt" \in ec'.failure <=> \E i \in S : Q(i) >= C /\ C < P
      BY <2>1, Zenon
    <3>4. /\ "apt_permanent" \in ec'.failure <=>
               "apt_permanent" \in ec.failure \/ (hit /\ a + 1 >= P)
          /\ "apt" \in ec'.failure <=>
               "apt" \in ec.failure \/ (hit /\ a + 1 = C /\ ~(a + 1 >= P))
      BY <1>5
    <3> HIDE DEF a, b, O, Q, S, hit, Goal
    <3>5. (\E i \in S : Q(i) >= P)
            <=> (\E i \in S : O(i) >= P) \/ (hit /\ a + 1 >= P)
      BY <1>2, <3>1
    <3>6. (\E i \in S : Q(i) >= C /\ C < P)
            <=> \/ \E i \in S : O(i) >= C /\ C < P
                \/ hit /\ a + 1 = C /\ ~(a + 1 >= P)
      BY <1>2, <3>1
    <3>7. QED
      BY <3>2, <3>3, <3>4, <3>5, <3>6, Zenon
  <2>6. AptIsProportion'
    BY <1>2, <2>5, Zenon DEF AptIsProportion
  <2>7. QED
    BY <2>4, <2>6
<1>8. CASE ~ec.apt_base_set
  <2>1. /\ AptWindows' = AptWindows \cup {n + 1}
        /\ Occurrences(window.first)' = 1 /\ ec'.apt_count = 1
        /\ window'.first = n + 1 /\ window'.first \notin AptWindows
        /\ window'.last = n + W
        /\ \A i \in AptWindows : Occurrences(i)' = Occurrences(i)
    BY <1>8, <1>10, WindowsGrow
  <2>2. PICK m \in Nat : m = n + 1
    BY <1>4
  <2>3. Occurrences(m)' = 1
    <3>1. Occurrences(m)' = OccurrencesIn(seen', m)
      BY Zenon DEF Occurrences, OccurrencesIn
    <3>2. Occurrences(window.first)' = OccurrencesIn(seen', window'.first)
      BY Zenon DEF Occurrences, OccurrencesIn
    <3>3. QED
      BY <2>1, <2>2, <3>1, <3>2, Zenon
  <2>4. AptCounts'
    <3>1. ((n + 1) - 1) % W = 0
      <4>1. n + 1 \in AptWindows'
        BY <2>1
      <4>2. QED
        BY <4>1 DEF AptWindows
    <3>2. (n + W) + 1 = (n + 1) + W
      BY <1>4
    <3>3. QED
      BY <2>1, <3>1, <3>2, Zenon DEF AptCounts
  <2>5. Goal
    <3> DEFINE O(i) == Occurrences(i)
               Q(i) == Occurrences(i)'
               S == AptWindows
    <3>1. /\ \A i \in S : O(i) \in Nat /\ Q(i) = O(i)
          /\ Q(m) = 1 /\ AptWindows' = S \cup {m}
      BY <1>3, <2>1, <2>2, <2>3, Zenon
    <3>2. /\ "apt_permanent" \in ec'.failure <=> \E i \in S : O(i) >= P
          /\ "apt" \in ec'.failure <=> \E i \in S : O(i) >= C /\ C < P
      BY <1>5, <1>6, <1>8, Zenon
    <3>3. /\ Goal <=>
               /\ "apt_permanent" \in ec'.failure
                    <=> \E i \in S \cup {m} : Q(i) >= P
               /\ "apt" \in ec'.failure
                    <=> \E i \in S \cup {m} : Q(i) >= C /\ C < P
      BY <3>1, Zenon
    <3> HIDE DEF O, Q, S, Goal
    <3>4. (\E i \in S \cup {m} : Q(i) >= P) <=> \E i \in S : O(i) >= P
      BY <1>2, <3>1
    <3>5. (\E i \in S \cup {m} : Q(i) >= C /\ C < P)
            <=> \E i \in S : O(i) >= C /\ C < P
      BY <1>2, <3>1
    <3>6. QED
      BY <3>2, <3>3, <3>4, <3>5, Zenon
  <2>6. AptIsProportion'
    BY <1>2, <2>5, Zenon DEF AptIsProportion
  <2>7. QED
    BY <2>4, <2>6
<1>9. QED
  BY <1>7, <1>8

(* A window's values after a reset grow by the values that equal its base. *)
RestIn(s, z, f) == { j \in z + 1 .. Len(s) : s[j] = s[f] }

(* One more value equals the base or not. *)
LEMMA RestGrows ==
  ASSUME NEW s \in Seq(Value), NEW d \in Value,
         NEW z \in Nat, NEW f \in 1 .. Len(s), z <= Len(s)
  PROVE  /\ Cardinality(RestIn(s, z, f)) \in Nat
         /\ d = s[f] => Cardinality(RestIn(Append(s, d), z, f))
                          = Cardinality(RestIn(s, z, f)) + 1
         /\ d # s[f] => RestIn(Append(s, d), z, f) = RestIn(s, z, f)
<1> DEFINE n == Len(s)
           t == Append(s, d)
           A == { j \in z + 1 .. n : s[j] = s[f] }
           B == { j \in z + 1 .. n + 1 : t[j] = t[f] }
<1>1. /\ n \in Nat /\ Len(t) = n + 1 /\ t[n + 1] = d
      /\ \A j \in 1 .. n : t[j] = s[j]
  BY Appended
<1>2. IsFiniteSet(A) /\ n + 1 \notin A
  <2>1. A \subseteq z + 1 .. n /\ z + 1 \in Int /\ n \in Int
    BY <1>1
  <2>2. IsFiniteSet(z + 1 .. n)
    BY <2>1, FS_Interval
  <2>3. IsFiniteSet(A)
    BY <2>1, <2>2, FS_Subset
  <2>4. n + 1 \notin A
    BY <1>1
  <2>5. QED
    BY <2>3, <2>4
<1>3. B = IF d = s[f] THEN A \cup {n + 1} ELSE A
  <2>1. \A j \in z + 1 .. n + 1 : j \in z + 1 .. n \/ j = n + 1
    BY <1>1
  <2>2. n + 1 \in z + 1 .. n + 1 /\ z + 1 .. n \subseteq z + 1 .. n + 1
    BY <1>1
  <2>3. t[f] = s[f] /\ \A j \in z + 1 .. n : t[j] = s[j]
    BY <1>1
  <2> HIDE DEF t, n
  <2>4. QED
    BY <1>1, <2>1, <2>2, <2>3
<1>4. Cardinality(A \cup {n + 1}) = Cardinality(A) + 1 /\ Cardinality(A) \in Nat
  BY <1>2, FS_AddElement, FS_CardinalityType
<1> HIDE DEF A, B
<1>5. /\ Cardinality(A) \in Nat
      /\ d = s[f] => Cardinality(B) = Cardinality(A) + 1
      /\ d # s[f] => B = A
  BY <1>3, <1>4
<1>6. RestIn(s, z, f) = A /\ RestIn(t, z, f) = B
  BY <1>1, Zenon DEF A, B, RestIn
<1>7. QED
  BY <1>5, <1>6, Zenon

(* A measurement after a reset: the count goes on from the cutoff. *)
LEMMA ProportionMeasure ==
  ASSUME TypeOK, Unbeaten(ec), AptWindow, AptResumes, ResetKeepsProportion,
         NEW d \in Delta, Measure(d)
  PROVE  AptResumes' /\ ResetKeepsProportion'
<1>1. /\ AptMoves(ec', ec, d) /\ Alarms(ec', ec, d, Stuck(ec, d)) /\ d \in Value
      /\ ec'.osr = ec.osr /\ seen' = Append(seen, d) /\ seen \in Seq(Value)
  BY MeasureEffect DEF TypeOK
<1>2. PICK n, f, z, C, P :
        /\ n = Len(seen) /\ f = window.first /\ z = reset
        /\ C = AptCutoff(ec.osr) /\ P = AptPermanent(ec.osr)
  OBVIOUS
<1>3. reset' = z
  BY <1>2 DEF Measure
<1>4. /\ n \in Nat /\ f \in Nat /\ z \in Nat \cup {-1} /\ z <= n
      /\ window.last \in Nat /\ ec.apt_count \in Nat
      /\ C \in Nat /\ P \in Nat
      /\ Len(seen') = n + 1
  <2>1. ec.osr \in MinOsr .. MaxOsr /\ ec.apt_count \in Nat
    BY DEF TypeOK, Health
  <2>2. Len(seen) \in Nat /\ Len(seen') = Len(seen) + 1
    BY <1>1, Appended
  <2>3. QED
    BY <1>2, <2>1, <2>2, Cutoffs DEF TypeOK
<1>5. CASE n < window.last
  <2>1. n > 0 /\ f \in 1 .. n /\ ec.apt_base_set /\ ec.apt_base = seen[f]
    BY <1>2, <1>4, <1>5 DEF AptWindow
  <2>2. window' = window
    BY <1>2, <1>5 DEF Measure
  <2>3. ec'.apt_count = IF d = seen[f] THEN ec.apt_count + 1 ELSE ec.apt_count
    BY <1>1, <2>1 DEF AptMoves
  <2>4. "apt_permanent" \in ec'.failure <=>
          "apt_permanent" \in ec.failure \/ (d = seen[f] /\ ec.apt_count + 1 >= P)
    BY <1>1, <1>2, <2>1, Zenon DEF Alarms
  <2>5. SUFFICES ASSUME z >= 0, f <= z
                 PROVE  AptResumes' /\ ResetKeepsProportion'
    BY <1>2, <1>3, <2>2 DEF AptResumes, ResetKeepsProportion
  <2>6. PICK A : A = { j \in z + 1 .. Len(seen) : seen[j] = seen[f] }
    OBVIOUS
  <2>7. PICK B : B = { j \in z + 1 .. Len(seen') : seen'[j] = seen'[f] }
    OBVIOUS
  <2>8. /\ Cardinality(A) \in Nat
        /\ d = seen[f] => Cardinality(B) = Cardinality(A) + 1
        /\ d # seen[f] => B = A
    <3>1. z \in Nat
      BY <1>4, <2>5
    <3>2. f \in 1 .. Len(seen) /\ z <= Len(seen)
      BY <1>2, <1>4, <2>1
    <3>3. A = RestIn(seen, z, f) /\ B = RestIn(Append(seen, d), z, f)
      BY <1>1, <2>6, <2>7, Zenon DEF RestIn
    <3>4. seen \in Seq(Value) /\ d \in Value
      BY <1>1
    <3>5. QED
      BY <3>1, <3>2, <3>3, <3>4, RestGrows
  <2>9. ec.apt_count = C + Cardinality(A)
    BY <1>2, <2>5, <2>6, Zenon DEF AptResumes, Rest
  <2>10. ec'.apt_count = C + Cardinality(B)
    BY <1>4, <2>3, <2>8, <2>9
  <2>11. AptResumes'
    BY <1>1, <1>2, <1>3, <2>2, <2>7, <2>10, Zenon DEF AptResumes, Rest
  <2>12. ASSUME B # {}, Cardinality(B) >= P - C
         PROVE  "apt_permanent" \in ec'.failure
    <3>1. CASE d = seen[f]
      <4>1. ec.apt_count + 1 >= P
        BY <1>4, <2>8, <2>9, <2>12, <3>1
      <4>2. QED
        BY <2>4, <3>1, <4>1
    <3>2. CASE d # seen[f]
      <4>1. "apt_permanent" \in ec.failure
        BY <1>2, <2>5, <2>6, <2>8, <2>12, <3>2, Zenon DEF ResetKeepsProportion
      <4>2. QED
        BY <2>4, <4>1
    <3>3. QED
      BY <3>1, <3>2
  <2>13. ResetKeepsProportion'
    BY <1>1, <1>2, <1>3, <2>2, <2>7, <2>12, Zenon DEF ResetKeepsProportion
  <2>14. QED
    BY <2>11, <2>13
<1>6. CASE ~(n < window.last)
  <2>1. window'.first = n + 1
    BY <1>2, <1>6 DEF Measure
  <2>2. ~(window'.first <= reset')
    BY <1>3, <1>4, <2>1
  <2>3. QED
    BY <2>2, Zenon DEF AptResumes, ResetKeepsProportion
<1>7. QED
  BY <1>5, <1>6

(* A reset: no value of the rest has come yet. *)
LEMMA ProportionReset ==
  ASSUME TypeOK, AptWindow, NEW osr \in MinOsr .. MaxOsr, HealthReset(osr)
  PROVE  AptResumes' /\ ResetKeepsProportion'
<1>1. /\ Len(seen) \in Nat \ {0} /\ seen' = seen /\ reset' = Len(seen)
      /\ ec'.apt_count = AptCutoff(ec'.osr) /\ ec'.osr \in MinOsr .. MaxOsr
  BY HealthResetEffect DEF TypeOK, Health
<1>2. Rest' = {}
  <2>1. reset' + 1 .. Len(seen)' = {}
    BY <1>1
  <2>2. QED
    BY <2>1 DEF Rest
<1>3. AptCutoff(ec'.osr) \in Nat
  BY <1>1, Cutoffs
<1>4. ec'.apt_count = AptCutoff(ec'.osr) + Cardinality(Rest')
  BY <1>1, <1>2, <1>3, FS_EmptySet
<1>5. AptResumes'
  BY <1>4, Zenon DEF AptResumes
<1>6. ResetKeepsProportion'
  BY <1>2, Zenon DEF ResetKeepsProportion, Rest
<1>7. QED
  BY <1>5, <1>6

-----------------------------------------------------------------------------
(* The repetition count test.  c is the number of stuck values at s's end. *)
Trailing(s, c) ==
  /\ c <= Len(s)
  /\ \A j \in Len(s) - c + 1 .. Len(s) : s[j]
  /\ c < Len(s) => ~s[Len(s) - c]

(* A run of m values lies in s with b appended if and only if it lay in s, or
   ends with b. *)
LEMMA RunGrows ==
  ASSUME NEW s \in Seq(BOOLEAN), NEW b \in BOOLEAN, NEW c \in Nat, Trailing(s, c)
  PROVE  LET t == Append(s, b)
         IN  /\ Trailing(t, IF b THEN c + 1 ELSE 0)
             /\ \A m \in Nat \ {0} :
                  /\ m <= c => HasRun(s, m)
                  /\ HasRun(t, m) <=> HasRun(s, m) \/ (b /\ c + 1 >= m)
<1> DEFINE n == Len(s)
<1>1. PICK t : t = Append(s, b)
  OBVIOUS
<1>2. /\ n \in Nat /\ Len(t) = n + 1 /\ (t[n + 1] <=> b)
      /\ \A j \in 1 .. n : t[j] <=> s[j]
  BY <1>1, Appended
<1>3. /\ c <= n /\ \A j \in n - c + 1 .. n : s[j]
      /\ c < n => ~s[n - c]
  BY DEF Trailing
<1> HIDE DEF n
<1>4. Trailing(t, IF b THEN c + 1 ELSE 0)
  <2>1. CASE b
    <3>1. c + 1 <= n + 1 /\ (n + 1) - (c + 1) + 1 = n - c + 1
      BY <1>2, <1>3
    <3>2. \A j \in n - c + 1 .. n + 1 : t[j]
      <4>1. \A j \in n - c + 1 .. n + 1 : j \in n - c + 1 .. n \/ j = n + 1
        BY <1>2, <1>3
      <4>2. \A j \in n - c + 1 .. n : j \in 1 .. n
        BY <1>2, <1>3
      <4>3. QED
        BY <1>2, <1>3, <2>1, <4>1, <4>2, Zenon
    <3>3. c + 1 < n + 1 => /\ ~t[n - c] /\ (n + 1) - (c + 1) = n - c
      <4>1. ASSUME c + 1 < n + 1
            PROVE  c < n /\ n - c \in 1 .. n /\ (n + 1) - (c + 1) = n - c
        BY <1>2, <4>1
      <4>2. QED
        BY <1>2, <1>3, <4>1, Zenon
    <3>4. QED
      BY <1>2, <2>1, <3>1, <3>2, <3>3, Zenon DEF Trailing
  <2>2. CASE ~b
    <3>1. 0 <= n + 1 /\ (n + 1) - 0 = n + 1 /\ (n + 1) - 0 + 1 .. n + 1 = {}
      BY <1>2
    <3>2. ~t[n + 1]
      BY <1>2, <2>2, Zenon
    <3>3. QED
      BY <1>2, <2>2, <3>1, <3>2, Zenon DEF Trailing
  <2>3. QED
    BY <2>1, <2>2
<1>5. ASSUME NEW m \in Nat \ {0}
      PROVE  /\ m <= c => HasRun(s, m)
             /\ HasRun(t, m) <=> HasRun(s, m) \/ (b /\ c + 1 >= m)
  <2>1. HasRun(s, m) <=> \E i \in 1 .. n - m + 1 : \A j \in i .. i + m - 1 : s[j]
    BY Zenon DEF HasRun, n
  <2>2. HasRun(t, m) <=>
          \E i \in 1 .. (n + 1) - m + 1 : \A j \in i .. i + m - 1 : t[j]
    BY <1>2, Zenon DEF HasRun
  <2>3. ASSUME m <= c PROVE HasRun(s, m)
    <3>1. n - m + 1 \in 1 .. n - m + 1
      BY <1>2, <1>3, <2>3
    <3>2. \A j \in n - m + 1 .. (n - m + 1) + m - 1 : j \in n - c + 1 .. n
      BY <1>2, <1>3, <2>3
    <3>3. QED
      BY <1>3, <2>1, <3>1, <3>2, Zenon
  <2>4. ASSUME HasRun(s, m) PROVE HasRun(t, m)
    <3>1. PICK i \in 1 .. n - m + 1 : \A j \in i .. i + m - 1 : s[j]
      BY <2>1, <2>4
    <3>2. i \in 1 .. (n + 1) - m + 1 /\ \A j \in i .. i + m - 1 : j \in 1 .. n
      BY <1>2
    <3>3. QED
      BY <1>2, <2>2, <3>1, <3>2, Zenon
  <2>5. ASSUME b, c + 1 >= m PROVE HasRun(t, m)
    <3>1. PICK i \in Int : i = (n + 1) - m + 1
      BY <1>2
    <3>2. i \in 1 .. (n + 1) - m + 1
      BY <1>2, <1>3, <2>5, <3>1
    <3>3. \A j \in i .. i + m - 1 : j = n + 1 \/ j \in n - c + 1 .. n
      BY <1>2, <1>3, <2>5, <3>1
    <3>4. \A j \in n - c + 1 .. n : j \in 1 .. n
      BY <1>2, <1>3
    <3>5. QED
      BY <1>2, <1>3, <2>2, <2>5, <3>2, <3>3, <3>4, Zenon
  <2>6. ASSUME HasRun(t, m), ~HasRun(s, m) PROVE b /\ c + 1 >= m
    <3>1. PICK i \in 1 .. (n + 1) - m + 1 : \A j \in i .. i + m - 1 : t[j]
      BY <2>2, <2>6
    <3>2. i = (n + 1) - m + 1
      <4>1. SUFFICES ASSUME i # (n + 1) - m + 1 PROVE FALSE
        OBVIOUS
      <4>2. i \in 1 .. n - m + 1 /\ \A j \in i .. i + m - 1 : j \in 1 .. n
        BY <1>2, <4>1
      <4>3. QED
        BY <1>2, <2>1, <2>6, <3>1, <4>2, Zenon
    <3>3. n + 1 \in i .. i + m - 1
      BY <1>2, <3>2
    <3>4. ASSUME c + 1 < m PROVE FALSE
      <4>1. n - c \in i .. i + m - 1 /\ n - c \in 1 .. n /\ c < n
        BY <1>2, <1>3, <3>2, <3>4
      <4>2. QED
        BY <1>2, <1>3, <3>1, <4>1, Zenon
    <3>5. b
      BY <1>2, <3>1, <3>3, Zenon
    <3>6. QED
      BY <3>4, <3>5
  <2>7. QED
    BY <2>3, <2>4, <2>5, <2>6
<1>6. QED
  BY <1>1, <1>4, <1>5, Zenon

(* The count is that of the stuck values at the end, and its alarms are those
   of the first run that reaches a cutoff. *)
LEMMA RctMeasure ==
  ASSUME TypeOK, Unbeaten(ec), RctCounts, RctIsRunLength,
         NEW d \in Delta, Measure(d)
  PROVE  RctCounts' /\ RctIsRunLength'
<1> SUFFICES ASSUME reset = -1
             PROVE  RctCounts' /\ RctIsRunLength'
  BY DEF RctCounts, RctIsRunLength, Measure
<1>1. PICK b, c, C, P :
        /\ b = Stuck(ec, d) /\ c = ec.rct_count
        /\ C = RctCutoff(ec.osr) /\ P = RctPermanent(ec.osr)
  OBVIOUS
<1>2. /\ b \in BOOLEAN /\ stucks' = Append(stucks, b) /\ ec'.osr = ec.osr
      /\ RctMoves(ec', ec, b) /\ Alarms(ec', ec, d, b)
  BY <1>1, MeasureEffect, Zenon
<1>3. /\ c \in Nat /\ stucks \in Seq(BOOLEAN) /\ Trailing(stucks, c)
      /\ C \in Nat \ {0} /\ P \in Nat /\ C < P
  <2>1. ec.osr \in MinOsr .. MaxOsr /\ ec.rct_count \in Nat
    BY DEF TypeOK, Health
  <2>2. Trailing(stucks, c)
    BY <1>1, Zenon DEF RctCounts, Trailing
  <2>3. QED
    BY <1>1, <2>1, <2>2, Cutoffs DEF TypeOK
<1>4. /\ Trailing(stucks', IF b THEN c + 1 ELSE 0)
      /\ \A m \in Nat \ {0} :
           /\ m <= c => HasRun(stucks, m)
           /\ HasRun(stucks', m) <=> HasRun(stucks, m) \/ (b /\ c + 1 >= m)
  BY <1>2, <1>3, RunGrows, Zenon
<1>5. RctCounts'
  BY <1>1, <1>2, <1>4, Zenon DEF RctCounts, Trailing, RctMoves
<1>6. RctIsRunLength'
  <2>1. /\ "rct" \in ec.failure <=> HasRun(stucks, C)
        /\ "rct_permanent" \in ec.failure <=> HasRun(stucks, P)
    BY <1>1, Zenon DEF RctIsRunLength
  <2>2. /\ "rct_permanent" \in ec'.failure <=>
             "rct_permanent" \in ec.failure \/ (b /\ c + 1 >= P)
        /\ "rct" \in ec'.failure <=>
             "rct" \in ec.failure \/ (b /\ c + 1 = C /\ ~(c + 1 >= P))
    BY <1>1, <1>2, Zenon DEF Alarms
  <2>3. /\ C <= c => HasRun(stucks, C)
        /\ HasRun(stucks', C) <=> HasRun(stucks, C) \/ (b /\ c + 1 >= C)
        /\ HasRun(stucks', P) <=> HasRun(stucks, P) \/ (b /\ c + 1 >= P)
    BY <1>3, <1>4
  <2>4. c + 1 >= C => C <= c \/ (c + 1 = C /\ ~(c + 1 >= P))
    BY <1>3
  <2>5. c + 1 = C => c + 1 >= C
    BY <1>3
  <2>6. /\ "rct_permanent" \in ec'.failure <=> HasRun(stucks', P)
        /\ "rct" \in ec'.failure <=> HasRun(stucks', C)
    BY <2>1, <2>2, <2>3, <2>4, <2>5, Zenon
  <2>7. QED
    BY <1>1, <1>2, <2>6, Zenon DEF RctIsRunLength
<1>7. QED
  BY <1>5, <1>6

(* jent_health_init ends the run and raises no alarm. *)
LEMMA RctHealthInit ==
  ASSUME TypeOK, RctCounts, RctIsRunLength, HealthInit
  PROVE  RctCounts' /\ RctIsRunLength'
<1> SUFFICES ASSUME reset = -1
             PROVE  RctCounts' /\ RctIsRunLength'
  BY DEF RctCounts, RctIsRunLength, HealthInit
<1>1. PICK b \in BOOLEAN : b = FALSE
  OBVIOUS
<1>2. /\ stucks' = Append(stucks, b) /\ ec'.rct_count = 0
      /\ ec'.osr = ec.osr /\ ec'.failure = ec.failure
  BY <1>1, HealthInitEffect, Zenon
<1>3. /\ ec.rct_count \in Nat /\ stucks \in Seq(BOOLEAN)
      /\ Trailing(stucks, ec.rct_count)
      /\ RctCutoff(ec.osr) \in Nat \ {0} /\ RctPermanent(ec.osr) \in Nat \ {0}
  <2>1. ec.osr \in MinOsr .. MaxOsr /\ ec.rct_count \in Nat
    BY DEF TypeOK, Health
  <2>2. Trailing(stucks, ec.rct_count)
    BY Zenon DEF RctCounts, Trailing
  <2>3. QED
    BY <2>1, <2>2, Cutoffs DEF TypeOK
<1>4. /\ Trailing(stucks', 0)
      /\ \A m \in Nat \ {0} : HasRun(stucks', m) <=> HasRun(stucks, m)
  <2>1. Trailing(stucks', IF b THEN ec.rct_count + 1 ELSE 0)
    BY <1>2, <1>3, RunGrows, Zenon
  <2>2. \A m \in Nat \ {0} :
          HasRun(stucks', m) <=> HasRun(stucks, m) \/ (b /\ ec.rct_count + 1 >= m)
    BY <1>2, <1>3, RunGrows, Zenon
  <2>3. QED
    BY <1>1, <2>1, <2>2, Zenon
<1>5. RctCounts'
  BY <1>2, <1>4, Zenon DEF RctCounts, Trailing
<1>6. RctIsRunLength'
  BY <1>2, <1>3, <1>4, Zenon DEF RctIsRunLength
<1>7. QED
  BY <1>5, <1>6

(* A measurement after a reset: the count goes on from the one the reset
   started with, which is not below the intermittent cutoff. *)
LEMMA StuckRunMeasure ==
  ASSUME TypeOK, Unbeaten(ec), RctResumes, ResetKeepsStuckRun,
         NEW d \in Delta, Measure(d)
  PROVE  RctResumes' /\ ResetKeepsStuckRun'
<1>0. inits' = inits /\ reset' = reset
  BY DEF Measure
<1> SUFFICES ASSUME inits = 0
             PROVE  RctResumes' /\ ResetKeepsStuckRun'
  BY <1>0 DEF RctResumes, ResetKeepsStuckRun
<1>1. PICK b, n, c, C, P, R, z :
        /\ b = Stuck(ec, d) /\ n = Len(seen) /\ c = ec.rct_count
        /\ C = RctCutoff(ec.osr) /\ P = RctPermanent(ec.osr)
        /\ R = RctRate * ec.osr /\ z = reset
  OBVIOUS
<1>2. /\ b \in BOOLEAN /\ stucks' = Append(stucks, b) /\ ec'.osr = ec.osr
      /\ RctMoves(ec', ec, b) /\ Alarms(ec', ec, d, b)
      /\ seen' = Append(seen, d) /\ d \in Value
  BY <1>1, MeasureEffect, Zenon
<1>3. /\ n \in Nat /\ c \in Nat /\ C \in Nat /\ P \in Nat /\ R \in Nat
      /\ C <= R /\ C < P /\ z \in Nat \cup {-1} /\ z <= n
  <2>1. ec.osr \in MinOsr .. MaxOsr /\ ec.rct_count \in Nat
    BY DEF TypeOK, Health
  <2>2. Len(seen) \in Nat
    BY LenProperties DEF TypeOK
  <2>3. QED
    BY <1>1, <2>1, <2>2, Cutoffs DEF TypeOK
<1>4. /\ Len(seen') = n + 1 /\ Len(stucks) = n /\ Len(stucks') = n + 1
      /\ (stucks'[n + 1] <=> b) /\ \A j \in 1 .. n : stucks'[j] <=> stucks[j]
  <2>1. Len(stucks) = n
    BY <1>1, Zenon DEF RctResumes
  <2>2. Len(seen') = n + 1
    BY <1>1, <1>2, Appended DEF TypeOK
  <2>3. QED
    BY <1>2, <2>1, <2>2, Appended DEF TypeOK
<1>5. SUFFICES ASSUME z >= 0
               PROVE  RctResumes' /\ ResetKeepsStuckRun'
  BY <1>0, <1>1, <1>4 DEF RctResumes, ResetKeepsStuckRun
<1>6. ASSUME \A j \in z + 1 .. n + 1 : stucks'[j]
      PROVE  /\ b /\ c = R + (n - z) /\ ec'.rct_count = R + ((n + 1) - z)
             /\ \A j \in z + 1 .. n : stucks[j]
  <2>1. b
    BY <1>3, <1>4, <1>6
  <2>2. \A j \in z + 1 .. n : j \in 1 .. n /\ j \in z + 1 .. n + 1
    BY <1>3, <1>5
  <2>3. \A j \in z + 1 .. n : stucks[j]
    BY <1>4, <1>6, <2>2, Zenon
  <2>4. c = R + (n - z)
    BY <1>1, <1>4, <1>5, <2>3, Zenon DEF RctResumes
  <2>5. ec'.rct_count = c + 1
    BY <1>1, <1>2, <2>1, Zenon DEF RctMoves
  <2>6. QED
    BY <1>3, <2>1, <2>3, <2>4, <2>5
<1>7. RctResumes'
  <2>1. /\ Len(stucks') = Len(seen')
        /\ reset' = z /\ R = RctRate * ec'.osr
    BY <1>0, <1>1, <1>2, <1>4
  <2>2. Len(stucks') = n + 1
    BY <1>4
  <2>3. (\A j \in reset' + 1 .. Len(stucks') : stucks'[j]) =>
          ec'.rct_count = RctRate * ec'.osr + (Len(stucks') - reset')
    <3>1. (\A j \in z + 1 .. n + 1 : stucks'[j]) => ec'.rct_count = R + ((n + 1) - z)
      BY <1>6
    <3>2. QED
      BY <2>1, <2>2, <3>1
  <2>4. QED
    BY <2>1, <2>3, Zenon DEF RctResumes
<1>8. ResetKeepsStuckRun'
  <2>1. ASSUME (n + 1) - z >= P - C, \A j \in z + 1 .. n + 1 : stucks'[j]
        PROVE  "rct_permanent" \in ec'.failure
    <3>1. /\ b /\ c = R + (n - z) /\ \A j \in z + 1 .. n : stucks[j]
      BY <1>6, <2>1
    <3>2. c + 1 >= P
      BY <1>3, <2>1, <3>1
    <3>3. QED
      BY <1>1, <1>2, <3>1, <3>2, Zenon DEF Alarms
  <2>2. (n + 1) - ((n + 1) - z) + 1 = z + 1
    BY <1>3
  <2>3. /\ Len(seen') = n + 1 /\ Len(stucks') = n + 1 /\ reset' = z
        /\ P = RctPermanent(ec'.osr) /\ C = RctCutoff(ec'.osr)
    BY <1>0, <1>1, <1>2, <1>4
  <2>4. QED
    BY <2>1, <2>2, <2>3, Zenon DEF ResetKeepsStuckRun
<1>9. QED
  BY <1>7, <1>8

(* A reset: no value has come yet, and some are missing for the alarm. *)
LEMMA StuckRunReset ==
  ASSUME TypeOK, AptWindow, RctResumes,
         NEW osr \in MinOsr .. MaxOsr, HealthReset(osr)
  PROVE  RctResumes' /\ ResetKeepsStuckRun'
<1>1. /\ Len(seen) \in Nat /\ seen' = seen /\ stucks' = stucks /\ inits' = inits
      /\ reset' = Len(seen) /\ ec'.rct_count = RctRate * ec'.osr
      /\ ec'.osr \in MinOsr .. MaxOsr
  BY HealthResetEffect DEF TypeOK, Health
<1>2. /\ RctCutoff(ec'.osr) \in Nat /\ RctPermanent(ec'.osr) \in Nat
      /\ RctCutoff(ec'.osr) < RctPermanent(ec'.osr) /\ RctRate * ec'.osr \in Nat
  BY <1>1, Cutoffs
<1>3. RctResumes'
  <2>1. SUFFICES ASSUME inits' = 0
                 PROVE  /\ Len(stucks') = Len(seen')
                        /\ ec'.rct_count = RctRate * ec'.osr + (Len(stucks') - reset')
    BY DEF RctResumes
  <2>2. Len(stucks) = Len(seen)
    BY <1>1, <2>1 DEF RctResumes
  <2>3. QED
    BY <1>1, <1>2, <2>2
<1>4. ResetKeepsStuckRun'
  <2>1. ~(Len(seen') - reset' >= RctPermanent(ec'.osr) - RctCutoff(ec'.osr))
    BY <1>1, <1>2
  <2>2. QED
    BY <2>1, Zenon DEF ResetKeepsStuckRun
<1>5. QED
  BY <1>3, <1>4

-----------------------------------------------------------------------------
(* The lag predictor.  A lag's score for any history: the values from first
   on that it would have guessed. *)
ScoreFrom(s, first, i) ==
  Cardinality({ j \in first .. Len(s) : s[j] = s[j - i - 1] })

(* The property's score is one of these. *)
LEMMA ScoreIsFrom ==
  ASSUME NEW i
  PROVE  Score(i) = ScoreFrom(seen, Len(seen) - ec.lag_observations
                                      + LAG_HISTORY_SIZE + 1, i)
BY Zenon DEF Score, ScoreFrom

(* While the history is being filled nothing is scored. *)
LEMMA NoScore ==
  ASSUME NEW s \in Seq(Value), NEW first \in Int, NEW i, first > Len(s)
  PROVE  ScoreFrom(s, first, i) = 0
<1>1. Len(s) \in Nat
  BY LenProperties
<1>2. first .. Len(s) = {}
  BY <1>1
<1>3. { j \in first .. Len(s) : s[j] = s[j - i - 1] } = {}
  BY <1>2
<1>4. QED
  BY <1>3, FS_EmptySet DEF ScoreFrom

(* One more value is a hit of the lag that leads to an equal one. *)
LEMMA ScoreGrows ==
  ASSUME NEW s \in Seq(Value), NEW d \in Value, NEW first \in Int,
         NEW i \in Nat, first > i + 1, first <= Len(s) + 1
  PROVE  /\ ScoreFrom(s, first, i) \in Nat
         /\ ScoreFrom(Append(s, d), first, i) =
              IF s[Len(s) - i] = d THEN ScoreFrom(s, first, i) + 1
                                   ELSE ScoreFrom(s, first, i)
<1> DEFINE n == Len(s)
           t == Append(s, d)
           A == { j \in first .. n : s[j] = s[j - i - 1] }
           B == { j \in first .. n + 1 : t[j] = t[j - i - 1] }
<1>1. /\ n \in Nat /\ Len(t) = n + 1 /\ t[n + 1] = d
      /\ \A j \in 1 .. n : t[j] = s[j]
  BY Appended
<1>2. IsFiniteSet(A) /\ n + 1 \notin A
  <2>1. A \subseteq first .. n /\ n \in Int
    BY <1>1
  <2>2. IsFiniteSet(first .. n)
    BY <2>1, FS_Interval
  <2>3. IsFiniteSet(A)
    BY <2>1, <2>2, FS_Subset
  <2>4. n + 1 \notin A
    BY <1>1
  <2>5. QED
    BY <2>3, <2>4
<1>3. B = IF s[n - i] = d THEN A \cup {n + 1} ELSE A
  <2>1. \A j \in first .. n + 1 : j \in first .. n \/ j = n + 1
    BY <1>1
  <2>2. n + 1 \in first .. n + 1 /\ first .. n \subseteq first .. n + 1
    BY <1>1
  <2>3. \A j \in first .. n : t[j] = s[j] /\ t[j - i - 1] = s[j - i - 1]
    <3>1. \A j \in first .. n : j \in 1 .. n /\ j - i - 1 \in 1 .. n
      BY <1>1
    <3>2. QED
      BY <1>1, <3>1, Zenon
  <2>4. t[(n + 1) - i - 1] = s[n - i]
    <3>1. (n + 1) - i - 1 = n - i /\ n - i \in 1 .. n
      BY <1>1
    <3>2. QED
      BY <1>1, <3>1
  <2> HIDE DEF t, n
  <2>5. n + 1 \in B <=> s[n - i] = d
    BY <1>1, <2>2, <2>4
  <2>6. \A j \in first .. n : j \in B <=> j \in A
    BY <2>2, <2>3
  <2>7. B \subseteq first .. n + 1 /\ A \subseteq first .. n
    OBVIOUS
  <2>9. PICK m : m = n + 1
    OBVIOUS
  <2> HIDE DEF A, B
  <2>10. /\ \A j \in B : j \in A \/ j = m
         /\ \A j \in A : j \in B
         /\ m \in B <=> s[n - i] = d
         /\ m \notin A
    BY <1>2, <2>1, <2>5, <2>6, <2>7, <2>9, Zenon
  <2>11. CASE s[n - i] = d
    <3>1. B = A \cup {m}
      BY <2>10, <2>11
    <3>2. QED
      BY <2>9, <2>11, <3>1
  <2>12. CASE s[n - i] # d
    <3>1. B = A
      BY <2>10, <2>12
    <3>2. QED
      BY <2>12, <3>1
  <2>13. QED
    BY <2>11, <2>12
<1>4. Cardinality(A \cup {n + 1}) = Cardinality(A) + 1 /\ Cardinality(A) \in Nat
  BY <1>2, FS_AddElement, FS_CardinalityType
<1>5. ScoreFrom(s, first, i) = Cardinality(A) /\ ScoreFrom(t, first, i) = Cardinality(B)
  BY <1>1, Zenon DEF ScoreFrom
<1> HIDE DEF A, B
<1>6. QED
  BY <1>3, <1>4, <1>5

(* The place of a lag moves on by one with every delta, and the new delta
   takes none of the places that are still in use. *)
LEMMA StoredFollows ==
  ASSUME NEW e \in Health, NEW d \in Value, NEW r,
         r.lag_observations = e.lag_observations + 1,
         r.lag_history = Stored(e, d),
         NEW k \in LagIndex, k < e.lag_observations + 1
  PROVE  LagHistory(r, k) = IF k = 0 THEN d ELSE LagHistory(e, k - 1)
<1>1. PICK o \in Nat, h \in [LagIndex -> Value] :
        o = e.lag_observations /\ h = e.lag_history
  BY DEF Health
<1> DEFINE H == LAG_HISTORY_SIZE
<1>2. H \in Nat \ {0} /\ k \in Nat /\ k < H
  BY SizeAssumption DEF LagIndex
<1>3. o % H \in LagIndex
  BY <1>1, <1>2, Division DEF LagIndex
<1>4. r.lag_history = [h EXCEPT ![o % H] = d]
  BY <1>1, Zenon DEF Stored
<1>5. PICK a \in Nat : a = o - k
  BY <1>1, <1>2
<1>6. (o + 1) - k - 1 = a
  BY <1>1, <1>2, <1>5
<1>7. LagHistory(r, k) = [h EXCEPT ![o % H] = d][a % H]
  <2>1. LagHistory(r, k) = r.lag_history[((o + 1) - k - 1) % H]
    BY <1>1, Zenon DEF LagHistory
  <2>2. QED
    BY <1>4, <1>6, <2>1, Zenon
<1>8. CASE k = 0
  <2>1. a = o
    BY <1>1, <1>5, <1>8
  <2>2. QED
    BY <1>3, <1>7, <1>8, <2>1, Zenon
<1>9. CASE k # 0
  <2>1. a < o /\ ~(a + H <= o)
    BY <1>1, <1>2, <1>5, <1>9
  <2>2. a % H # o % H
    BY <1>2, <2>1, RemaindersMeet
  <2>3. a % H \in LagIndex
    BY <1>2, Division DEF LagIndex
  <2>4. LagHistory(r, k) = h[a % H]
    BY <1>7, <2>2, <2>3, Zenon
  <2>5. o - (k - 1) - 1 = a
    BY <1>1, <1>2, <1>5
  <2>6. LagHistory(e, k - 1) = h[a % H]
    BY <1>1, <2>5, Zenon DEF LagHistory
  <2>7. QED
    BY <1>9, <2>4, <2>6, Zenon
<1>10. QED
  BY <1>8, <1>9

(* The history's places hold the latest deltas, in their order. *)
LEMMA LagFollowsMeasure ==
  ASSUME TypeOK, Unbeaten(ec), LagFollows, NEW d \in Delta, Measure(d)
  PROVE  LagFollows'
<1>1. PICK n, o, H : n = Len(seen) /\ o = ec.lag_observations /\ H = LAG_HISTORY_SIZE
  OBVIOUS
<1>2. /\ LagMoves(ec', ec, d) /\ d \in Value /\ ec \in Health
      /\ seen' = Append(seen, d)
  BY MeasureEffect DEF TypeOK
<1>3. /\ n \in Nat /\ o \in Nat /\ H \in Nat /\ LAG_WINDOW_SIZE \in Nat
      /\ o <= n /\ o < LAG_WINDOW_SIZE /\ H < LAG_WINDOW_SIZE
      /\ \A k \in LagIndex : k < o => LagHistory(ec, k) = seen[n - k]
      /\ LagIndex = 0 .. H - 1
  <2>1. Len(seen) \in Nat /\ ec.lag_observations \in Nat
    BY LenProperties DEF TypeOK, Health
  <2>2. QED
    BY <1>1, <2>1, SizeAssumption DEF LagFollows, LagIndex
<1>4. /\ Len(seen') = n + 1 /\ seen'[n + 1] = d
      /\ \A i \in 1 .. n : seen'[i] = seen[i]
  BY <1>1, <1>2, Appended DEF TypeOK
<1>5. CASE o < H \/ o + 1 < LAG_WINDOW_SIZE
  <2>1. ec'.lag_observations = o + 1 /\ ec'.lag_history = Stored(ec, d)
    BY <1>1, <1>2, <1>3, <1>5 DEF LagMoves
  <2>2. o + 1 <= n + 1 /\ o + 1 < LAG_WINDOW_SIZE
    BY <1>3, <1>5
  <2>3. ASSUME NEW k \in LagIndex, k < o + 1
        PROVE  LagHistory(ec', k) = seen'[(n + 1) - k]
    <3>1. LagHistory(ec', k) = IF k = 0 THEN d ELSE LagHistory(ec, k - 1)
      BY <1>1, <1>2, <2>1, <2>3, StoredFollows
    <3>2. CASE k = 0
      BY <1>3, <1>4, <3>1, <3>2
    <3>3. CASE k # 0
      <4>1. k - 1 \in LagIndex /\ k - 1 < o
        BY <1>3, <2>3, <3>3
      <4>2. n - (k - 1) = (n + 1) - k /\ (n + 1) - k \in 1 .. n
        BY <1>3, <2>3, <3>3
      <4>3. LagHistory(ec, k - 1) = seen[n - (k - 1)]
        BY <1>3, <4>1, Zenon
      <4>4. QED
        BY <1>4, <3>1, <3>3, <4>2, <4>3, Zenon
    <3>4. QED
      BY <3>2, <3>3
  <2>4. QED
    BY <1>4, <2>1, <2>2, <2>3, Zenon DEF LagFollows
<1>6. CASE ~(o < H \/ o + 1 < LAG_WINDOW_SIZE)
  <2>1. ec'.lag_observations = 0
    BY <1>1, <1>2, <1>3, <1>6 DEF LagMoves
  <2>2. 0 <= n + 1 /\ 0 < LAG_WINDOW_SIZE /\ \A k \in LagIndex : ~(k < 0)
    BY <1>3
  <2>3. QED
    BY <1>4, <2>1, <2>2, Zenon DEF LagFollows
<1>7. QED
  BY <1>5, <1>6

(* The scores and the deltas' hits grow alike. *)
LEMMA LagScoresMeasure ==
  ASSUME TypeOK, LagFollows, LagScoresAreHits, NEW d \in Delta, Measure(d)
  PROVE  LagScoresAreHits'
<1>1. PICK n, o, H : n = Len(seen) /\ o = ec.lag_observations /\ H = LAG_HISTORY_SIZE
  OBVIOUS
<1>2. Unbeaten(ec) /\ \A i \in LagIndex : ec.lag_scoreboard[i] = Score(i)
  BY Zenon DEF Unbeaten, LagScoresAreHits
<1>3. /\ LagMoves(ec', ec, d) /\ Unbeaten(ec') /\ d \in Value /\ ec \in Health
      /\ seen' = Append(seen, d) /\ seen \in Seq(Value) /\ seen' \in Seq(Value)
  BY <1>2, MeasureEffect DEF TypeOK
<1>4. /\ n \in Nat /\ o \in Nat /\ H \in Nat /\ LAG_WINDOW_SIZE \in Nat
      /\ o <= n /\ o < LAG_WINDOW_SIZE /\ H < LAG_WINDOW_SIZE
      /\ LagIndex = 0 .. H - 1
  <2>1. Len(seen) \in Nat /\ ec.lag_observations \in Nat
    BY LenProperties DEF TypeOK, Health
  <2>2. QED
    BY <1>1, <2>1, SizeAssumption DEF LagFollows, LagIndex
<1>5. Len(seen') = n + 1
  BY <1>1, <1>3, Appended
<1>6. ASSUME NEW i \in LagIndex
      PROVE  ec'.lag_scoreboard[i] = Score(i)'
  <2>1. /\ Score(i) = ScoreFrom(seen, n - o + H + 1, i)
        /\ Score(i)' = ScoreFrom(seen', (n + 1) - ec'.lag_observations + H + 1, i)
    BY <1>1, <1>5, Zenon DEF Score, ScoreFrom
  <2>2. CASE o < H
    <3>1. /\ ec'.lag_observations = o + 1
          /\ ec'.lag_scoreboard = ec.lag_scoreboard
      BY <1>1, <1>3, <2>2, Zenon DEF LagMoves
    <3>2. /\ n - o + H + 1 \in Int /\ n - o + H + 1 > Len(seen)
          /\ (n + 1) - (o + 1) + H + 1 \in Int
          /\ (n + 1) - (o + 1) + H + 1 > Len(seen')
      BY <1>1, <1>4, <1>5, <2>2
    <3>3. /\ ScoreFrom(seen, n - o + H + 1, i) = 0
          /\ ScoreFrom(seen', (n + 1) - (o + 1) + H + 1, i) = 0
      BY <1>3, <3>2, NoScore
    <3>4. QED
      BY <1>2, <2>1, <3>1, <3>3, Zenon
  <2>3. CASE o >= H /\ o + 1 < LAG_WINDOW_SIZE
    <3>1. /\ ec'.lag_observations = o + 1
          /\ ec'.lag_scoreboard = Raised(ec.lag_scoreboard, Right(ec, d))
      BY <1>1, <1>3, <2>3, Zenon DEF LagMoves
    <3>2. PICK first \in Int : first = n - o + H + 1
      BY <1>4
    <3>3. /\ (n + 1) - (o + 1) + H + 1 = first
          /\ i \in Nat /\ first > i + 1 /\ first <= Len(seen) + 1 /\ i < o
      BY <1>1, <1>4, <2>3, <3>2
    <3>4. /\ ScoreFrom(seen, first, i) \in Nat
          /\ ScoreFrom(seen', first, i) =
               IF seen[Len(seen) - i] = d THEN ScoreFrom(seen, first, i) + 1
                                          ELSE ScoreFrom(seen, first, i)
      BY <1>3, <3>2, <3>3, ScoreGrows
    <3>5. i \in Right(ec, d) <=> seen[Len(seen) - i] = d
      BY <1>1, <3>3, Zenon DEF Right, LagFollows
    <3>6. ec'.lag_scoreboard[i] = ec.lag_scoreboard[i]
                                    + IF i \in Right(ec, d) THEN 1 ELSE 0
      BY <3>1, Zenon DEF Raised
    <3>7. ec.lag_scoreboard[i] = ScoreFrom(seen, first, i)
      BY <1>2, <2>1, <3>2, Zenon
    <3>8. Score(i)' = ScoreFrom(seen', first, i)
      BY <2>1, <3>1, <3>3
    <3>9. QED
      BY <3>4, <3>5, <3>6, <3>7, <3>8
  <2>4. CASE o >= H /\ o + 1 >= LAG_WINDOW_SIZE
    <3>1. ec'.lag_observations = 0 /\ ec'.lag_scoreboard = NoLag
      BY <1>1, <1>3, <2>4, Zenon DEF LagMoves
    <3>2. (n + 1) - 0 + H + 1 \in Int /\ (n + 1) - 0 + H + 1 > Len(seen')
      BY <1>4, <1>5
    <3>3. ScoreFrom(seen', (n + 1) - 0 + H + 1, i) = 0
      BY <1>3, <3>2, NoScore
    <3>4. NoLag[i] = 0
      BY DEF NoLag
    <3>5. QED
      BY <2>1, <3>1, <3>3, <3>4, Zenon
  <2>5. QED
    BY <1>4, <2>2, <2>3, <2>4
<1>7. QED
  BY <1>3, <1>6, Zenon DEF LagScoresAreHits, Unbeaten

(* Neither of the other two actions touches the lag predictor. *)
LEMMA LagKept ==
  ASSUME LagFollows, LagScoresAreHits, SameLag(ec', ec), seen' = seen
  PROVE  LagFollows' /\ LagScoresAreHits'
<1>1. ASSUME NEW k PROVE LagHistory(ec', k) = LagHistory(ec, k)
  BY Zenon DEF LagHistory, SameLag
<1>2. LagFollows'
  BY <1>1, Zenon DEF LagFollows, SameLag
<1>3. ASSUME NEW i PROVE Score(i)' = Score(i)
  BY Zenon DEF Score, SameLag
<1>4. LagScoresAreHits'
  BY <1>3, Zenon DEF LagScoresAreHits, SameLag
<1>5. QED
  BY <1>2, <1>4

-----------------------------------------------------------------------------
(* The invariant, for the initial state and for every step. *)
LEMMA InitInv == Init => Inv
<1> SUFFICES ASSUME Init PROVE Inv
  OBVIOUS
<1>1. MinOsr \in MinOsr .. MaxOsr /\ 0 \in LagIndex
  BY SizeAssumption DEF LagIndex
<1>2. /\ ec \in Health /\ ec.osr = MinOsr /\ ec.failure = {}
  BY <1>1, NewTyped DEF Init
<1>3. /\ ec.rct_count = 0 /\ ~ec.apt_base_set /\ ec.apt_observations = 0
      /\ ec.lag_observations = 0 /\ ec.lag_scoreboard = NoLag /\ ec.lag_best = 0
  BY DEF Init, NewCollector
<1>4. /\ seen = << >> /\ stucks = << >> /\ reset = -1 /\ inits = 0
      /\ window.first = 0 /\ window.last = 0 /\ window \in [first : Nat, last : Nat]
      /\ Len(seen) = 0 /\ Len(stucks) = 0
      /\ seen \in Seq(Value) /\ stucks \in Seq(BOOLEAN)
  BY EmptySeq DEF Init
<1>5. TypeOK
  BY <1>2, <1>4 DEF TypeOK
<1>6. AptWindow
  BY <1>2, <1>3, <1>4 DEF AptWindow
<1>7. AptCounts /\ AptResumes /\ ResetKeepsStuckRun /\ ResetKeepsProportion
  BY <1>4 DEF AptCounts, AptResumes, ResetKeepsStuckRun, ResetKeepsProportion
<1>8. RctCounts
  BY <1>3, <1>4 DEF RctCounts
<1>9. RctResumes
  BY <1>4 DEF RctResumes
<1>10. /\ RctCutoff(ec.osr) \in Nat \ {0} /\ RctPermanent(ec.osr) \in Nat \ {0}
  BY <1>1, <1>2, Cutoffs
<1>11. RctIsRunLength
  <2>1. ASSUME NEW m \in Nat \ {0} PROVE ~HasRun(stucks, m)
    BY <1>4 DEF HasRun
  <2>2. QED
    BY <1>2, <1>10, <2>1 DEF RctIsRunLength
<1>12. AptIsProportion
  <2>1. AptWindows = {}
    BY <1>4 DEF AptWindows
  <2>2. QED
    BY <1>2, <2>1, Zenon DEF AptIsProportion
<1>13. LagFollows
  BY <1>3, <1>4, SizeAssumption DEF LagFollows, LagIndex
<1>14. LagScoresAreHits
  <2>1. ASSUME NEW i \in LagIndex PROVE NoLag[i] = 0
    BY DEF NoLag
  <2>2. ASSUME NEW i \in LagIndex PROVE Score(i) = 0
    <3>1. /\ Len(seen) - ec.lag_observations + LAG_HISTORY_SIZE + 1 \in Int
          /\ Len(seen) - ec.lag_observations + LAG_HISTORY_SIZE + 1 > Len(seen)
      BY <1>3, <1>4, SizeAssumption
    <3>2. QED
      BY <1>4, <3>1, NoScore, ScoreIsFrom
  <2>3. QED
    BY <1>1, <1>3, <2>1, <2>2 DEF LagScoresAreHits
<1>15. QED
  BY <1>5, <1>6, <1>7, <1>8, <1>9, <1>11, <1>12, <1>13, <1>14 DEF Inv

(* A measurement keeps each conjunct. *)
LEMMA MeasureInv ==
  ASSUME Inv, NEW d \in Delta, Measure(d)
  PROVE  Inv'
<1> USE DEF Inv
<1>1. Unbeaten(ec)
  BY Zenon DEF LagScoresAreHits, Unbeaten
<1>2. TypeOK'
  BY <1>1, MeasureEffect
<1>3. AptWindow' /\ AptCounts' /\ AptIsProportion'
  BY <1>1, AptWindowMeasure, AptMeasure
<1>4. AptResumes' /\ ResetKeepsProportion'
  BY <1>1, ProportionMeasure
<1>5. RctCounts' /\ RctIsRunLength' /\ RctResumes' /\ ResetKeepsStuckRun'
  BY <1>1, RctMeasure, StuckRunMeasure
<1>6. LagFollows' /\ LagScoresAreHits'
  BY <1>1, LagFollowsMeasure, LagScoresMeasure
<1>7. QED
  BY <1>2, <1>3, <1>4, <1>5, <1>6

(* jent_health_init keeps each conjunct. *)
LEMMA HealthInitInv ==
  ASSUME Inv, HealthInit
  PROVE  Inv'
<1> USE DEF Inv
<1>1. /\ TypeOK' /\ ec'.osr = ec.osr /\ ec'.failure = ec.failure
      /\ SameApt(ec', ec) /\ SameLag(ec', ec) /\ seen' = seen
      /\ reset' = reset /\ window' = window
      /\ inits' = inits + 1 /\ inits \in Nat
  BY HealthInitEffect
<1>2. AptWindow'
  BY <1>1, Zenon DEF AptWindow, SameApt
<1>3. ASSUME NEW i PROVE Occurrences(i)' = Occurrences(i)
  BY <1>1, Zenon DEF Occurrences
<1>4. AptWindows' = AptWindows
  BY <1>1, Zenon DEF AptWindows
<1>5. AptCounts' /\ AptIsProportion'
  <2>1. AptCounts'
    BY <1>1, Zenon DEF AptCounts, Occurrences, SameApt
  <2>2. AptIsProportion'
    BY <1>1, <1>3, <1>4, Zenon DEF AptIsProportion
  <2>3. QED
    BY <2>1, <2>2
<1>6. AptResumes' /\ ResetKeepsProportion'
  BY <1>1, Zenon DEF AptResumes, ResetKeepsProportion, Rest, SameApt
<1>7. RctCounts' /\ RctIsRunLength'
  BY RctHealthInit
<1>8. RctResumes' /\ ResetKeepsStuckRun'
  <2>1. inits' # 0
    BY <1>1
  <2>2. QED
    BY <2>1, Zenon DEF RctResumes, ResetKeepsStuckRun
<1>9. LagFollows' /\ LagScoresAreHits'
  BY <1>1, LagKept
<1>10. QED
  BY <1>1, <1>2, <1>5, <1>6, <1>7, <1>8, <1>9

(* A health reset keeps each conjunct. *)
LEMMA HealthResetInv ==
  ASSUME Inv, NEW osr \in MinOsr .. MaxOsr, HealthReset(osr)
  PROVE  Inv'
<1> USE DEF Inv
<1>1. /\ TypeOK' /\ SameLag(ec', ec) /\ seen' = seen
      /\ reset' = Len(seen) /\ Len(seen) \in Nat
  BY HealthResetEffect
<1>2. AptWindow'
  BY AptWindowReset
<1>3. AptCounts' /\ AptIsProportion' /\ RctCounts' /\ RctIsRunLength'
  <2>1. reset' # -1
    BY <1>1
  <2>2. QED
    BY <2>1, Zenon DEF AptCounts, AptIsProportion, RctCounts, RctIsRunLength
<1>4. AptResumes' /\ ResetKeepsProportion'
  BY ProportionReset
<1>5. RctResumes' /\ ResetKeepsStuckRun'
  BY StuckRunReset
<1>6. LagFollows' /\ LagScoresAreHits'
  BY <1>1, LagKept
<1>7. QED
  BY <1>1, <1>2, <1>3, <1>4, <1>5, <1>6

(* A step that changes nothing keeps each conjunct. *)
LEMMA StutterInv ==
  ASSUME Inv, UNCHANGED vars
  PROVE  Inv'
<1>1. /\ ec' = ec /\ seen' = seen /\ stucks' = stucks /\ reset' = reset
      /\ window' = window /\ inits' = inits
  BY DEF vars
<1>2. TypeOK' /\ AptWindow' /\ AptResumes' /\ ResetKeepsProportion'
  BY <1>1, Zenon DEF Inv, TypeOK, AptWindow, AptResumes, Rest, ResetKeepsProportion
<1>3. AptCounts' /\ AptIsProportion'
  BY <1>1, Zenon DEF Inv, AptCounts, AptIsProportion, AptWindows, Occurrences
<1>4. RctCounts' /\ RctIsRunLength' /\ RctResumes' /\ ResetKeepsStuckRun'
  BY <1>1, Zenon DEF Inv, RctCounts, RctIsRunLength, RctResumes, ResetKeepsStuckRun
<1>5. LagFollows' /\ LagScoresAreHits'
  <2>1. SameLag(ec', ec)
    BY <1>1, Zenon DEF SameLag
  <2>2. QED
    BY <1>1, <2>1, LagKept DEF Inv
<1>6. QED
  BY <1>2, <1>3, <1>4, <1>5 DEF Inv

(* Inv is an invariant. *)
LEMMA Invariance == Spec => []Inv
<1>1. Init => Inv
  BY InitInv
<1>2. Inv /\ [Next]_vars => Inv'
  <2> SUFFICES ASSUME Inv, [Next]_vars PROVE Inv'
    OBVIOUS
  <2>1. CASE \E d \in Delta : Measure(d)
    BY <2>1, MeasureInv
  <2>2. CASE HealthInit
    BY <2>2, HealthInitInv
  <2>3. CASE \E osr \in MinOsr .. MaxOsr : HealthReset(osr)
    BY <2>3, HealthResetInv
  <2>4. CASE UNCHANGED vars
    BY <2>4, StutterInv
  <2>5. QED
    BY <2>1, <2>2, <2>3, <2>4 DEF Next
<1>3. QED
  BY <1>1, <1>2, PTL DEF Spec

-----------------------------------------------------------------------------
(* Every collector that the tests and the resets produce is one that struct
   rand_data can hold, whatever deltas come in. *)
THEOREM HealthTypes == Spec => []TypeOK
<1>1. Inv => TypeOK
  BY DEF Inv
<1>2. QED
  BY <1>1, Invariance, PTL

(* Before any reset the RCT has failed, intermittently or for good, if and only
   if the stuck test gave that many TRUE in a row somewhere: the count and its
   comparison by = and >= miss no run and invent none, also where
   jent_health_init starts the count anew in between. *)
THEOREM RunsAreCounted == Spec => []RctIsRunLength
<1>1. Inv => RctIsRunLength
  BY DEF Inv
<1>2. QED
  BY <1>1, Invariance, PTL

(* Before any reset the APT has failed if and only if the first value of some
   window of the history occurs often enough in it: the base, the count and the
   number of observations walk the windows of SP 800-90B 4.4.2. *)
THEOREM ProportionIsCounted == Spec => []AptIsProportion
<1>1. Inv => AptIsProportion
  BY DEF Inv
<1>2. QED
  BY <1>1, Invariance, PTL

(* The lag predictor's scores are the hits that the history of the deltas
   itself contains, and jent_lag_insert's walk, which raises the scores while it
   looks for the best, ends at a best one. *)
THEOREM LagsAreScored == Spec => []LagScoresAreHits
<1>1. Inv => LagScoresAreHits
  BY DEF Inv
<1>2. QED
  BY <1>1, Invariance, PTL

(* However many resets lie between, a source that stays stuck is given up as
   soon as the permanent cutoff minus the intermittent one has passed. *)
THEOREM StuckRunsSurvive == Spec => []ResetKeepsStuckRun
<1>1. Inv => ResetKeepsStuckRun
  BY DEF Inv
<1>2. QED
  BY <1>1, Invariance, PTL

(* The window a reset falls into is finished by the new collector from the
   intermittent cutoff on. *)
THEOREM ProportionSurvives == Spec => []ResetKeepsProportion
<1>1. Inv => ResetKeepsProportion
  BY DEF Inv
<1>2. QED
  BY <1>1, Invariance, PTL

-----------------------------------------------------------------------------
(* The analysis of jitterentropy-gcd.c.  Its folds take the largest place of a
   set last. *)
LEMMA MaxIs ==
  ASSUME NEW S \in SUBSET Nat, NEW m \in S, \A y \in S : m >= y
  PROVE  Max(S) = m
<1>1. Max(S) \in S /\ \A y \in S : Max(S) >= y
  BY Zenon DEF Max
<1>2. PICK x : x = Max(S)
  OBVIOUS
<1>3. x \in S /\ \A y \in S : x >= y
  BY <1>1, <1>2, Zenon
<1>4. x = m
  BY <1>3
<1>5. QED
  BY <1>2, <1>4, Zenon

(* d divides n. *)
Div(d, n) == \E q \in Nat : n = d * q

LEMMA QuotientIs ==
  ASSUME NEW a \in Nat, NEW b \in Nat \ {0}
  PROVE  /\ a \div b \in Nat /\ a % b \in Nat /\ a % b < b
         /\ a = b * (a \div b) + (a % b)
BY Z3

LEMMA DivIsMod ==
  ASSUME NEW a \in Nat, NEW b \in Nat \ {0}
  PROVE  Div(b, a) <=> a % b = 0
<1>1. PICK k \in Nat, r \in Nat : k = a \div b /\ r = a % b /\ r < b /\ a = b * k + r
  BY QuotientIs
<1>2. CASE r = 0
  BY <1>1, <1>2 DEF Div
<1>3. ASSUME NEW q \in Nat, a = b * q PROVE r = 0
  <2>1. r = b * (q - k)
    BY <1>1, <1>3
  <2>2. CASE q - k <= 0
    BY <1>1, <2>1, <2>2
  <2>3. CASE q - k >= 1
    <3>1. b * (q - k) >= b
      BY <2>3
    <3>2. QED
      BY <1>1, <2>1, <3>1
  <2>4. QED
    BY <2>2, <2>3
<1>4. QED
  BY <1>1, <1>2, <1>3 DEF Div

LEMMA DivOfSum ==
  ASSUME NEW d \in Nat, NEW a \in Nat, NEW b \in Nat, Div(d, a), Div(d, b)
  PROVE  Div(d, a + b)
<1>1. PICK p \in Nat, q \in Nat : a = d * p /\ b = d * q
  BY Zenon DEF Div
<1>2. a + b = d * (p + q) /\ p + q \in Nat
  BY <1>1
<1>3. QED
  BY <1>2, Zenon DEF Div

LEMMA DivOfProduct ==
  ASSUME NEW d \in Nat, NEW a \in Nat, NEW k \in Nat, Div(d, a)
  PROVE  Div(d, a * k)
<1>1. PICK p \in Nat : a = d * p
  BY Zenon DEF Div
<1>2. a * k = d * (p * k) /\ p * k \in Nat
  BY <1>1
<1>3. QED
  BY <1>2, Zenon DEF Div

LEMMA DivOfRest ==
  ASSUME NEW d \in Nat, NEW a \in Nat, NEW r \in Nat, Div(d, a), Div(d, a + r)
  PROVE  Div(d, r)
<1>1. PICK p \in Nat, q \in Nat : a = d * p /\ a + r = d * q
  BY Zenon DEF Div
<1>2. r = d * (q - p)
  <2>1. d * (q - p) = d * q - d * p
    BY Z3
  <2>2. r = d * q - d * p
    BY <1>1
  <2>3. QED
    BY <2>1, <2>2, Zenon
<1>3. CASE q - p >= 0
  <2>1. PICK k \in Nat : k = q - p
    BY <1>3
  <2>2. r = d * k
    BY <1>2, <2>1
  <2>3. QED
    BY <2>2, Zenon DEF Div
<1>4. CASE q - p < 0
  <2>1. d * (q - p) <= 0
    BY <1>4
  <2>2. r = 0 /\ r = d * 0
    BY <1>2, <2>1
  <2>3. QED
    BY <2>2, Zenon DEF Div
<1>5. QED
  BY <1>1, <1>3, <1>4

LEMMA DivIsSmaller ==
  ASSUME NEW d \in Nat, NEW n \in Nat \ {0}, Div(d, n)
  PROVE  d <= n /\ d # 0
<1>1. PICK q \in Nat : n = d * q
  BY Zenon DEF Div
<1>2. q # 0 /\ d # 0
  BY <1>1
<1>3. d * q >= d
  BY <1>2
<1>4. QED
  BY <1>1, <1>2, <1>3

LEMMA DivOfMultiple ==
  ASSUME NEW d \in Nat, NEW a \in Nat, NEW b \in Nat, Div(d, a), Div(a, b)
  PROVE  Div(d, b)
<1>1. PICK p \in Nat, q \in Nat : a = d * p /\ b = a * q
  BY Zenon DEF Div
<1>2. b = d * (p * q) /\ p * q \in Nat
  BY <1>1
<1>3. QED
  BY <1>2, Zenon DEF Div

LEMMA DivByEachOther ==
  ASSUME NEW a \in Nat, NEW b \in Nat, Div(a, b), Div(b, a)
  PROVE  a = b
<1>1. CASE a = 0 \/ b = 0
  BY <1>1 DEF Div
<1>2. CASE a # 0 /\ b # 0
  <2>1. a <= b /\ b <= a
    BY <1>2, DivIsSmaller
  <2>2. QED
    BY <2>1
<1>3. QED
  BY <1>1, <1>2

(* g is the greatest common divisor of a and b, 0 where both are 0. *)
IsGcd(g, a, b) ==
  /\ g \in Nat /\ Div(g, a) /\ Div(g, b)
  /\ \A d \in Nat : Div(d, a) /\ Div(d, b) => Div(d, g)

LEMMA GcdIsUnique ==
  ASSUME NEW a, NEW b, NEW g, NEW k, IsGcd(g, a, b), IsGcd(k, a, b)
  PROVE  g = k
BY DivByEachOther, Zenon DEF IsGcd

LEMMA GcdOfZero ==
  ASSUME NEW a \in Nat
  PROVE  IsGcd(a, a, 0)
<1>1. a = a * 1 /\ 0 = a * 0
  OBVIOUS
<1>2. Div(a, a) /\ Div(a, 0)
  BY <1>1 DEF Div
<1>3. QED
  BY <1>2, Zenon DEF IsGcd

LEMMA GcdCommutes ==
  ASSUME NEW a, NEW b, NEW g, IsGcd(g, a, b)
  PROVE  IsGcd(g, b, a)
BY Zenon DEF IsGcd

(* A round of Euclid's loop keeps the common divisors. *)
LEMMA GcdOfRest ==
  ASSUME NEW a \in Nat, NEW b \in Nat \ {0}, NEW g, IsGcd(g, b, a % b)
  PROVE  IsGcd(g, a, b)
<1>1. PICK k \in Nat, r \in Nat : r = a % b /\ a = b * k + r
  BY QuotientIs
<1>2. g \in Nat /\ Div(g, b) /\ Div(g, r)
  BY <1>1, Zenon DEF IsGcd
<1>3. Div(g, a)
  <2>1. b \in Nat /\ b * k \in Nat
    OBVIOUS
  <2>2. Div(g, b * k)
    BY <1>2, <2>1, DivOfProduct, Zenon
  <2>3. QED
    BY <1>1, <1>2, <2>1, <2>2, DivOfSum, Zenon
<1>4. ASSUME NEW d \in Nat, Div(d, a), Div(d, b) PROVE Div(d, g)
  <2>1. b \in Nat /\ b * k \in Nat
    OBVIOUS
  <2>2. Div(d, b * k)
    BY <1>4, <2>1, DivOfProduct, Zenon
  <2>3. Div(d, r)
    BY <1>1, <1>4, <2>1, <2>2, DivOfRest, Zenon
  <2>4. QED
    BY <1>1, <1>4, <2>3, Zenon DEF IsGcd
<1>5. QED
  BY <1>2, <1>3, <1>4, Zenon DEF IsGcd

LEMMA GcdExists ==
  ASSUME NEW b \in Nat
  PROVE  \A a \in Nat : \E g : IsGcd(g, a, b)
<1> DEFINE T == { n \in Nat : \E a \in Nat : ~\E g : IsGcd(g, a, n) }
<1>1. SUFFICES ASSUME T # {} PROVE FALSE
  BY Zenon
<1>2. PICK m \in T : \A n \in T : m <= n
  BY <1>1, LeastOf, Zenon
<1>3. PICK a \in Nat : ~\E g : IsGcd(g, a, m)
  BY <1>2, Zenon
<1>4. m \in Nat \ {0}
  BY <1>2, <1>3, GcdOfZero
<1>5. a % m \in Nat /\ a % m < m
  BY <1>4, QuotientIs
<1>6. a % m \notin T
  BY <1>2, <1>4, <1>5
<1>7. PICK g : IsGcd(g, m, a % m)
  BY <1>4, <1>5, <1>6, Zenon
<1>8. IsGcd(g, a, m)
  BY <1>4, <1>7, GcdOfRest, Zenon
<1>9. QED
  BY <1>3, <1>8, Zenon

(* Euclid's loop as a function of the two numbers. *)
IsLoop(f) ==
  f = [p \in Nat \X Nat |-> IF p[2] = 0 THEN p[1] ELSE f[<< p[2], p[1] % p[2] >>]]

LEMMA LoopExists == \E f : IsLoop(f)
<1> DEFINE f == [p \in Nat \X Nat |-> CHOOSE g : IsGcd(g, p[1], p[2])]
<1>1. ASSUME NEW p \in Nat \X Nat PROVE IsGcd(f[p], p[1], p[2])
  <2>1. p[1] \in Nat /\ p[2] \in Nat
    OBVIOUS
  <2>2. QED
    BY <2>1, GcdExists, Zenon
<1>2. ASSUME NEW p \in Nat \X Nat
      PROVE  f[p] = IF p[2] = 0 THEN p[1] ELSE f[<< p[2], p[1] % p[2] >>]
  <2>1. p[1] \in Nat /\ p[2] \in Nat
    OBVIOUS
  <2>2. IsGcd(f[p], p[1], p[2])
    BY <1>1
  <2> HIDE DEF f
  <2>3. CASE p[2] = 0
    <3>1. IsGcd(p[1], p[1], p[2])
      BY <2>1, <2>3, GcdOfZero, Zenon
    <3>2. QED
      BY <2>2, <2>3, <3>1, GcdIsUnique, Zenon
  <2>4. CASE p[2] # 0
    <3>1. PICK a \in Nat, b \in Nat \ {0}, r \in Nat :
            a = p[1] /\ b = p[2] /\ r = p[1] % p[2]
      BY <2>1, <2>4, QuotientIs
    <3>2. << b, r >> \in Nat \X Nat /\ << b, r >>[1] = b /\ << b, r >>[2] = r
      OBVIOUS
    <3>3. IsGcd(f[<< b, r >>], b, r)
      BY <1>1, <3>2, Zenon
    <3>4. IsGcd(f[<< b, r >>], a, b)
      BY <3>1, <3>3, GcdOfRest, Zenon
    <3>5. QED
      BY <2>2, <2>4, <3>1, <3>4, GcdIsUnique, Zenon
  <2>5. QED
    BY <2>3, <2>4, Zenon
<1>3. IsLoop(f)
  BY <1>2, Zenon DEF IsLoop
<1>4. QED
  BY <1>3, Zenon

LEMMA LoopIsGcd ==
  ASSUME NEW f, IsLoop(f), NEW b \in Nat
  PROVE  \A a \in Nat : IsGcd(f[<< a, b >>], a, b)
<1> DEFINE T == { n \in Nat : \E a \in Nat : ~IsGcd(f[<< a, n >>], a, n) }
<1>1. SUFFICES ASSUME T # {} PROVE FALSE
  BY Zenon
<1>2. PICK m \in T : \A n \in T : m <= n
  BY <1>1, LeastOf, Zenon
<1>3. PICK a \in Nat : ~IsGcd(f[<< a, m >>], a, m)
  BY <1>2, Zenon
<1>4. /\ << a, m >> \in Nat \X Nat
      /\ << a, m >>[1] = a /\ << a, m >>[2] = m
  BY <1>2
<1>5. f[<< a, m >>] = IF m = 0 THEN a ELSE f[<< m, a % m >>]
  BY <1>4, Zenon DEF IsLoop
<1>6. m # 0
  BY <1>3, <1>5, GcdOfZero
<1>7. m \in Nat \ {0} /\ m \in Nat
  BY <1>2, <1>6
<1>8. a % m \in Nat /\ a % m < m
  BY <1>7, QuotientIs
<1>9. a % m \notin T
  BY <1>2, <1>7, <1>8
<1>10. IsGcd(f[<< m, a % m >>], m, a % m)
  BY <1>7, <1>8, <1>9, Zenon
<1>11. IsGcd(f[<< a, m >>], a, m)
  BY <1>5, <1>6, <1>7, <1>10, GcdOfRest, Zenon
<1>12. QED
  BY <1>3, <1>11, Zenon

(* jent_gcd64 computes the greatest common divisor. *)
LEMMA Gcd64IsGcd ==
  ASSUME NEW a \in Nat, NEW b \in Nat
  PROVE  IsGcd(Gcd64(a, b), a, b)
<1> DEFINE f == CHOOSE f : IsLoop(f)
<1>1. IsLoop(f)
  BY LoopExists, Zenon
<1>2. Gcd64(a, b) = IF a < b THEN f[<< b, a >>] ELSE f[<< a, b >>]
  BY Zenon DEF Gcd64, IsLoop
<1> HIDE DEF f
<1>3. IsGcd(f[<< b, a >>], b, a) /\ IsGcd(f[<< a, b >>], a, b)
  BY <1>1, LoopIsGcd, Zenon
<1>4. IsGcd(f[<< b, a >>], a, b)
  BY <1>3, GcdCommutes, Zenon
<1>5. QED
  BY <1>2, <1>3, <1>4, Zenon

-----------------------------------------------------------------------------
(* The fold of RunningGcd as a function of the places it has folded. *)
IsGcdFold(it, h, N) ==
  it = [s \in SUBSET N |-> IF s = {} THEN h[1]
                           ELSE Gcd64(h[Max(s)], it[s \ {Max(s)}])]

LEMMA GcdFoldExists ==
  ASSUME NEW h, NEW n \in Nat
  PROVE  \E it : IsGcdFold(it, h, 1 .. n)
<1> DEFINE T == { k \in Nat : ~\E it : IsGcdFold(it, h, 1 .. k) }
<1>1. SUFFICES ASSUME T # {} PROVE FALSE
  BY Zenon
<1>2. PICK m \in T : \A k \in T : m <= k
  BY <1>1, LeastOf, Zenon
<1>3. CASE m = 0
  <2> DEFINE it == [s \in SUBSET {} |-> h[1]]
  <2>1. 1 .. 0 = {}
    OBVIOUS
  <2>2. \A s \in SUBSET {} : s = {}
    OBVIOUS
  <2>3. IsGcdFold(it, h, {})
    BY <2>2, Zenon DEF IsGcdFold
  <2>4. \E f : IsGcdFold(f, h, 1 .. m)
    BY <1>3, <2>1, <2>3, Zenon
  <2>5. QED
    BY <2>4, Zenon
<1>4. CASE m # 0
  <2>1. m - 1 \in Nat /\ m - 1 < m /\ m \in Nat
    BY <1>4
  <2>2. m - 1 \notin T
    BY <1>2, <2>1
  <2>3. PICK it : IsGcdFold(it, h, 1 .. m - 1)
    BY <2>1, <2>2, Zenon
  <2> DEFINE f == [s \in SUBSET (1 .. m) |->
                     IF m \in s THEN Gcd64(h[m], it[s \ {m}]) ELSE it[s]]
  <2>4. ASSUME NEW s \in SUBSET (1 .. m)
        PROVE  f[s] = IF s = {} THEN h[1] ELSE Gcd64(h[Max(s)], f[s \ {Max(s)}])
    <3>1. s \ {Max(s)} \in SUBSET (1 .. m)
      OBVIOUS
    <3>2. CASE m \in s
      <4>1. Max(s) = m
        BY <2>1, <3>2, MaxIs
      <4>2. f[s] = Gcd64(h[m], it[s \ {m}]) /\ f[s \ {m}] = it[s \ {m}]
        BY <3>1, <3>2, <4>1, Zenon
      <4>3. QED
        BY <3>2, <4>1, <4>2, Zenon
    <3>3. CASE m \notin s
      <4>1. s \in SUBSET (1 .. m - 1)
        BY <2>1, <3>3
      <4>2. it[s] = IF s = {} THEN h[1] ELSE Gcd64(h[Max(s)], it[s \ {Max(s)}])
        BY <2>3, <4>1, Zenon DEF IsGcdFold
      <4>3. f[s] = it[s] /\ f[s \ {Max(s)}] = it[s \ {Max(s)}]
        BY <3>1, <3>3, Zenon
      <4>4. QED
        BY <4>2, <4>3, Zenon
    <3>4. QED
      BY <3>2, <3>3, Zenon
  <2>5. IsGcdFold(f, h, 1 .. m)
    BY <2>4, Zenon DEF IsGcdFold
  <2>6. QED
    BY <2>5, Zenon
<1>5. QED
  BY <1>3, <1>4, Zenon

(* g is the greatest common divisor of the first k values of h, where the
   first one counts in any case. *)
Common(d, h, k) == Div(d, h[1]) /\ \A i \in 1 .. k : Div(d, h[i])

GcdOfFirst(g, h, k) ==
  /\ g \in Nat /\ Common(g, h, k)
  /\ \A d \in Nat : Common(d, h, k) => Div(d, g)

LEMMA GcdGrows ==
  ASSUME NEW h \in Seq(Nat), NEW k \in 1 .. Len(h), NEW g,
         GcdOfFirst(g, h, k - 1)
  PROVE  GcdOfFirst(Gcd64(h[k], g), h, k)
<1>1. k \in Nat /\ h[k] \in Nat /\ g \in Nat /\ h[1] \in Nat
  BY DEF GcdOfFirst
<1>2. /\ \A i \in 1 .. k : i \in 1 .. k - 1 \/ i = k
      /\ \A i \in 1 .. k - 1 : i \in 1 .. k /\ h[i] \in Nat
      /\ k \in 1 .. k
  BY DEF GcdOfFirst
<1>3. PICK c : c = Gcd64(h[k], g)
  BY Zenon
<1>4. IsGcd(c, h[k], g)
  BY <1>1, <1>3, Gcd64IsGcd, Zenon
<1>5. c \in Nat /\ Div(c, h[k]) /\ Div(c, g)
  BY <1>4, Zenon DEF IsGcd
<1>6. Common(c, h, k)
  <2>1. Common(g, h, k - 1)
    BY Zenon DEF GcdOfFirst
  <2>2. Div(c, h[1])
    <3>1. Div(g, h[1])
      BY <2>1, Zenon DEF Common
    <3>2. QED
      BY <1>1, <1>5, <3>1, DivOfMultiple, Zenon
  <2>3. ASSUME NEW i \in 1 .. k - 1 PROVE Div(c, h[i])
    <3>1. Div(g, h[i]) /\ h[i] \in Nat
      BY <1>2, <2>1, Zenon DEF Common
    <3>2. QED
      BY <1>1, <1>5, <3>1, DivOfMultiple, Zenon
  <2>4. \A i \in 1 .. k : Div(c, h[i])
    BY <1>2, <1>5, <2>3, Zenon
  <2>5. QED
    BY <2>2, <2>4, Zenon DEF Common
<1>7. ASSUME NEW d \in Nat, Common(d, h, k) PROVE Div(d, c)
  <2>1. Common(d, h, k - 1) /\ Div(d, h[k])
    BY <1>2, <1>7, Zenon DEF Common
  <2>2. Div(d, g)
    BY <2>1, Zenon DEF GcdOfFirst
  <2>3. QED
    BY <1>4, <2>1, <2>2, Zenon DEF IsGcd
<1>8. QED
  BY <1>3, <1>5, <1>6, <1>7, Zenon DEF GcdOfFirst

(* What the analysis establishes is the greatest common divisor of all deltas. *)
LEMMA RunningGcdIs ==
  ASSUME NEW h \in Seq(Nat), Len(h) # 0
  PROVE  GcdOfFirst(RunningGcd(h), h, Len(h))
<1>1. /\ Len(h) \in Nat /\ DOMAIN h = 1 .. Len(h) /\ h[1] \in Nat
  OBVIOUS
<1> DEFINE it == CHOOSE it : IsGcdFold(it, h, DOMAIN h)
<1>2. RunningGcd(h) = it[DOMAIN h]
  BY Zenon DEF RunningGcd, FoldLeft, MapThenFoldSet, IsGcdFold
<1>3. IsGcdFold(it, h, 1 .. Len(h))
  BY <1>1, GcdFoldExists, Zenon
<1> HIDE DEF it
<1> DEFINE T == { k \in Nat : k <= Len(h) /\ ~GcdOfFirst(it[1 .. k], h, k) }
<1>4. SUFFICES ASSUME T # {} PROVE FALSE
  <2>1. Len(h) \notin T
    BY <1>4, Zenon
  <2>2. Len(h) <= Len(h)
    BY <1>1
  <2>3. QED
    BY <1>1, <1>2, <2>1, <2>2, Zenon
<1>5. PICK m \in T : \A k \in T : m <= k
  BY <1>4, LeastOf, Zenon
<1>6. CASE m = 0
  <2>1. 1 .. 0 = {}
    OBVIOUS
  <2>2. it[1 .. 0] = h[1]
    BY <1>3, <2>1, Zenon DEF IsGcdFold
  <2>3. h[1] = h[1] * 1
    BY <1>1
  <2>4. Div(h[1], h[1])
    BY <2>3, <1>1 DEF Div
  <2>5. GcdOfFirst(h[1], h, 0)
    BY <1>1, <2>1, <2>4, Zenon DEF GcdOfFirst, Common
  <2>6. QED
    BY <1>5, <1>6, <2>2, <2>5, Zenon
<1>7. CASE m # 0
  <2>1. /\ m \in 1 .. Len(h) /\ m - 1 \in Nat /\ m - 1 <= Len(h) /\ m - 1 < m
        /\ m \in 1 .. m /\ 1 .. m \in SUBSET (1 .. Len(h))
        /\ 1 .. m \in SUBSET Nat /\ \A y \in 1 .. m : m >= y
    BY <1>1, <1>5, <1>7
  <2>2. (1 .. m) \ {m} = 1 .. m - 1
    <3>1. m \in Nat
      BY <1>5
    <3>2. QED
      BY <3>1
  <2>3. m - 1 \notin T
    BY <1>5, <2>1
  <2>4. GcdOfFirst(it[1 .. m - 1], h, m - 1)
    BY <2>1, <2>3, Zenon
  <2>5. Max(1 .. m) = m /\ 1 .. m # {}
    BY <2>1, MaxIs, Zenon
  <2>6. it[1 .. m] = Gcd64(h[m], it[1 .. m - 1])
    BY <1>3, <2>1, <2>2, <2>5, Zenon DEF IsGcdFold
  <2>7. GcdOfFirst(it[1 .. m], h, m)
    BY <2>1, <2>4, <2>6, GcdGrows, Zenon
  <2>8. QED
    BY <1>5, <2>7, Zenon
<1>8. QED
  BY <1>6, <1>7, Zenon

(* The sum of the changes between deltas that are all the same. *)
Change(h, i) == IF h[i] >= h[i - 1] THEN h[i] - h[i - 1] ELSE h[i - 1] - h[i]

IsChangeSum(it, h) ==
  it = [s \in SUBSET (2 .. Len(h)) |->
          IF s = {} THEN 0
          ELSE Change(h, CHOOSE x \in s : TRUE) + it[s \ {CHOOSE x \in s : TRUE}]]

LEMMA NoChangeNoSum ==
  ASSUME NEW h \in Seq(Nat), \A i \in 2 .. Len(h) : h[i] = h[i - 1]
  PROVE  DeltaSum(h) = 0
<1> DEFINE it == CHOOSE it : IsChangeSum(it, h)
           N == 2 .. Len(h)
<1>1. DeltaSum(h) = it[2 .. Len(h)]
  BY Zenon DEF DeltaSum, MapThenSumSet, MapThenFoldSet, IsChangeSum, Change
<1>2. \A i \in N : Change(h, i) = 0
  BY DEF Change
<1>3. \A s \in SUBSET N : s # {} => Change(h, CHOOSE x \in s : TRUE) = 0
  BY <1>2, Zenon
<1>4. \E f : IsChangeSum(f, h)
  <2> DEFINE f == [s \in SUBSET N |-> 0]
  <2>1. ASSUME NEW s \in SUBSET N
        PROVE  f[s] = IF s = {} THEN 0
                      ELSE Change(h, CHOOSE x \in s : TRUE)
                             + f[s \ {CHOOSE x \in s : TRUE}]
    <3>1. CASE s = {}
      BY <3>1, Zenon
    <3>2. CASE s # {}
      <4>1. s \ {CHOOSE x \in s : TRUE} \in SUBSET N
        BY Zenon
      <4>2. /\ f[s \ {CHOOSE x \in s : TRUE}] = 0 /\ f[s] = 0
            /\ Change(h, CHOOSE x \in s : TRUE) = 0
        BY <1>3, <3>2, <4>1, Zenon
      <4>3. 0 = 0 + 0
        OBVIOUS
      <4>4. QED
        BY <3>2, <4>2, <4>3, Zenon
    <3>3. QED
      BY <3>1, <3>2, Zenon
  <2>2. IsChangeSum(f, h)
    BY <2>1, Zenon DEF IsChangeSum
  <2>3. QED
    BY <2>2, Zenon
<1>5. IsChangeSum(it, h)
  BY <1>4, Zenon
<1> HIDE DEF it
<1> DEFINE T == { Cardinality(s) : s \in { s \in SUBSET N : it[s] # 0 } }
<1>6. \A s \in SUBSET N : IsFiniteSet(s)
  <2>1. IsFiniteSet(N)
    BY FS_Interval
  <2>2. QED
    BY <2>1, FS_Subset, Zenon
<1>7. SUFFICES ASSUME T # {} PROVE FALSE
  BY <1>1, <1>7, Zenon
<1>8. T \in SUBSET Nat
  BY <1>6, FS_CardinalityType, Zenon
<1>9. PICK m \in T : \A k \in T : m <= k
  BY <1>7, <1>8, LeastOf, Zenon
<1>10. PICK s \in SUBSET N : it[s] # 0 /\ m = Cardinality(s)
  BY <1>9, Zenon
<1>11. s # {}
  BY <1>5, <1>10, Zenon DEF IsChangeSum
<1>12. PICK x \in s : x = CHOOSE y \in s : TRUE
  BY <1>11, Zenon
<1>13. it[s] = Change(h, x) + it[s \ {x}]
  BY <1>5, <1>11, <1>12, Zenon DEF IsChangeSum
<1>14. s \ {x} \in SUBSET N /\ Change(h, x) = 0
  BY <1>2, <1>12, Zenon
<1>15. Cardinality(s \ {x}) = m - 1 /\ m \in Nat
  BY <1>6, <1>8, <1>10, <1>12, FS_RemoveElement, Zenon
<1>16. Cardinality(s \ {x}) \notin T
  BY <1>9, <1>15
<1>17. it[s \ {x}] = 0
  BY <1>14, <1>16, Zenon
<1>18. QED
  BY <1>10, <1>13, <1>14, <1>17

(* What the power-up test accepts, of any history of deltas. *)
LEMMA AcceptedVary ==
  ASSUME NEW h \in Seq(Nat), Len(h) # 0, NEW osr \in Nat, GcdAnalyze(h, osr) = "ok"
  PROVE  \E i, j \in 1 .. Len(h) : h[i] # h[j]
<1>1. Len(h) \in Nat
  OBVIOUS
<1>2. SUFFICES ASSUME \A i, j \in 1 .. Len(h) : h[i] = h[j] PROVE FALSE
  BY Zenon
<1>3. \A i \in 2 .. Len(h) : h[i] = h[i - 1]
  <2>1. \A i \in 2 .. Len(h) : i \in 1 .. Len(h) /\ i - 1 \in 1 .. Len(h)
    BY <1>1
  <2>2. QED
    BY <1>2, <2>1, Zenon
<1>4. DeltaSum(h) = 0
  BY <1>3, NoChangeNoSum, Zenon
<1>5. 0 * osr < Len(h)
  BY <1>1
<1>6. GcdAnalyze(h, osr) = "EMINVARVAR"
  BY <1>4, <1>5, Zenon DEF GcdAnalyze
<1>7. QED
  BY <1>6

LEMMA DividedIsCoprime ==
  ASSUME NEW h \in Seq(Nat \ {0}), Len(h) # 0
  PROVE  LET g == RunningGcd(h)
         IN  /\ g \in Nat \ {0} /\ \A i \in 1 .. Len(h) : h[i] % g = 0
             /\ \A d \in Nat : d > g => ~\A i \in 1 .. Len(h) : h[i] % d = 0
             /\ RunningGcd([i \in 1 .. Len(h) |-> h[i] \div g]) = 1
<1>1. /\ Len(h) \in Nat /\ 1 \in 1 .. Len(h) /\ h \in Seq(Nat)
      /\ \A i \in 1 .. Len(h) : h[i] \in Nat \ {0}
  OBVIOUS
<1>2. PICK g : g = RunningGcd(h)
  BY Zenon
<1>3. GcdOfFirst(g, h, Len(h))
  BY <1>1, <1>2, RunningGcdIs
<1>4. g \in Nat \ {0}
  BY <1>1, <1>3, DivIsSmaller DEF GcdOfFirst, Common
<1>5. \A i \in 1 .. Len(h) : Div(g, h[i])
  BY <1>3, Zenon DEF GcdOfFirst, Common
<1>6. ASSUME NEW d \in Nat, d > g, \A i \in 1 .. Len(h) : h[i] % d = 0
      PROVE  FALSE
  <2>1. d \in Nat \ {0}
    BY <1>4, <1>6
  <2>2. \A i \in 1 .. Len(h) : Div(d, h[i])
    BY <1>1, <1>6, <2>1, DivIsMod
  <2>3. Common(d, h, Len(h))
    BY <1>1, <2>2, Zenon DEF Common
  <2>4. Div(d, g)
    BY <1>3, <2>3, Zenon DEF GcdOfFirst
  <2>5. d <= g
    BY <1>4, <2>1, <2>4, DivIsSmaller
  <2>6. QED
    BY <1>4, <1>6, <2>5
<1>7. PICK q : q = [i \in 1 .. Len(h) |-> h[i] \div g]
  BY Zenon
<1>8. ASSUME NEW i \in 1 .. Len(h)
      PROVE  q[i] \in Nat /\ h[i] = g * q[i]
  <2>1. q[i] = h[i] \div g /\ h[i] \in Nat /\ h[i] % g = 0
    BY <1>1, <1>4, <1>5, <1>7, DivIsMod
  <2>2. PICK a \in Nat, b \in Nat \ {0} : a = h[i] /\ b = g
    BY <1>4, <2>1, Zenon
  <2>3. a % b = 0 /\ q[i] = a \div b
    BY <2>1, <2>2, Zenon
  <2>4. a \div b \in Nat /\ a = b * (a \div b) + (a % b)
    BY QuotientIs
  <2>5. PICK k \in Nat : k = a \div b
    BY <2>4, Zenon
  <2>6. a = b * k + 0
    BY <2>3, <2>4, <2>5, Zenon
  <2>7. a = b * k
    BY <2>6
  <2>8. QED
    BY <2>2, <2>3, <2>5, <2>7, Zenon
<1>9. q \in Seq(Nat) /\ Len(q) = Len(h)
  <2>1. PICK n \in Nat : n = Len(h)
    BY <1>1
  <2>2. q \in [1 .. n -> Nat]
    BY <1>7, <1>8, <2>1
  <2>3. q \in Seq(Nat) /\ Len(q) = n
    BY <2>2
  <2>4. QED
    BY <2>1, <2>3, Zenon
<1>10. PICK e : e = RunningGcd(q)
  BY Zenon
<1>11. GcdOfFirst(e, q, Len(h))
  BY <1>1, <1>9, <1>10, RunningGcdIs
<1>12. e \in Nat
  BY <1>11, Zenon DEF GcdOfFirst
<1>13. ASSUME NEW i \in 1 .. Len(h) PROVE Div(g * e, h[i])
  <2>1. Div(e, q[i])
    BY <1>11, <1>13, Zenon DEF GcdOfFirst, Common
  <2>2. PICK k \in Nat : q[i] = e * k
    BY <2>1, Zenon DEF Div
  <2>3. h[i] = g * (e * k)
    BY <1>8, <2>2, Zenon
  <2>4. g * (e * k) = (g * e) * k
    BY <1>4, <1>12
  <2>5. QED
    BY <2>3, <2>4, Zenon DEF Div
<1>14. g * e \in Nat
  BY <1>4, <1>12
<1>15. Div(g * e, g)
  BY <1>1, <1>3, <1>13, <1>14, Zenon DEF GcdOfFirst, Common
<1>16. g * e <= g /\ g * e # 0
  BY <1>4, <1>14, <1>15, DivIsSmaller
<1>17. e = 1
  <2>1. e # 0
    BY <1>4, <1>16
  <2>2. e <= 1
    <3>1. SUFFICES ASSUME e >= 2 PROVE FALSE
      BY <1>12
    <3>2. g * e >= g * 2
      BY <1>4, <1>12, <3>1
    <3>3. PICK k \in Nat : k = g * e
      BY <1>14, Zenon
    <3>4. k >= g * 2 /\ k <= g
      BY <1>16, <3>2, <3>3, Zenon
    <3>5. QED
      BY <1>4, <3>4
  <2>3. QED
    BY <1>12, <2>1, <2>2
<1>18. \A i \in 1 .. Len(h) : h[i] % g = 0
  BY <1>1, <1>4, <1>5, DivIsMod
<1>19. QED
  BY <1>2, <1>4, <1>6, <1>7, <1>10, <1>17, <1>18, Zenon

(* The deltas that the analysis gets: none is zero, or the test had failed. *)
LEMMA AcceptedDeltas ==
  ASSUME TypeOK, Len(seen) >= CLEARCACHE + 2, PowerUp = "ok"
  PROVE  /\ DeltaHistory \in Seq(Nat \ {0}) /\ Len(DeltaHistory) # 0
         /\ GcdAnalyze(DeltaHistory, ec.osr) = "ok"
<1>1. \A i \in 2 .. Len(seen) : seen[i] # 0
  BY Zenon DEF PowerUp
<1>2. GcdAnalyze(DeltaHistory, ec.osr) = "ok"
  BY Zenon DEF PowerUp
<1>3. /\ seen \in Seq(Nat) /\ Len(seen) \in Nat /\ CLEARCACHE \in Nat
      /\ \A i \in 1 .. Len(seen) : seen[i] \in Nat
  BY CacheAssumption, DeltaAssumption DEF TypeOK, Value
<1>4. PICK h : h = DeltaHistory
  BY Zenon
<1>5. PICK l \in Nat, c \in Nat : l = Len(seen) /\ c = CLEARCACHE /\ l >= c + 2
  BY <1>3, Zenon
<1>6. PICK n \in Nat \ {0} : n = (l - (c + 2)) + 1
  <2>1. (l - (c + 2)) + 1 \in Nat \ {0}
    BY <1>5
  <2>2. QED
    BY <2>1, Zenon
<1>7. /\ h \in Seq(Nat) /\ Len(h) = n
      /\ \A i \in 1 .. n : h[i] = seen[((c + 2) + i) - 1]
  <2>1. h = SubSeq(seen, c + 2, l)
    BY <1>4, <1>5, Zenon DEF DeltaHistory
  <2>2. c + 2 \in Int /\ l \in Int /\ \A i \in c + 2 .. l : seen[i] \in Nat
    BY <1>3, <1>5
  <2>3. /\ SubSeq(seen, c + 2, l) \in Seq(Nat)
        /\ Len(SubSeq(seen, c + 2, l)) = IF c + 2 <= l THEN (l - (c + 2)) + 1 ELSE 0
        /\ \A i \in 1 .. (l - (c + 2)) + 1 :
             SubSeq(seen, c + 2, l)[i] = seen[((c + 2) + i) - 1]
    BY <2>2, SubSeqProperties, SMT
  <2>4. c + 2 <= l
    BY <1>6
  <2>5. QED
    BY <1>6, <2>1, <2>3, <2>4, Zenon
<1>8. \A i \in 1 .. n : h[i] \in Nat \ {0}
  <2>1. \A i \in 1 .. n : /\ ((c + 2) + i) - 1 \in 2 .. l
                           /\ ((c + 2) + i) - 1 \in 1 .. l
    BY <1>6
  <2>2. \A i \in 1 .. n : h[i] \in Nat /\ h[i] # 0
    BY <1>1, <1>3, <1>5, <1>7, <2>1, Zenon
  <2>3. QED
    BY <2>2
<1>9. h \in Seq(Nat \ {0}) /\ Len(h) # 0
  BY <1>7, <1>8
<1>10. QED
  BY <1>2, <1>4, <1>9, Zenon

(* A timer that the power-up test accepts can be measured with, for every
   length of the test and every size: its deltas vary, the divisor found is the
   greatest one they have in common and never zero, and a second analysis of
   the divided deltas would find none (jitterentropy-gcd.c:34-55, 57-131,
   jitterentropy-base.c:822-960). *)
THEOREM AcceptedTimers == Spec => []AcceptedTimerIsUsable
<1>1. TypeOK => AcceptedTimerIsUsable
  <2> SUFFICES ASSUME TypeOK, Len(seen) >= CLEARCACHE + 2, PowerUp = "ok"
               PROVE  LET h == DeltaHistory
                          g == RunningGcd(h)
                          Divides(d) == \A i \in 1 .. Len(h) : h[i] % d = 0
                      IN  /\ g > 0 /\ Divides(g)
                          /\ \A d \in g + 1 .. Modulus : ~Divides(d)
                          /\ \E i, j \in 1 .. Len(h) : h[i] # h[j]
                          /\ RunningGcd([i \in 1 .. Len(h) |-> h[i] \div g]) = 1
    BY Zenon DEF AcceptedTimerIsUsable
  <2>1. PICK h : h = DeltaHistory
    BY Zenon
  <2>2. h \in Seq(Nat \ {0}) /\ Len(h) # 0 /\ GcdAnalyze(h, ec.osr) = "ok"
    BY <2>1, AcceptedDeltas, Zenon
  <2>3. h \in Seq(Nat) /\ ec.osr \in Nat
    BY <2>2, SizeAssumption DEF TypeOK, Health
  <2>4. \E i, j \in 1 .. Len(h) : h[i] # h[j]
    BY <2>2, <2>3, AcceptedVary, Zenon
  <2>5. PICK g : g = RunningGcd(h)
    BY Zenon
  <2>6. /\ g \in Nat \ {0} /\ \A i \in 1 .. Len(h) : h[i] % g = 0
        /\ \A d \in Nat : d > g => ~\A i \in 1 .. Len(h) : h[i] % d = 0
        /\ RunningGcd([i \in 1 .. Len(h) |-> h[i] \div g]) = 1
    BY <2>2, <2>5, DividedIsCoprime, Zenon
  <2>7. g > 0 /\ \A d \in g + 1 .. Modulus : d \in Nat /\ d > g
    BY <2>6, DeltaAssumption
  <2>8. QED
    BY <2>1, <2>4, <2>5, <2>6, <2>7, Zenon
<1>2. QED
  BY <1>1, HealthTypes, PTL
=============================================================================
