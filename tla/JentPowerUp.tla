------------------------------ MODULE JentPowerUp ------------------------------
(***************************************************************************)
(* The verdict of the power-up test (jent_time_entropy_init) on the deltas *)
(* that the health tests have seen, with the analysis of                   *)
(* jitterentropy-gcd.c.  The first delta is thrown away, the next          *)
(* CLEARCACHE ones warm the caches up, the others are the delta history.   *)
(* The test for a clock that runs backwards is left out: the health model  *)
(* has deltas, not times.                                                  *)
(***************************************************************************)
EXTENDS JentHealth, SequencesExt, FiniteSetsExt

CONSTANTS
  CLEARCACHE,
  COARSE        \* UINT32_MAX / 2, the largest sensible common divisor

ASSUME CacheAssumption == CLEARCACHE \in Nat

DeltaHistory == SubSeq(seen, CLEARCACHE + 2, Len(seen))

(* jent_gcd64: exchange, then Euclid's loop. *)
Gcd64(a, b) ==
  LET loop[p \in Nat \X Nat] ==
        IF p[2] = 0 THEN p[1] ELSE loop[<< p[2], p[1] % p[2] >>]
  IN  IF a < b THEN loop[<< b, a >>] ELSE loop[<< a, b >>]

RunningGcd(h) == FoldLeft(LAMBDA g, d : Gcd64(d, g), h[1], h)

DeltaSum(h) ==
  MapThenSumSet(LAMBDA i : IF h[i] >= h[i - 1] THEN h[i] - h[i - 1]
                                               ELSE h[i - 1] - h[i],
                2 .. Len(h))

(* jent_gcd_analyze: its error, or the divisor it establishes. *)
GcdAnalyze(h, osr) ==
  IF DeltaSum(h) * osr < Len(h) THEN "EMINVARVAR"
  ELSE IF RunningGcd(h) >= COARSE THEN "ECOARSETIME"
  ELSE "ok"

(* JENT_STUCK_INIT_THRES *)
StuckThreshold(n) == (n * 9) \div 10

CountStuck ==
  Cardinality({ i \in CLEARCACHE + 2 .. Len(stucks) : stucks[i] })

(* Faulty variant: a history without variation is not refused. *)
PowerUpVariationUnchecked ==
  IF \E i \in 2 .. Len(seen) : seen[i] = 0 THEN "ECOARSETIME"
  ELSE IF "rct" \in ec.failure THEN "ERCT"
  ELSE IF ec.failure # {} THEN "EHEALTH"
  ELSE IF StuckThreshold(Len(DeltaHistory)) < CountStuck THEN "ESTUCK"
  ELSE "ok"

PowerUp ==
  IF \E i \in 2 .. Len(seen) : seen[i] = 0 THEN "ECOARSETIME"
  ELSE IF "rct" \in ec.failure THEN "ERCT"
  ELSE IF ec.failure # {} THEN "EHEALTH"
  ELSE IF GcdAnalyze(DeltaHistory, ec.osr) # "ok"
       THEN GcdAnalyze(DeltaHistory, ec.osr)
  ELSE IF StuckThreshold(Len(DeltaHistory)) < CountStuck THEN "ESTUCK"
  ELSE "ok"

-----------------------------------------------------------------------------
(* A timer the power-up test accepts can be measured with: its deltas vary,
   the common divisor divides every one of them and is the greatest to do so,
   no division is ever by zero, and the divided deltas have no divisor left
   that a second test could establish. *)
AcceptedTimerIsUsable ==
  LET h == DeltaHistory
      g == RunningGcd(h)
      Divides(d) == \A i \in 1 .. Len(h) : h[i] % d = 0
  IN  /\ reset = -1 /\ inits = 0 /\ Len(seen) >= CLEARCACHE + 2
      /\ PowerUp = "ok"
      => /\ g > 0 /\ Divides(g)
         /\ \A d \in g + 1 .. Modulus : ~Divides(d)
         /\ \E i, j \in 1 .. Len(h) : h[i] # h[j]
         /\ RunningGcd([i \in 1 .. Len(h) |-> h[i] \div g]) = 1
=============================================================================
