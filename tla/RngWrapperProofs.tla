--------------------------- MODULE RngWrapperProofs ---------------------------
(***************************************************************************)
(* For every set of threads and of settings: the wrapper's types, its lock *)
(* discipline, and that a live collector is always one whose settings are  *)
(* in force and were self-tested.                                          *)
(***************************************************************************)
EXTENDS RngWrapper, TLAPS

(* A thread inside init_rng works on a copy of the settings in force, finds
   no collector, and once it allocates that copy has been tested. *)
InitInv ==
  \A t \in Thread :
    /\ call[t] \in {"self_test", "alloc"} =>
         rng_collector = NoSettings /\ flags[t] = current_settings
    /\ call[t] = "alloc" => tested = flags[t]

(* The self-test flag only stands for the settings in force. *)
TestInv == entropy_self_test_complete => tested = current_settings

(* All but the return codes, which a caller may set for itself. *)
RngCore ==
  /\ RngStateOK
  /\ CollectorExclusive
  /\ CollectorMatchesSettings
  /\ CollectorWasSelfTested
  /\ InitInv
  /\ TestInv

RngInv == RngCore /\ ret \in [Thread -> RngCodes]

USE SettingsAssumption, FreeAssumption

(* The startup state of the wrapper satisfies the invariant. *)
LEMMA InitEstablishesRngInv == RngInit => RngInv
BY DEF RngInit, RngInv, RngCore, RngStateOK, CollectorExclusive,
       CollectorMatchesSettings, CollectorWasSelfTested, InitInv, TestInv,
       Calls, LockedCalls, RngCodes

(* A step of one thread preserves it, whatever becomes of the return codes. *)
LEMMA StepPreservesRngCore ==
  ASSUME RngCore, [RngNext]_rngExceptRet
  PROVE  RngCore'
<1> USE DEF RngCore, RngStateOK, CollectorExclusive,
            CollectorMatchesSettings, CollectorWasSelfTested, InitInv, TestInv,
            Calls, LockedCalls
<1>1. CASE UNCHANGED rngExceptRet
  BY <1>1 DEF rngExceptRet
<1>2. ASSUME NEW t \in Thread, InitRng(t) PROVE RngCore'
  BY <1>2 DEF InitRng, CanEnter
<1>3. ASSUME NEW t \in Thread, EntropyInit(t) PROVE RngCore'
  <2>1. CASE SelfTestPasses(t)
    BY <2>1 DEF SelfTestPasses
  <2>2. CASE SelfTestFails(t)
    BY <2>2 DEF SelfTestFails, Leave
  <2>3. QED
    BY <1>3, <2>1, <2>2 DEF EntropyInit
<1>4. ASSUME NEW t \in Thread, CollectorAlloc(t) PROVE RngCore'
  BY <1>4 DEF CollectorAlloc, SetFipsFailureCallback, Leave
<1>5. ASSUME NEW t \in Thread, GetRandomBytes(t) PROVE RngCore'
  BY <1>5 DEF GetRandomBytes, CanEnter
<1>6. ASSUME NEW t \in Thread, ReadEntropySafe(t) PROVE RngCore'
  BY <1>6 DEF ReadEntropySafe, Leave
<1>7. ASSUME NEW t \in Thread, RecordAttempt(t) PROVE RngCore'
  BY <1>7 DEF RecordAttempt
<1>8. ASSUME NEW t \in Thread, ShutdownRng(t) PROVE RngCore'
  BY <1>8 DEF ShutdownRng, CanEnter
<1>9. ASSUME NEW t \in Thread, ClearInitialized(t) PROVE RngCore'
  BY <1>9 DEF ClearInitialized
<1>10. ASSUME NEW t \in Thread, NEW s \in Settings \cup {NoSettings},
              RngConfigure(t, s)
       PROVE  RngCore'
  BY <1>10 DEF RngConfigure, CanEnter
<1>11. ASSUME NEW t \in Thread, StatusBegin(t) PROVE RngCore'
  BY <1>11 DEF StatusBegin, CanEnter
<1>12. ASSUME NEW t \in Thread, StatusEnd(t) PROVE RngCore'
  BY <1>12 DEF StatusEnd, Leave
<1>13. QED
  BY <1>1, <1>2, <1>3, <1>4, <1>5, <1>6, <1>7, <1>8, <1>9, <1>10, <1>11, <1>12
     DEF RngNext, InCall

(* The wrapper's own steps return its own codes. *)
LEMMA StepReturnsRngCode ==
  ASSUME ret \in [Thread -> RngCodes], [RngNext]_rngVars
  PROVE  ret' \in [Thread -> RngCodes]
BY DEF rngVars, RngNext, InCall, InitRng, EntropyInit, SelfTestPasses,
       SelfTestFails, CollectorAlloc, GetRandomBytes, ReadEntropySafe,
       RecordAttempt, ShutdownRng, ClearInitialized, RngConfigure, StatusBegin,
       StatusEnd, Leave, CanEnter, RngCodes, InitErrors, ReadErrors

LEMMA RngInvariant == RngSpec => []RngInv
<1>1. RngInv /\ [RngNext]_rngVars => RngInv'
  BY StepPreservesRngCore, StepReturnsRngCode DEF RngInv, rngVars
<1>2. QED
  BY <1>1, InitEstablishesRngInv, PTL DEF RngSpec

(* Types of the wrapper's state (rng_wrapper.c:9-13). *)
THEOREM RngTypes == RngSpec => []RngTypeOK
<1>1. RngInv => RngTypeOK
  BY DEF RngInv, RngCore, RngTypeOK
<1>2. QED
  BY <1>1, RngInvariant, PTL

(* At most one thread uses the collector, and it owns rng_lock
   (rng_wrapper.c:15-27). *)
THEOREM CollectorHasOneUser == RngSpec => []CollectorExclusive
BY RngInvariant, PTL DEF RngInv, RngCore

(* A live collector was built from the settings in force
   (rng_wrapper.c:64-87, 125-168). *)
THEOREM SettingsAreInForce == RngSpec => []CollectorMatchesSettings
BY RngInvariant, PTL DEF RngInv, RngCore

(* A live collector's settings passed the startup self-test
   (rng_wrapper.c:76-82, 138-151). *)
THEOREM SettingsWereTested == RngSpec => []CollectorWasSelfTested
BY RngInvariant, PTL DEF RngInv, RngCore
=============================================================================
