---------------------------- MODULE JentRandomData ----------------------------
(***************************************************************************)
(* jent_random_data (jitterentropy-noise.c): the loops that measure jitter *)
(* until a block has its entropy, the two startup stages, and the RCT with *)
(* memory (jitterentropy-health.c), which from inside a measurement calls  *)
(* jent_random_data again to recover from an alarm.  The calls in progress *)
(* are a stack of frames, innermost first; what they share is the          *)
(* collector rd.  The other health tests are an alarm any measurement may  *)
(* raise (JentHealth).  Oversampling rates stay below JENT_MAX_OSR, so     *)
(* that the loop count never wraps.                                        *)
(***************************************************************************)
EXTENDS Integers, Sequences, FiniteSets, SequencesExt

CONSTANTS
  DATA_SIZE_BITS, ENTROPY_SAFETY_FACTOR,  \* 256 and 65
  RecoveryLoops,                 \* JENT_RCT_MEM_RECOVERY_LOOP_CNT
  MemCutoffs,                    \* RCT with memory: cutoff tables, common
  MemCutoffsNtg1,                \*   and NTG.1: intermittent, permanent
  StartupWrap                    \* startup_state is unsigned, modulo this

ASSUME RandomDataAssumption ==
  /\ DATA_SIZE_BITS \in Nat \ {0} /\ ENTROPY_SAFETY_FACTOR \in Nat
  /\ \A table \in { MemCutoffs, MemCutoffsNtg1 } :
       /\ table \in Seq(Nat \X Nat) /\ Len(table) > 0
       /\ \A i \in 1 .. Len(table) : table[i][1] < table[i][2]
  /\ RecoveryLoops \in Nat \ {0} /\ StartupWrap \in Nat /\ StartupWrap > 4

Stages == { "memory", "sha3" }     \* the stages of the startup

Failures == { "alarm", "permanent", "mem", "mem_permanent" }

(* The part of struct rand_data that jent_random_data works on. *)
RandomData ==
  [ osr : Nat \ {0}, fips : BOOLEAN, ntg1 : BOOLEAN, startup : 0 .. StartupWrap - 1,
    ctr : Nat, nosr : Nat, count : Nat, recovery : BOOLEAN, fresh : BOOLEAN,
    failure : SUBSET Failures ]

VARIABLES
  rd,      \* the collector's part that jent_random_data works on
  stack,   \* the calls in progress, the innermost first
  rounds,  \* calls the recovery loop has completed
  sampled  \* history: startup stages completed without a failure

randomVars == << rd, stack, rounds, sampled >>

Completed == 0      \* enum jent_startup_state
Sha3      == 1
Memory    == 2

Failing(e) == e.fips /\ e.failure # {}         \* jent_health_failure

Nosr(e) ==
  LET bits == DATA_SIZE_BITS + IF e.fips THEN ENTROPY_SAFETY_FACTOR ELSE 0
  IN  3 * ((bits * e.osr + 2) \div 3)

(* jent_rct_mem_init: a table's row at osr, the last one beyond its end. *)
Cutoffs(e) ==
  LET table == IF e.ntg1 THEN MemCutoffsNtg1 ELSE MemCutoffs
  IN  table[IF e.osr > Len(table) THEN Len(table) ELSE e.osr]

Cutoff(e)          == Cutoffs(e)[1]
CutoffPermanent(e) == Cutoffs(e)[2]

InWindow(e) == e.ctr < e.nosr

-----------------------------------------------------------------------------
(* jent_random_data_one, up to its loop: a new window. *)
BeginOne(e) == [e EXCEPT !.ctr = 0, !.nosr = Nosr(e)]

Frame(stage) ==
  [ stage |-> stage, at |-> IF stage = "jitter" THEN "prime" ELSE "loop",
    ctr |-> 0, stuck |-> FALSE, own |-> FALSE, good |-> 0 ]

(* Time has passed since the last measurement: prev_time is stale. *)
Later(e) == [e EXCEPT !.fresh = FALSE]

(* Faulty variant: the common loop is entered without priming. *)
EnteredUnprimed(e) ==
  << BeginOne(Later(e)),
     CASE e.startup = Memory -> Frame("memory")
       [] e.startup = Sha3   -> Frame("sha3")
       [] OTHER              -> [Frame("jitter") EXCEPT !.at = "loop"] >>

(* The switch of jent_random_data. *)
Entered(e) ==
  CASE e.startup = Memory -> << BeginOne(Later(e)), Frame("memory") >>
    [] e.startup = Sha3   -> << BeginOne(Later(e)), Frame("sha3") >>
    [] OTHER              -> << Later(e), Frame("jitter") >>

-----------------------------------------------------------------------------
(* The time stamps of a measurement.  The memory accesses of the startup take
   two of their own and leave prev_time alone; its hash loop sets prev_time
   first; the common measurement goes on from the last value of prev_time. *)
OwnDelta(e, stage) == stage # "jitter" \/ e.fresh

Timed(e, stage) == IF stage = "jitter" THEN [e EXCEPT !.fresh = TRUE] ELSE e

(* jent_rct_mem_insert, first half: every third stuck value is counted. *)
Counted(e, stuck) ==
  LET start == IF e.ctr = 0 THEN 0 ELSE e.count
  IN  [e EXCEPT !.count = start + IF stuck /\ InWindow(e) /\ e.ctr % 3 = 0
                                  THEN 1 ELSE 0]

(* Its alarms, but for the recovery. *)
MemAlarm(e) ==
  IF ~InWindow(e) THEN {}
  ELSE IF e.count >= CutoffPermanent(e) THEN {"mem_permanent"}
  ELSE IF e.count = Cutoff(e) /\ e.recovery THEN {"mem"} ELSE {}

(* Its end, which the sample that set off a recovery reaches after it. *)
Advance(e) == [e EXCEPT !.ctr = @ + IF InWindow(e) THEN 1 ELSE 0]

(* Faulty variant: the loop ends with the RCT window, shared with recovery. *)
MeasuredSharedCounter(e, f, stuck, own) ==
  IF f.at = "prime" THEN << BeginOne(e), [f EXCEPT !.at = "loop"] >>
  ELSE << e, [f EXCEPT !.ctr = e.ctr,
                       !.good = @ + IF stuck \/ ~own THEN 0 ELSE 1] >>

(* The measurement has returned to the loop, or to the priming call.  good
   is history: the values that were not stuck and timed nothing else. *)
Returned(e, f, stuck, own) ==
  IF f.at = "prime" THEN << BeginOne(e), [f EXCEPT !.at = "loop"] >>
  ELSE << e, [f EXCEPT !.ctr = @ + IF stuck THEN 0 ELSE 1,
                       !.good = @ + IF stuck \/ ~own THEN 0 ELSE 1] >>

Recovering(e) == [e EXCEPT !.count = 0, !.recovery = TRUE]

(* One measure_jitter: its result, and the alarm of the other tests. *)
Measure(stuck, alarm) ==
  LET f == Head(stack)
      own == OwnDelta(rd, f.stage)
      timed == Timed(rd, f.stage)
      e == Counted([timed EXCEPT !.failure = @ \cup alarm], stuck)
      recover == e.count = Cutoff(e) /\ ~e.recovery
      back == Returned(Advance([e EXCEPT !.failure = @ \cup MemAlarm(e)]), f, stuck, own)
      entered == Entered(Recovering(e))
  IN
  /\ stack # << >>
  /\ f.at = "loop" => ~Failing(rd) /\ f.ctr < rd.nosr
  /\ IF recover
     THEN /\ rd' = entered[1]
          /\ stack' = << entered[2], [f EXCEPT !.stuck = stuck, !.own = own] >> \o Tail(stack)
          /\ rounds' = 0
     ELSE /\ rd' = back[1]
          /\ stack' = << back[2] >> \o Tail(stack)
          /\ UNCHANGED rounds
  /\ UNCHANGED sampled

-----------------------------------------------------------------------------
EndOfLoop ==
  /\ stack # << >>
  /\ Head(stack).at = "loop"
  /\ Failing(rd) \/ Head(stack).ctr >= rd.nosr

Sampled(f) ==
  IF Failing(rd) \/ f.stage = "jitter" THEN sampled ELSE sampled \cup {f.stage}

(* Faulty variant: the first stage ends the startup. *)
AfterStageEndsStartup(e) == [e EXCEPT !.startup = Completed]

(* The stage's decrement; jent_health_init keeps what is modelled here. *)
AfterStage(e) == [e EXCEPT !.startup = (@ - 1) % StartupWrap]

(* case jent_startup_memory falls through to jent_startup_sha3. *)
MemoryStageEnds ==
  /\ EndOfLoop
  /\ Head(stack).stage = "memory"
  /\ rd' = BeginOne(AfterStage(rd))
  /\ stack' = << Frame("sha3") >> \o Tail(stack)
  /\ sampled' = Sampled(Head(stack))
  /\ UNCHANGED rounds

(* What the call has done to the collector when it returns. *)
Done == IF Head(stack).stage = "sha3" THEN AfterStage(rd) ELSE rd

LastStageEnds == EndOfLoop /\ Head(stack).stage # "memory"

(* The recovery loop calls once more. *)
RecoveryContinues ==
  LET entered == Entered(Done) IN
  /\ LastStageEnds
  /\ Len(stack) > 1 /\ rounds + 1 < RecoveryLoops
  /\ rd' = entered[1]
  /\ stack' = << entered[2] >> \o Tail(stack)
  /\ rounds' = rounds + 1
  /\ sampled' = Sampled(Head(stack))

(* The recovery is over: the measurement that set it off ends. *)
RecoveryEnds ==
  LET f == stack[2]
      back == Returned(Advance([Done EXCEPT !.recovery = FALSE]), f, f.stuck, f.own)
  IN
  /\ LastStageEnds
  /\ Len(stack) > 1 /\ rounds + 1 = RecoveryLoops
  /\ rd' = back[1]
  /\ stack' = << back[2] >> \o SubSeq(stack, 3, Len(stack))
  /\ rounds' = 0
  /\ sampled' = Sampled(Head(stack))

(* The outermost call returns. *)
CallReturns ==
  /\ LastStageEnds
  /\ Len(stack) = 1
  /\ rd' = Done
  /\ stack' = << >>
  /\ sampled' = Sampled(Head(stack))
  /\ UNCHANGED rounds

Call ==
  LET entered == Entered(rd) IN
  /\ stack = << >>
  /\ rd' = entered[1]
  /\ stack' = << entered[2] >>
  /\ UNCHANGED << rounds, sampled >>

(* A collector as alloc_internal leaves it. *)
NewRandomData(osr, fips, ntg1) ==
  [ osr |-> osr, fips |-> fips, ntg1 |-> ntg1,
    startup |-> IF fips THEN Memory ELSE Completed,
    ctr |-> 0, nosr |-> 0, count |-> 0, recovery |-> FALSE, fresh |-> FALSE,
    failure |-> {} ]

(* Outside FIPS mode nobody looks at an alarm: none is modelled there. *)
Alarms(e) == IF e.fips THEN { {}, {"alarm"}, {"permanent"} } ELSE { {} }

Running ==
  \/ \E stuck \in BOOLEAN, alarm \in Alarms(rd) : Measure(stuck, alarm)
  \/ MemoryStageEnds
  \/ RecoveryContinues
  \/ RecoveryEnds
  \/ CallReturns

-----------------------------------------------------------------------------
(* The collector leaves its startup only with both noise sources sampled to
   the full, also where recoveries ran the stages within each other. *)
StartupSamplesBoth ==
  rd.fips /\ rd.failure = {} /\ rd.startup \notin {Sha3, Memory} =>
    sampled = {"memory", "sha3"}

(* A call that returns without a failure has drawn a block's worth of values
   that were not stuck and whose deltas time their own measurement, whatever
   recovery did to the counters and the time stamp they share. *)
BlockIsComplete ==
  [][Len(stack') < Len(stack) /\ ~Failing(rd') =>
       Head(stack).good >= Nosr(rd)]_randomVars

(* jitterentropy-internal.h:326: the startup state is one of its enum. *)
StartupInRange == rd.startup \in {Completed, Sha3, Memory}
=============================================================================
