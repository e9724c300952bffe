-------------------------- MODULE JentCollectorProofs --------------------------
(***************************************************************************)
(* Proofs about JentCollector and, through it, JentRandomData, for every   *)
(* depth of the cutoff tables, number of recovery loops, ladder, set of    *)
(* flags and of lengths.  Three layers: the operators on a collector's     *)
(* data and what one measurement, one end of a loop or one call does to    *)
(* the data (DataInv); what each step of the library does to the rest of   *)
(* its state (the ...Effect lemmas, where an allocation or a self test is  *)
(* reduced to what it leaves); and one lemma for each conjunct of Inv.     *)
(***************************************************************************)
EXTENDS JentCollector, SequenceTheorems, TLAPS

(* Where the library stands: in the startup of a collector, in a read, inside a
   call of jent_random_data, and on the reset ladder. *)
StartupPlaces ==
  { "settick", "startup", "startup_block", "startup_reset", "startup_alloc" }
ReadPlaces ==
  { "read", "block", "read_block", "read_reset", "read_alloc" }
InnerPlaces == { "startup_block", "read_block" }
ResetPlaces == { "startup_reset", "startup_alloc", "read_reset", "read_alloc" }

(* What the states are made of. *)
StackFrame ==
  [ stage : Stages \cup {"jitter"}, at : { "prime", "loop" }, ctr : Nat,
    stuck : BOOLEAN, own : BOOLEAN, good : Nat ]

Operation == [ left : Nat, todo : Nat, len : Nat, safe : BOOLEAN ]

Tries == [ osr : Nat, flags : Flag \cup {None} ]

Globals == [ forced : BOOLEAN, selftest : BOOLEAN ]

Heaps == [ Kinds -> Int ]

History == [ cap : Nat, bytes : Nat, uuid : Nat, calls : Nat ]

DataTypes ==
  /\ rd \in RandomData /\ rounds \in Nat /\ sampled \in SUBSET Stages
  /\ stack \in Seq(StackFrame) /\ Len(stack) <= 2

LibraryTypes ==
  /\ g \in Globals
  /\ col \in Collector \cup {None} /\ old \in Replaced \cup {None}
  /\ pc \in {"idle"} \cup StartupPlaces \cup ReadPlaces
  /\ op \in Operation /\ try \in Tries /\ heap \in Heaps /\ hist \in History
  /\ thread \in { "off", "starting", "counting" } /\ ticked \in BOOLEAN

TypeOK == LibraryTypes /\ DataTypes

(* A collector's data between two calls of jent_random_data. *)
Between(e) ==
  /\ ~e.recovery
  /\ e.startup \in { Memory, Completed, StartupWrap - 1, StartupWrap - 2 }

(* Which variables mean something at which place. *)
Where ==
  /\ pc # "idle" => col # None
  /\ old # None => pc \in StartupPlaces
  /\ pc \notin InnerPlaces => stack = << >>

Owned(c) == IF c = None THEN NoHeap ELSE Owns(c)

(* The objects there are belong to the collector and to the one put aside. *)
HeapIsOwned ==
  heap = Plus(Owned(col), IF old = None THEN NoHeap ELSE Owns(old.col))

(* The caller's read: nothing is delivered before everything is, and a safe
   read that is through goes back to its loop with nothing left. *)
Operating ==
  /\ (pc = "idle" \/ (pc \in StartupPlaces /\ old = None)) => op = NoOp
  /\ op.left = op.len \/ (op.safe /\ op.left = 0 /\ pc = "read")
  /\ pc = "read_block" => op.todo > 0

(* The collector that carries the caller's identity and counters: during a
   replacement in a read the one put aside. *)
Handle == IF old = None THEN col ELSE old.col

(* What the handle has counted, read by read, against what was delivered; an
   identity is given only when the first startup is over. *)
Account ==
  col # None =>
    /\ Handle.bytes = hist.bytes + (op.len - op.left)
    /\ (pc \in StartupPlaces /\ old = None) \/ Handle.uuid = hist.uuid

(* A limit on the memory: kept by each collector and by each rung's flags. *)
Capped(c, cap) == c.flags.mem \in 1 .. cap /\ c.max_mem_set

Cap ==
  hist.cap # 0 =>
    /\ col # None => Capped(col, hist.cap)
    /\ old # None => Capped(old.col, hist.cap)
    /\ pc \in ResetPlaces => try.flags.mem \in 1 .. hist.cap

(* A rung stands above the collector it is to replace. *)
Ladder ==
  pc \in ResetPlaces =>
    /\ try.flags \in Flag
    /\ col.osr < try.osr /\ try.osr <= MaxOsr
    /\ try.flags.hash = AtMost(col.flags.hash + 1, MaxHash)

(* A reset in a read starts from a failure, and keeps the failed collector as
   it was between two calls. *)
Replacing ==
  /\ pc \in { "read_reset", "read_alloc" } => rd.failure # {}
  /\ old # None => old.rd.failure # {} /\ Between(old.rd)

(* Which calls can be in progress in which startup state: two only during a
   recovery, and a recovery within a startup stage may end the startup before
   that stage does, which then decrements the state below its enum. *)
Shape ==
  LET n == Len(stack)
      stage(i) == stack[i].stage
  IN
  /\ rd.recovery <=> n = 2
  /\ \/ rd.startup = Memory /\ \A i \in 1 .. n : stage(i) = "memory"
     \/ /\ rd.startup = Sha3 /\ n > 0 /\ stage(1) = "sha3"
        /\ \A i \in 2 .. n : stage(i) # "jitter"
     \/ /\ rd.startup = Completed
        /\ n = 2 => stage(1) = "jitter"
     \/ /\ rd.startup = StartupWrap - 1
        /\ n = 2 => stage(1) = "jitter"
        /\ \A i \in 1 .. n : stage(i) # "memory"
     \/ /\ rd.startup = StartupWrap - 2
        /\ \A i \in 1 .. n : stage(i) = "jitter"

(* What the loops in progress have gained: never less than they count; a call
   in progress under another knows that its own value was timed by itself; the
   outermost running loop measures to the block's full length, and goes on
   from a fresh time stamp. *)
Timing ==
  LET n == Len(stack) IN
  /\ \A i \in 1 .. n : stack[i].good >= stack[i].ctr
  /\ \A i \in 1 .. n : stack[i].at = "prime" => stack[i].stage = "jitter"
  /\ \A i \in 2 .. n : stack[i].at = "loop" => stack[i].own
  /\ n > 0 /\ stack[1].at = "loop" =>
       rd.nosr = Nosr(rd) /\ (stack[1].stage = "jitter" => rd.fresh)

(* How far an unfailed startup is, against the stages sampled. *)
Sampling ==
  rd.fips /\ rd.failure = {} =>
    \/ sampled = Stages
    \/ rd.startup = Memory /\ sampled = {}
    \/ rd.startup = Sha3 /\ sampled = {"memory"}

DataInv == DataTypes /\ Shape /\ Timing /\ Sampling

(* The inductive invariant. *)
Inv ==
  /\ LibraryTypes /\ DataInv
  /\ Where /\ HeapIsOwned /\ Operating /\ Account /\ Cap /\ Ladder /\ Replacing
  /\ TimerRunsWhileMeasuring
-----------------------------------------------------------------------------
(* The operators on a collector's part of the data. *)
LEMMA NosrTyped == ASSUME NEW e \in RandomData PROVE Nosr(e) \in Nat
<1>1. e.osr \in Nat /\ DATA_SIZE_BITS \in Nat /\ ENTROPY_SAFETY_FACTOR \in Nat
  BY RandomDataAssumption DEF RandomData
<1>2. PICK bits \in Nat :
        bits = DATA_SIZE_BITS + IF e.fips THEN ENTROPY_SAFETY_FACTOR ELSE 0
  BY <1>1
<1>3. PICK m \in Nat : m = bits * e.osr
  <2>1. \A x, y \in Nat : x * y \in Nat
    BY Z3
  <2>2. QED
    BY <1>1, <2>1
<1>4. (m + 2) \div 3 \in Nat
  BY Z3
<1>5. Nosr(e) = 3 * ((m + 2) \div 3)
  BY <1>2, <1>3 DEF Nosr
<1>6. QED
  BY <1>4, <1>5

(* The loop length depends on the rate and the mode only. *)
LEMMA NosrSame ==
  ASSUME NEW d, NEW e, d.osr = e.osr, d.fips = e.fips PROVE Nosr(d) = Nosr(e)
BY DEF Nosr

(* A rate beyond the table takes its last row: there always is one. *)
LEMMA CutoffTyped == ASSUME NEW e \in RandomData PROVE Cutoff(e) \in Nat
<1>1. e.osr \in Nat \ {0}
  BY DEF RandomData
<1>2. ASSUME NEW table \in { MemCutoffs, MemCutoffsNtg1 }
      PROVE table[IF e.osr > Len(table) THEN Len(table) ELSE e.osr] \in Nat \X Nat
  <2>1. table \in Seq(Nat \X Nat) /\ Len(table) > 0 /\ Len(table) \in Nat
    BY RandomDataAssumption
  <2>2. (IF e.osr > Len(table) THEN Len(table) ELSE e.osr) \in 1 .. Len(table)
    BY <1>1, <2>1
  <2>3. QED
    BY <2>1, <2>2, ElementOfSeq
<1>3. Cutoffs(e) \in Nat \X Nat
  BY <1>2 DEF Cutoffs
<1>4. QED
  BY <1>3 DEF Cutoff

(* What never changes in the life of a collector, and the failures, which only
   grow. *)
Lasting(d, e) ==
  /\ e.osr = d.osr /\ e.fips = d.fips /\ e.ntg1 = d.ntg1
  /\ d.failure \subseteq e.failure

(* A new window has the length the collector's rate asks for. *)
LEMMA BeginOneFields ==
  ASSUME NEW e \in RandomData
  PROVE  /\ BeginOne(e) \in RandomData
         /\ BeginOne(e).nosr = Nosr(BeginOne(e))
         /\ Lasting(e, BeginOne(e)) /\ BeginOne(e).failure = e.failure
         /\ BeginOne(e).startup = e.startup /\ BeginOne(e).recovery = e.recovery
         /\ BeginOne(e).fresh = e.fresh
<1>1. PICK n \in Nat : n = Nosr(e)
  BY NosrTyped
<1>2. BeginOne(e) = [e EXCEPT !.ctr = 0, !.nosr = n]
  BY <1>1, Zenon DEF BeginOne
<1>3. /\ BeginOne(e) \in RandomData /\ BeginOne(e).nosr = n
      /\ Lasting(e, BeginOne(e)) /\ BeginOne(e).failure = e.failure
      /\ BeginOne(e).startup = e.startup /\ BeginOne(e).recovery = e.recovery
      /\ BeginOne(e).fresh = e.fresh
  <2> DEFINE d == [e EXCEPT !.ctr = 0]
  <2>1. /\ d \in RandomData /\ Lasting(e, d) /\ d.failure = e.failure
        /\ d.startup = e.startup /\ d.recovery = e.recovery /\ d.fresh = e.fresh
    BY DEF RandomData, Lasting
  <2>2. BeginOne(e) = [d EXCEPT !.nosr = n]
    BY <1>2, Zenon
  <2> HIDE DEF d
  <2>3. QED
    BY <2>1, <2>2 DEF RandomData, Lasting
<1>4. Nosr(BeginOne(e)) = Nosr(e)
  BY <1>3, NosrSame DEF Lasting
<1>5. QED
  BY <1>1, <1>3, <1>4

(* Time passes: only the time stamp is touched. *)
LEMMA LaterFields ==
  ASSUME NEW e \in RandomData
  PROVE  /\ Later(e) \in RandomData /\ Lasting(e, Later(e))
         /\ Later(e).failure = e.failure /\ Later(e).nosr = e.nosr
         /\ Later(e).startup = e.startup /\ Later(e).recovery = e.recovery
<1>1. PICK f \in BOOLEAN : f = FALSE
  OBVIOUS
<1>2. Later(e) = [e EXCEPT !.fresh = f]
  BY <1>1, Zenon DEF Later
<1>3. QED
  BY <1>2 DEF RandomData, Lasting

(* A common measurement leaves the time stamp fresh. *)
LEMMA TimedFields ==
  ASSUME NEW e \in RandomData, NEW stage
  PROVE  /\ Timed(e, stage) \in RandomData /\ Lasting(e, Timed(e, stage))
         /\ Timed(e, stage).failure = e.failure /\ Timed(e, stage).nosr = e.nosr
         /\ Timed(e, stage).startup = e.startup
         /\ Timed(e, stage).recovery = e.recovery
         /\ stage = "jitter" => Timed(e, stage).fresh
<1>1. PICK f \in BOOLEAN : f = TRUE
  OBVIOUS
<1>2. CASE stage = "jitter"
  <2>1. Timed(e, stage) = [e EXCEPT !.fresh = f]
    BY <1>1, <1>2, Zenon DEF Timed
  <2>2. QED
    BY <1>1, <2>1 DEF RandomData, Lasting
<1>3. CASE stage # "jitter"
  BY <1>3 DEF Timed, Lasting
<1>4. QED
  BY <1>2, <1>3

(* Raising an alarm. *)
LEMMA FailureFields ==
  ASSUME NEW e \in RandomData, NEW more \in SUBSET Failures,
         NEW d, d = [e EXCEPT !.failure = e.failure \cup more]
  PROVE  /\ d \in RandomData /\ Lasting(e, d) /\ d.nosr = e.nosr
         /\ d.startup = e.startup /\ d.recovery = e.recovery /\ d.fresh = e.fresh
<1>1. PICK f \in SUBSET Failures : f = e.failure \cup more
  BY DEF RandomData
<1>2. d = [e EXCEPT !.failure = f]
  BY <1>1, Zenon
<1>3. QED
  BY <1>1, <1>2 DEF RandomData, Lasting

(* Counting a stuck value leaves the window alone. *)
LEMMA CountedFields ==
  ASSUME NEW e \in RandomData, NEW stuck \in BOOLEAN
  PROVE  /\ Counted(e, stuck) \in RandomData /\ Lasting(e, Counted(e, stuck))
         /\ Counted(e, stuck).failure = e.failure
         /\ Counted(e, stuck).nosr = e.nosr /\ Counted(e, stuck).ctr = e.ctr
         /\ Counted(e, stuck).startup = e.startup
         /\ Counted(e, stuck).recovery = e.recovery
         /\ Counted(e, stuck).fresh = e.fresh
<1>1. e.count \in Nat
  BY DEF RandomData
<1>2. PICK start \in Nat : start = IF e.ctr = 0 THEN 0 ELSE e.count
  BY <1>1
<1>3. PICK n \in Nat :
        n = start + IF stuck /\ InWindow(e) /\ e.ctr % 3 = 0 THEN 1 ELSE 0
  BY <1>2
<1>4. Counted(e, stuck) = [e EXCEPT !.count = n]
  BY <1>2, <1>3, Zenon DEF Counted
<1>5. QED
  BY <1>4 DEF RandomData, Lasting

(* The window goes on by at most one. *)
LEMMA AdvanceFields ==
  ASSUME NEW e \in RandomData
  PROVE  /\ Advance(e) \in RandomData /\ Lasting(e, Advance(e))
         /\ Advance(e).failure = e.failure /\ Advance(e).nosr = e.nosr
         /\ Advance(e).startup = e.startup /\ Advance(e).recovery = e.recovery
         /\ Advance(e).fresh = e.fresh
<1>1. e.ctr \in Nat
  BY DEF RandomData
<1>2. PICK n \in Nat : n = e.ctr + IF InWindow(e) THEN 1 ELSE 0
  BY <1>1
<1>3. Advance(e) = [e EXCEPT !.ctr = n]
  BY <1>2, Zenon DEF Advance
<1>4. QED
  BY <1>3 DEF RandomData, Lasting

(* A recovery is noted and its count cleared. *)
LEMMA RecoveringFields ==
  ASSUME NEW e \in RandomData
  PROVE  /\ Recovering(e) \in RandomData /\ Lasting(e, Recovering(e))
         /\ Recovering(e).failure = e.failure /\ Recovering(e).nosr = e.nosr
         /\ Recovering(e).startup = e.startup /\ Recovering(e).recovery
<1>1. PICK f \in BOOLEAN : f = TRUE
  OBVIOUS
<1> DEFINE d == [e EXCEPT !.count = 0]
<1>2. /\ d \in RandomData /\ Lasting(e, d) /\ d.failure = e.failure
      /\ d.nosr = e.nosr /\ d.startup = e.startup
  BY DEF RandomData, Lasting
<1>3. Recovering(e) = [d EXCEPT !.recovery = f]
  BY <1>1, Zenon DEF Recovering
<1> HIDE DEF d
<1>4. QED
  BY <1>1, <1>2, <1>3 DEF RandomData, Lasting

(* The decrement after a stage, which wraps below zero. *)
LEMMA AfterStageFields ==
  ASSUME NEW e \in RandomData
  PROVE  /\ AfterStage(e) \in RandomData /\ Lasting(e, AfterStage(e))
         /\ AfterStage(e).failure = e.failure /\ AfterStage(e).nosr = e.nosr
         /\ AfterStage(e).startup = IF e.startup = 0 THEN StartupWrap - 1
                                                     ELSE e.startup - 1
         /\ AfterStage(e).recovery = e.recovery /\ AfterStage(e).fresh = e.fresh
<1>1. e.startup \in 0 .. StartupWrap - 1 /\ StartupWrap \in Nat /\ StartupWrap > 4
  BY RandomDataAssumption DEF RandomData
<1>2. PICK n \in 0 .. StartupWrap - 1 :
        n = IF e.startup = 0 THEN StartupWrap - 1 ELSE e.startup - 1
  BY <1>1
<1>3. (e.startup - 1) % StartupWrap = n
  <2>1. CASE e.startup = 0
    <3>1. (0 - 1) % StartupWrap = StartupWrap - 1
      BY <1>1, Z3
    <3>2. QED
      BY <1>2, <2>1, <3>1
  <2>2. CASE e.startup > 0
    <3>1. \A x \in 0 .. StartupWrap - 1 : x % StartupWrap = x
      BY <1>1, Z3
    <3>2. e.startup - 1 \in 0 .. StartupWrap - 1
      BY <1>1, <2>2
    <3>3. QED
      BY <1>1, <1>2, <2>2, <3>1, <3>2
  <2>3. QED
    BY <1>1, <2>1, <2>2
<1>4. AfterStage(e) = [e EXCEPT !.startup = n]
  BY <1>3, Zenon DEF AfterStage
<1>5. QED
  BY <1>2, <1>4 DEF RandomData, Lasting
-----------------------------------------------------------------------------
(* Frames. *)
LEMMA FrameFields ==
  ASSUME NEW stage \in Stages \cup {"jitter"}
  PROVE  /\ Frame(stage) \in StackFrame /\ Frame(stage).stage = stage
         /\ Frame(stage).at = IF stage = "jitter" THEN "prime" ELSE "loop"
         /\ Frame(stage).ctr = 0 /\ Frame(stage).good = 0
<1>1. PICK f \in BOOLEAN : f = FALSE
  OBVIOUS
<1>2. Frame(stage) =
        [ stage |-> stage, at |-> IF stage = "jitter" THEN "prime" ELSE "loop",
          ctr |-> 0, stuck |-> f, own |-> f, good |-> 0 ]
  BY <1>1, Zenon DEF Frame
<1>3. QED
  BY <1>2 DEF StackFrame

StageAt(startup) ==
  IF startup = Memory THEN "memory" ELSE IF startup = Sha3 THEN "sha3" ELSE "jitter"

(* A call of jent_random_data begins at the stage its startup state names. *)
LEMMA EnteredFields ==
  ASSUME NEW e \in RandomData, NEW d, NEW h, d = Entered(e)[1], h = Entered(e)[2]
  PROVE  /\ d \in RandomData /\ Lasting(e, d)
         /\ d.failure = e.failure /\ d.startup = e.startup /\ d.recovery = e.recovery
         /\ h = Frame(StageAt(e.startup))
         /\ StageAt(e.startup) # "jitter" => d.nosr = Nosr(d)
<1>1. Memory # Sha3
  BY DEF Memory, Sha3
<1>2. StageAt(e.startup) = "jitter" => Entered(e) = << Later(e), Frame("jitter") >>
  BY <1>1 DEF StageAt, Entered
<1>3. StageAt(e.startup) # "jitter" =>
        Entered(e) = << BeginOne(Later(e)), Frame(StageAt(e.startup)) >>
  BY <1>1 DEF StageAt, Entered
<1>4. CASE StageAt(e.startup) = "jitter"
  <2>1. d = Later(e) /\ h = Frame("jitter")
    BY <1>2, <1>4
  <2>2. QED
    BY <1>4, <2>1, LaterFields
<1>5. CASE StageAt(e.startup) # "jitter"
  <2>1. d = BeginOne(Later(e)) /\ h = Frame(StageAt(e.startup))
    BY <1>3, <1>5
  <2>2. QED
    BY <2>1, LaterFields, BeginOneFields DEF Lasting
<1>6. QED
  BY <1>4, <1>5

(* A measurement that has returned: a primed call enters its loop with a new
   window, a loop gains what it counts if the value was its own. *)
LEMMA ReturnedFields ==
  ASSUME NEW e \in RandomData, NEW f \in StackFrame,
         NEW stuck \in BOOLEAN, NEW own \in BOOLEAN,
         NEW d, NEW h, d = Returned(e, f, stuck, own)[1],
         h = Returned(e, f, stuck, own)[2]
  PROVE  /\ d \in RandomData /\ Lasting(e, d)
         /\ d.failure = e.failure /\ d.startup = e.startup
         /\ d.recovery = e.recovery /\ d.fresh = e.fresh
         /\ h \in StackFrame /\ h.stage = f.stage /\ h.at = "loop"
         /\ f.at = "prime" => d.nosr = Nosr(d) /\ h.good = f.good /\ h.ctr = f.ctr
         /\ f.at = "loop" => d.nosr = e.nosr
         /\ f.at = "loop" /\ own /\ f.good >= f.ctr => h.good >= h.ctr
<1>1. f.ctr \in Nat /\ f.good \in Nat /\ f.at \in { "prime", "loop" }
  BY DEF StackFrame
<1>2. CASE f.at = "prime"
  <2>1. d = BeginOne(e) /\ h = [f EXCEPT !.at = "loop"]
    BY <1>2 DEF Returned
  <2>2. h \in StackFrame /\ h.stage = f.stage /\ h.at = "loop"
        /\ h.good = f.good /\ h.ctr = f.ctr
    BY <2>1 DEF StackFrame
  <2>3. QED
    BY <1>2, <2>1, <2>2, BeginOneFields
<1>3. CASE f.at = "loop"
  <2>1. PICK c \in Nat : c = f.ctr + IF stuck THEN 0 ELSE 1
    BY <1>1
  <2>2. PICK n \in Nat : n = f.good + IF stuck \/ ~own THEN 0 ELSE 1
    BY <1>1
  <2>3. Returned(e, f, stuck, own) =
          << e, [f EXCEPT !.ctr = @ + IF stuck THEN 0 ELSE 1,
                          !.good = @ + IF stuck \/ ~own THEN 0 ELSE 1] >>
    BY <1>3 DEF Returned
  <2>4. Returned(e, f, stuck, own) = << e, [f EXCEPT !.ctr = c, !.good = n] >>
    BY <2>1, <2>2, <2>3, Zenon
  <2>5. d = e /\ h = [[f EXCEPT !.ctr = c] EXCEPT !.good = n]
    BY <2>4
  <2> DEFINE k == [f EXCEPT !.ctr = c]
  <2>6. k \in StackFrame /\ k.stage = f.stage /\ k.at = f.at /\ k.ctr = c
    BY DEF StackFrame
  <2>7. h = [k EXCEPT !.good = n]
    BY <2>5
  <2> HIDE DEF k
  <2>8. /\ h \in StackFrame /\ h.stage = f.stage /\ h.at = f.at
        /\ h.ctr = c /\ h.good = n
    BY <2>6, <2>7 DEF StackFrame
  <2>9. own /\ f.good >= f.ctr => n >= c
    BY <1>1, <2>1, <2>2
  <2>10. QED
    BY <1>3, <2>5, <2>8, <2>9 DEF Lasting
<1>4. QED
  BY <1>1, <1>2, <1>3

(* The frame of a measurement that sets off a recovery. *)
Saved(f, stuck, own) == [f EXCEPT !.stuck = stuck, !.own = own]

(* What a suspended measurement keeps. *)
LEMMA SavedFields ==
  ASSUME NEW f \in StackFrame, NEW stuck \in BOOLEAN, NEW own \in BOOLEAN
  PROVE  /\ Saved(f, stuck, own) \in StackFrame
         /\ Saved(f, stuck, own).stage = f.stage /\ Saved(f, stuck, own).at = f.at
         /\ Saved(f, stuck, own).ctr = f.ctr /\ Saved(f, stuck, own).good = f.good
         /\ Saved(f, stuck, own).own = own
<1> DEFINE k == [f EXCEPT !.stuck = stuck]
           h == Saved(f, stuck, own)
<1>1. /\ k \in StackFrame /\ k.stage = f.stage /\ k.at = f.at
      /\ k.ctr = f.ctr /\ k.good = f.good
  BY DEF StackFrame
<1>2. h = [k EXCEPT !.own = own]
  BY DEF Saved
<1> HIDE DEF k, h
<1>3. /\ h \in StackFrame /\ h.stage = f.stage /\ h.at = f.at
      /\ h.ctr = f.ctr /\ h.good = f.good /\ h.own = own
  BY <1>1, <1>2 DEF StackFrame
<1>4. QED
  BY <1>3 DEF h
-----------------------------------------------------------------------------
(* The stack of calls. *)
LEMMA HeadReplaced ==
  ASSUME stack \in Seq(StackFrame), stack # << >>, NEW h \in StackFrame,
         NEW t, t = << h >> \o Tail(stack)
  PROVE  /\ t \in Seq(StackFrame) /\ Len(t) = Len(stack) /\ t[1] = h
         /\ \A i \in 2 .. Len(stack) : t[i] = stack[i]
<1>1. /\ Len(stack) \in Nat /\ Len(stack) > 0
      /\ Tail(stack) \in Seq(StackFrame) /\ Len(Tail(stack)) = Len(stack) - 1
      /\ \A i \in 1 .. Len(stack) - 1 : Tail(stack)[i] = stack[i + 1]
  BY HeadTailProperties, EmptySeq, LenProperties
<1>2. << h >> \in Seq(StackFrame) /\ Len(<< h >>) = 1 /\ << h >>[1] = h
  OBVIOUS
<1>3. /\ t \in Seq(StackFrame) /\ Len(t) = 1 + (Len(stack) - 1)
      /\ \A i \in 1 .. 1 + (Len(stack) - 1) :
           t[i] = IF i <= 1 THEN << h >>[i] ELSE Tail(stack)[i - 1]
  BY <1>1, <1>2, ConcatProperties
<1>4. QED
  BY <1>1, <1>2, <1>3

(* A recovery suspends the only call. *)
LEMMA Pushed ==
  ASSUME stack \in Seq(StackFrame), Len(stack) = 1,
         NEW h \in StackFrame, NEW b \in StackFrame,
         NEW t, t = << h, b >> \o Tail(stack)
  PROVE  t \in Seq(StackFrame) /\ Len(t) = 2 /\ t[1] = h /\ t[2] = b
<1>1. Tail(stack) \in Seq(StackFrame) /\ Len(Tail(stack)) = 0
  <2>1. stack # << >>
    BY EmptySeq
  <2>2. QED
    BY <2>1, HeadTailProperties
<1>2. /\ << h, b >> \in Seq(StackFrame) /\ Len(<< h, b >>) = 2
      /\ << h, b >>[1] = h /\ << h, b >>[2] = b
  OBVIOUS
<1>3. /\ t \in Seq(StackFrame) /\ Len(t) = 2 + 0
      /\ \A i \in 1 .. 2 + 0 : t[i] = IF i <= 2 THEN << h, b >>[i] ELSE Tail(stack)[i - 2]
  BY <1>1, <1>2, ConcatProperties
<1>4. QED
  BY <1>2, <1>3

(* ... and ends with that call alone on the stack. *)
LEMMA Popped ==
  ASSUME stack \in Seq(StackFrame), Len(stack) = 2, NEW h \in StackFrame,
         NEW t, t = << h >> \o SubSeq(stack, 3, Len(stack))
  PROVE  t \in Seq(StackFrame) /\ Len(t) = 1 /\ t[1] = h
<1>1. SubSeq(stack, 3, Len(stack)) = << >>
  BY SubSeqProperties
<1>2. t = << h >>
  <2>1. << h >> \in Seq(StackFrame)
    OBVIOUS
  <2>2. QED
    BY <1>1, <2>1, ConcatEmptySeq
<1>3. QED
  BY <1>2

-----------------------------------------------------------------------------
(* One measurement: either it ends, or it sets off a recovery. *)
MeasureEnds ==
  /\ rd' \in RandomData /\ Lasting(rd, rd')
  /\ rd'.startup = rd.startup /\ rd'.recovery = rd.recovery
  /\ stack' \in Seq(StackFrame) /\ Len(stack') = Len(stack)
  /\ \A i \in 2 .. Len(stack) : stack'[i] = stack[i]
  /\ stack'[1].stage = stack[1].stage /\ stack'[1].at = "loop"
  /\ stack[1].stage = "jitter" => rd'.fresh
  /\ stack[1].at = "prime" =>
       /\ rd'.nosr = Nosr(rd')
       /\ stack'[1].good = stack[1].good /\ stack'[1].ctr = stack[1].ctr
  /\ stack[1].at = "loop" =>
       /\ rd'.nosr = rd.nosr
       /\ OwnDelta(rd, stack[1].stage) /\ stack[1].good >= stack[1].ctr
            => stack'[1].good >= stack'[1].ctr

RecoveryBegins ==
  /\ ~rd.recovery
  /\ rd' \in RandomData /\ Lasting(rd, rd')
  /\ rd'.startup = rd.startup /\ rd'.recovery
  /\ \E b \in StackFrame :
       /\ stack' = << Frame(StageAt(rd.startup)), b >> \o Tail(stack)
       /\ b.stage = stack[1].stage /\ b.at = stack[1].at
       /\ b.ctr = stack[1].ctr /\ b.good = stack[1].good
       /\ b.own <=> OwnDelta(rd, stack[1].stage)
  /\ StageAt(rd.startup) # "jitter" => rd'.nosr = Nosr(rd')

(* The many steps of a measurement come to one of the two. *)
LEMMA MeasureEffect ==
  ASSUME rd \in RandomData, stack \in Seq(StackFrame),
         NEW stuck \in BOOLEAN, NEW alarm \in SUBSET Failures, Measure(stuck, alarm)
  PROVE  stack # << >> /\ (MeasureEnds \/ RecoveryBegins)
<1> DEFINE f == Head(stack)
           timed == Timed(rd, f.stage)
           failed == [timed EXCEPT !.failure = timed.failure \cup alarm]
           e == Counted(failed, stuck)
           warned == [e EXCEPT !.failure = e.failure \cup MemAlarm(e)]
           advanced == Advance(warned)
           recover == e.count = Cutoff(e) /\ ~e.recovery
<1>1. PICK own \in BOOLEAN : own = OwnDelta(rd, f.stage)
  BY DEF OwnDelta
<1> DEFINE back == Returned(advanced, f, stuck, own)
           entered == Entered(Recovering(e))
           saved == Saved(f, stuck, own)
<1>2. stack # << >> /\ f \in StackFrame /\ f = stack[1]
  BY HeadTailProperties DEF Measure
<1>3. /\ IF recover
         THEN /\ rd' = entered[1]
              /\ stack' = << entered[2], saved >> \o Tail(stack)
         ELSE /\ rd' = back[1]
              /\ stack' = << back[2] >> \o Tail(stack)
  BY <1>1, Zenon DEF Measure, Saved
<1>4. /\ timed \in RandomData /\ Lasting(rd, timed) /\ timed.nosr = rd.nosr
      /\ timed.startup = rd.startup /\ timed.recovery = rd.recovery
      /\ f.stage = "jitter" => timed.fresh
  BY TimedFields
<1>5. /\ failed \in RandomData /\ Lasting(timed, failed) /\ failed.nosr = timed.nosr
      /\ failed.startup = timed.startup /\ failed.recovery = timed.recovery
      /\ failed.fresh = timed.fresh
  <2> HIDE DEF timed
  <2>1. QED
    BY <1>4, FailureFields
<1>6. /\ e \in RandomData /\ Lasting(failed, e) /\ e.nosr = failed.nosr
      /\ e.startup = failed.startup /\ e.recovery = failed.recovery
      /\ e.fresh = failed.fresh
  <2> HIDE DEF failed
  <2>1. QED
    BY <1>5, CountedFields
<1>7. MemAlarm(e) \in SUBSET Failures
  BY DEF MemAlarm, Failures
<1>8. /\ warned \in RandomData /\ Lasting(e, warned) /\ warned.nosr = e.nosr
      /\ warned.startup = e.startup /\ warned.recovery = e.recovery
      /\ warned.fresh = e.fresh
  <2> HIDE DEF e
  <2>1. QED
    BY <1>6, <1>7, FailureFields
<1>9. /\ advanced \in RandomData /\ Lasting(warned, advanced)
      /\ advanced.nosr = warned.nosr /\ advanced.startup = warned.startup
      /\ advanced.recovery = warned.recovery /\ advanced.fresh = warned.fresh
  <2> HIDE DEF warned
  <2>1. QED
    BY <1>8, AdvanceFields
<1> HIDE DEF f, timed, failed, e, warned, advanced
<1>10. /\ Lasting(rd, advanced) /\ advanced.nosr = rd.nosr
       /\ advanced.startup = rd.startup /\ advanced.recovery = rd.recovery
       /\ f.stage = "jitter" => advanced.fresh
  BY <1>4, <1>5, <1>6, <1>8, <1>9 DEF Lasting
<1>11. CASE ~recover
  <2> DEFINE d == back[1]
             h == back[2]
  <2>1. rd' = d /\ stack' = << h >> \o Tail(stack)
    BY <1>3, <1>11
  <2>2. /\ d \in RandomData /\ Lasting(advanced, d)
        /\ d.startup = advanced.startup
        /\ d.recovery = advanced.recovery /\ d.fresh = advanced.fresh
        /\ h \in StackFrame /\ h.stage = f.stage /\ h.at = "loop"
        /\ f.at = "prime" => d.nosr = Nosr(d) /\ h.good = f.good /\ h.ctr = f.ctr
        /\ f.at = "loop" => d.nosr = advanced.nosr
        /\ f.at = "loop" /\ own /\ f.good >= f.ctr => h.good >= h.ctr
    BY <1>2, <1>9, ReturnedFields
  <2> HIDE DEF d, h
  <2>3. /\ stack' \in Seq(StackFrame) /\ Len(stack') = Len(stack) /\ stack'[1] = h
        /\ \A i \in 2 .. Len(stack) : stack'[i] = stack[i]
    BY <1>2, <2>1, <2>2, HeadReplaced
  <2>4. Lasting(rd, rd')
    BY <1>10, <2>1, <2>2 DEF Lasting
  <2>5. MeasureEnds
    BY <1>1, <1>2, <1>10, <2>1, <2>2, <2>3, <2>4 DEF MeasureEnds
  <2>6. QED
    BY <1>2, <2>5
<1>12. CASE recover
  <2>1. /\ Recovering(e) \in RandomData /\ Lasting(e, Recovering(e))
        /\ Recovering(e).startup = e.startup /\ Recovering(e).recovery
    BY <1>6, RecoveringFields
  <2> DEFINE d == entered[1]
             h == entered[2]
  <2>2. rd' = d /\ stack' = << h, saved >> \o Tail(stack)
    BY <1>3, <1>12
  <2>3. /\ d \in RandomData /\ Lasting(Recovering(e), d)
        /\ d.startup = Recovering(e).startup /\ d.recovery = Recovering(e).recovery
        /\ h = Frame(StageAt(Recovering(e).startup))
        /\ StageAt(Recovering(e).startup) # "jitter" => d.nosr = Nosr(d)
    <3> DEFINE x == Recovering(e)
    <3>1. x \in RandomData /\ d = Entered(x)[1] /\ h = Entered(x)[2]
      BY <2>1
    <3> HIDE DEF x, d, h
    <3>2. /\ d \in RandomData /\ Lasting(x, d)
          /\ d.startup = x.startup /\ d.recovery = x.recovery
          /\ h = Frame(StageAt(x.startup))
          /\ StageAt(x.startup) # "jitter" => d.nosr = Nosr(d)
      BY <3>1, EnteredFields
    <3>3. QED
      BY <3>2 DEF x
  <2> HIDE DEF d, h
  <2>4. /\ saved \in StackFrame /\ saved.stage = f.stage /\ saved.at = f.at
        /\ saved.ctr = f.ctr /\ saved.good = f.good /\ saved.own = own
    BY <1>2, SavedFields
  <2> HIDE DEF saved
  <2>5. e.startup = rd.startup /\ e.recovery = rd.recovery /\ Lasting(rd, e)
    BY <1>4, <1>5, <1>6 DEF Lasting
  <2>6. Lasting(rd, rd')
    BY <2>1, <2>2, <2>3, <2>5 DEF Lasting
  <2>7. ~rd.recovery
    BY <1>12, <2>5
  <2>8. RecoveryBegins
    BY <1>1, <1>2, <2>1, <2>2, <2>3, <2>4, <2>5, <2>6, <2>7 DEF RecoveryBegins
  <2>9. QED
    BY <1>2, <2>8
<1>13. QED
  BY <1>11, <1>12
-----------------------------------------------------------------------------
(* What an innermost call has done to the collector when its loop is over. *)
LEMMA NoFrames == \A x \in Seq(StackFrame) : Len(x) = 0 <=> x = << >>
BY EmptySeq

(* Frames of a stack in use. *)
LEMMA HeadTyped ==
  ASSUME DataTypes, stack # << >>
  PROVE  /\ Len(stack) \in 1 .. 2 /\ Head(stack) = stack[1]
         /\ \A i \in 1 .. Len(stack) : stack[i] \in StackFrame
         /\ \A i \in 1 .. Len(stack) :
              stack[i].ctr \in Nat /\ stack[i].good \in Nat
<1>1. stack \in Seq(StackFrame) /\ Len(stack) <= 2
  BY DEF DataTypes
<1>2. Len(stack) \in Nat /\ Len(stack) # 0
  BY <1>1, NoFrames, LenProperties
<1>3. Len(stack) \in 1 .. 2 /\ Head(stack) = stack[1]
  <2>1. \A n \in Nat : n # 0 /\ n <= 2 => n \in 1 .. 2
    OBVIOUS
  <2>2. Len(stack) \in 1 .. 2
    BY <1>1, <1>2, <2>1, Zenon
  <2>3. Head(stack) = stack[1]
    BY <1>1, HeadTailProperties
  <2>4. QED
    BY <2>2, <2>3
<1>4. \A i \in 1 .. Len(stack) : stack[i] \in StackFrame
  BY <1>1, ElementOfSeq
<1>5. QED
  BY <1>3, <1>4 DEF StackFrame

(* The enum's values, and that the state wraps far above them. *)
LEMMA StartupValues ==
  /\ Memory = 2 /\ Sha3 = 1 /\ Completed = 0
  /\ StartupWrap \in Nat /\ StartupWrap > 4
BY RandomDataAssumption DEF Memory, Sha3, Completed

(* A measurement that ends leaves the calls as they are ... *)
LEMMA MeasureKeepsShape ==
  ASSUME DataTypes, Shape, stack # << >>, MeasureEnds
  PROVE  Shape'
<1>1. Len(stack) \in 1 .. 2 /\ Len(stack') = Len(stack)
  BY HeadTyped DEF MeasureEnds
<1>2. \A i \in 1 .. Len(stack) : stack'[i].stage = stack[i].stage
  BY <1>1 DEF MeasureEnds
<1>3. rd'.startup = rd.startup /\ rd'.recovery = rd.recovery
  BY DEF MeasureEnds
<1>4. QED
  BY <1>1, <1>2, <1>3 DEF Shape

(* ... and what they have gained at least what they count. *)
LEMMA MeasureKeepsTiming ==
  ASSUME DataTypes, Timing, stack # << >>, MeasureEnds
  PROVE  Timing'
<1>1. Len(stack) \in 1 .. 2 /\ Len(stack') = Len(stack)
      /\ \A i \in 2 .. Len(stack) : stack'[i] = stack[i]
  BY HeadTyped DEF MeasureEnds
<1>2. stack[1].at \in { "prime", "loop" }
  BY HeadTyped DEF StackFrame
<1>3. Nosr(rd') = Nosr(rd)
  BY NosrSame DEF MeasureEnds, Lasting
<1>4. stack[1].at = "loop" => OwnDelta(rd, stack[1].stage)
  BY <1>1 DEF Timing, OwnDelta
<1>5. stack'[1].good >= stack'[1].ctr
  BY <1>1, <1>2, <1>4 DEF Timing, MeasureEnds
<1>6. stack'[1].at = "loop" /\ rd'.nosr = Nosr(rd')
      /\ (stack'[1].stage = "jitter" => rd'.fresh)
  BY <1>1, <1>2, <1>3 DEF Timing, MeasureEnds
<1>7. QED
  BY <1>1, <1>5, <1>6 DEF Timing

(* A recovery puts one call on top of the one that set it off ... *)
LEMMA RecoveryBeginsShape ==
  ASSUME DataTypes, Shape, stack # << >>, RecoveryBegins
  PROVE  /\ Shape' /\ stack' \in Seq(StackFrame) /\ Len(stack') = 2
         /\ stack'[1] = Frame(StageAt(rd.startup))
         /\ stack'[2] \in StackFrame
         /\ stack'[2].stage = stack[1].stage /\ stack'[2].at = stack[1].at
         /\ stack'[2].ctr = stack[1].ctr /\ stack'[2].good = stack[1].good
         /\ stack'[2].own <=> OwnDelta(rd, stack[1].stage)
<1>1. Len(stack) = 1
  BY HeadTyped DEF Shape, RecoveryBegins
<1>2. PICK b \in StackFrame :
       /\ stack' = << Frame(StageAt(rd.startup)), b >> \o Tail(stack)
       /\ b.stage = stack[1].stage /\ b.at = stack[1].at
       /\ b.ctr = stack[1].ctr /\ b.good = stack[1].good
       /\ b.own <=> OwnDelta(rd, stack[1].stage)
  BY DEF RecoveryBegins
<1>3. StageAt(rd.startup) \in Stages \cup {"jitter"}
  BY DEF StageAt, Stages
<1> DEFINE h == Frame(StageAt(rd.startup))
<1>4. h \in StackFrame /\ h.stage = StageAt(rd.startup)
  BY <1>3, FrameFields
<1>5. stack \in Seq(StackFrame)
  BY DEF DataTypes
<1> HIDE DEF h
<1>6. stack' = << h, b >> \o Tail(stack)
  BY <1>2 DEF h
<1>7. /\ stack' \in Seq(StackFrame) /\ Len(stack') = 2
      /\ stack'[1] = h /\ stack'[2] = b
  BY <1>1, <1>4, <1>5, <1>6, Pushed
<1>8. rd'.startup = rd.startup /\ rd'.recovery
  BY DEF RecoveryBegins
<1>9. Shape'
  BY <1>1, <1>2, <1>4, <1>7, <1>8, StartupValues DEF Shape, StageAt
<1>10. QED
  BY <1>2, <1>7, <1>9 DEF h

(* ... which remembers whether its own value was timed by itself. *)
LEMMA RecoveryBeginsTiming ==
  ASSUME DataTypes, Shape, Timing, stack # << >>, RecoveryBegins
  PROVE  Timing'
<1> DEFINE stage == StageAt(rd.startup)
<1>1. stage \in Stages \cup {"jitter"}
  BY DEF StageAt, Stages
<1>2. /\ Len(stack') = 2 /\ stack'[1] = Frame(stage)
      /\ stack'[2].stage = stack[1].stage /\ stack'[2].at = stack[1].at
      /\ stack'[2].ctr = stack[1].ctr /\ stack'[2].good = stack[1].good
      /\ stack'[2].own <=> OwnDelta(rd, stack[1].stage)
  BY RecoveryBeginsShape
<1>3. /\ stack'[1].stage = stage /\ stack'[1].ctr = 0 /\ stack'[1].good = 0
      /\ stack'[1].at = IF stage = "jitter" THEN "prime" ELSE "loop"
  BY <1>1, <1>2, FrameFields
<1>4. stage # "jitter" => rd'.nosr = Nosr(rd')
  BY DEF RecoveryBegins
<1>5. Len(stack) \in 1 .. 2
  BY HeadTyped
<1>6. stack[1].at = "loop" => OwnDelta(rd, stack[1].stage)
  BY <1>5 DEF Timing, OwnDelta
<1> HIDE DEF stage
<1>7. /\ stack[1].good >= stack[1].ctr
      /\ stack[1].at = "prime" => stack[1].stage = "jitter"
  BY <1>5 DEF Timing
<1>8. QED
  BY <1>2, <1>3, <1>4, <1>6, <1>7 DEF Timing

(* No measurement takes a call off the stack. *)
LEMMA MeasureKeepsData ==
  ASSUME DataInv, NEW stuck \in BOOLEAN, NEW alarm \in SUBSET Failures,
         Measure(stuck, alarm)
  PROVE  DataInv' /\ Lasting(rd, rd') /\ Len(stack') >= Len(stack) /\ stack' # << >>
<1>1. /\ DataTypes /\ Shape /\ Timing /\ Sampling
      /\ rd \in RandomData /\ stack \in Seq(StackFrame)
  BY DEF DataInv, DataTypes
<1>2. stack # << >> /\ (MeasureEnds \/ RecoveryBegins)
  BY <1>1, MeasureEffect
<1>3. /\ rd' \in RandomData /\ Lasting(rd, rd') /\ rd'.startup = rd.startup
  BY <1>2 DEF MeasureEnds, RecoveryBegins
<1>4. sampled' = sampled /\ rounds' \in Nat
  BY <1>1 DEF Measure, DataTypes
<1>5. /\ Shape' /\ Timing' /\ stack' \in Seq(StackFrame) /\ Len(stack') <= 2
      /\ Len(stack') >= Len(stack)
  <2>1. CASE MeasureEnds
    BY <1>1, <1>2, <2>1, MeasureKeepsShape, MeasureKeepsTiming, HeadTyped DEF MeasureEnds
  <2>2. CASE RecoveryBegins
    <3>1. /\ Shape' /\ Timing'
          /\ stack' \in Seq(StackFrame) /\ Len(stack') = 2
      BY <1>1, <1>2, <2>2, RecoveryBeginsShape, RecoveryBeginsTiming
    <3>2. Len(stack) \in 1 .. 2
      BY <1>1, <1>2, HeadTyped
    <3>3. \A m, n : m \in 1 .. 2 /\ n = 2 => n <= 2 /\ n >= m
      OBVIOUS
    <3>4. Len(stack') <= 2 /\ Len(stack') >= Len(stack)
      BY <3>1, <3>2, <3>3, Zenon
    <3>5. QED
      BY <3>1, <3>4, Zenon
  <2>3. QED
    BY <1>2, <2>1, <2>2
<1>6. Sampling'
  BY <1>1, <1>3, <1>4 DEF Sampling, Lasting
<1>7. stack' # << >>
  BY <1>1, <1>2, <1>5, HeadTyped, NoFrames
<1>8. QED
  BY <1>1, <1>3, <1>4, <1>5, <1>6, <1>7 DEF DataInv, DataTypes
-----------------------------------------------------------------------------
(* The end of a loop: of a startup stage, of a call within a recovery and of
   the outermost call. *)
LEMMA LoopIsOver ==
  ASSUME DataInv, EndOfLoop
  PROVE  /\ Len(stack) \in 1 .. 2 /\ Head(stack) = stack[1] /\ stack[1] \in StackFrame
         /\ stack[1].at = "loop" /\ rd.nosr = Nosr(rd)
         /\ stack[1].stage = "jitter" => rd.fresh
         /\ Sampled(Head(stack)) \in SUBSET Stages
         /\ ~Failing(rd) =>
              /\ stack[1].good >= Nosr(rd)
              /\ Sampled(Head(stack)) = IF stack[1].stage = "jitter" THEN sampled
                                        ELSE sampled \cup {stack[1].stage}
<1>1. DataTypes /\ Timing /\ stack # << >> /\ Head(stack).at = "loop"
  BY DEF DataInv, EndOfLoop
<1>2. /\ Len(stack) \in 1 .. 2 /\ Head(stack) = stack[1] /\ stack[1] \in StackFrame
      /\ stack[1].ctr \in Nat /\ stack[1].good \in Nat
  BY <1>1, HeadTyped
<1>3. /\ stack[1].at = "loop" /\ rd.nosr = Nosr(rd)
      /\ stack[1].stage = "jitter" => rd.fresh
      /\ stack[1].good >= stack[1].ctr
  BY <1>1, <1>2 DEF Timing
<1>4. sampled \in SUBSET Stages
  BY <1>1 DEF DataTypes
<1>5. stack[1].stage \in Stages \cup {"jitter"}
  BY <1>2 DEF StackFrame
<1>6. Sampled(Head(stack)) \in SUBSET Stages
  BY <1>2, <1>4, <1>5 DEF Sampled
<1>7. Nosr(rd) \in Nat
  BY <1>1, NosrTyped DEF DataTypes
<1>8. ~Failing(rd) => stack[1].good >= Nosr(rd)
  <2>1. ~Failing(rd) => stack[1].ctr >= rd.nosr
    BY <1>2, Zenon DEF EndOfLoop
  <2>2. QED
    BY <1>2, <1>3, <1>7, <2>1
<1>9. ~Failing(rd) => Sampled(Head(stack)) = IF stack[1].stage = "jitter" THEN sampled
                                             ELSE sampled \cup {stack[1].stage}
  BY <1>2 DEF Sampled
<1>10. QED
  BY <1>2, <1>3, <1>6, <1>8, <1>9

(* The first stage of the startup is over and falls through to the second. *)
LEMMA MemoryStageEndsKeepsData ==
  ASSUME DataInv, MemoryStageEnds
  PROVE  DataInv' /\ Lasting(rd, rd') /\ Len(stack') = Len(stack) /\ stack' # << >>
<1>1. /\ DataTypes /\ Shape /\ Timing /\ Sampling
      /\ rd \in RandomData /\ stack \in Seq(StackFrame) /\ stack # << >>
  BY DEF DataInv, DataTypes, MemoryStageEnds, EndOfLoop
<1>2. /\ Len(stack) \in 1 .. 2 /\ stack[1].stage = "memory"
      /\ Sampled(Head(stack)) \in SUBSET Stages
      /\ ~Failing(rd) => Sampled(Head(stack)) = sampled \cup {"memory"}
  BY LoopIsOver DEF MemoryStageEnds
<1> DEFINE a == AfterStage(rd)
           h == Frame("sha3")
<1>3. /\ a \in RandomData /\ Lasting(rd, a) /\ a.recovery = rd.recovery
      /\ a.startup = IF rd.startup = 0 THEN StartupWrap - 1 ELSE rd.startup - 1
  BY <1>1, AfterStageFields
<1>4. rd' = BeginOne(a)
  BY DEF MemoryStageEnds
<1> HIDE DEF a
<1>5. /\ rd' \in RandomData /\ rd'.nosr = Nosr(rd') /\ Lasting(a, rd')
      /\ rd'.startup = a.startup /\ rd'.recovery = a.recovery
  BY <1>3, <1>4, BeginOneFields
<1>6. Lasting(rd, rd')
  BY <1>3, <1>5 DEF Lasting
<1>7. /\ h \in StackFrame /\ h.stage = "sha3" /\ h.at = "loop"
      /\ h.ctr = 0 /\ h.good = 0
  BY FrameFields DEF Stages
<1>8. stack' = << h >> \o Tail(stack)
  BY DEF MemoryStageEnds
<1> HIDE DEF h
<1>9. /\ stack' \in Seq(StackFrame) /\ Len(stack') = Len(stack) /\ stack'[1] = h
      /\ \A i \in 2 .. Len(stack) : stack'[i] = stack[i]
  BY <1>1, <1>7, <1>8, HeadReplaced
<1>10. \/ rd.startup = 2 /\ rd'.startup = 1 /\ (Len(stack) = 2 => stack[2].stage = "memory")
       \/ rd.startup = 0 /\ rd'.startup = StartupWrap - 1 /\ Len(stack) = 1
  BY <1>1, <1>2, <1>3, <1>5, StartupValues DEF Shape
<1>11. Shape'
  BY <1>1, <1>2, <1>3, <1>5, <1>7, <1>9, <1>10, StartupValues DEF Shape
<1>12. Timing'
  BY <1>1, <1>2, <1>5, <1>7, <1>9 DEF Timing
<1>13. sampled' = Sampled(Head(stack)) /\ rounds' = rounds
  BY DEF MemoryStageEnds
<1>14. Sampling'
  <2>1. rd'.fips /\ rd'.failure = {} => rd.fips /\ rd.failure = {} /\ ~Failing(rd)
    BY <1>6 DEF Lasting, Failing
  <2>2. QED
    BY <1>1, <1>2, <1>10, <1>13, <2>1, StartupValues DEF Sampling, Stages
<1>15. stack' # << >>
  BY <1>2, <1>9, NoFrames
<1>16. DataTypes'
  BY <1>1, <1>2, <1>5, <1>9, <1>13 DEF DataTypes
<1>17. QED
  BY <1>6, <1>9, <1>11, <1>12, <1>14, <1>15, <1>16 DEF DataInv

(* What a finished call leaves: no startup stage is pending, and both have been
   sampled unless it failed. *)
LEMMA DoneFields ==
  ASSUME DataInv, LastStageEnds, NEW d, d = Done
  PROVE  /\ d \in RandomData /\ Lasting(rd, d) /\ d.nosr = Nosr(d)
         /\ d.recovery = rd.recovery
         /\ d.startup \in { Completed, StartupWrap - 1, StartupWrap - 2 }
         /\ d.fips /\ d.failure = {} => Sampled(Head(stack)) = Stages
         /\ Len(stack) = 2 =>
              /\ stack[2].stage = "jitter" => d.fresh
              /\ d.startup = StartupWrap - 1 => stack[2].stage # "memory"
              /\ d.startup = StartupWrap - 2 => stack[2].stage = "jitter"
<1>1. /\ DataTypes /\ Shape /\ Timing /\ Sampling /\ EndOfLoop
      /\ rd \in RandomData /\ stack \in Seq(StackFrame)
  BY DEF DataInv, DataTypes, LastStageEnds
<1>2. /\ Len(stack) \in 1 .. 2 /\ Head(stack) = stack[1] /\ stack[1] \in StackFrame
      /\ rd.nosr = Nosr(rd)
      /\ stack[1].stage = "jitter" => rd.fresh
      /\ ~Failing(rd) => Sampled(Head(stack)) = IF stack[1].stage = "jitter" THEN sampled
                                                ELSE sampled \cup {stack[1].stage}
  BY <1>1, LoopIsOver
<1>3. stack[1].stage \in { "sha3", "jitter" }
  BY <1>2 DEF LastStageEnds, StackFrame, Stages
<1>4. d = IF stack[1].stage = "sha3" THEN AfterStage(rd) ELSE rd
  BY <1>2 DEF Done
<1>5. /\ d \in RandomData /\ Lasting(rd, d) /\ d.failure = rd.failure
      /\ d.nosr = rd.nosr /\ d.recovery = rd.recovery /\ d.fresh = rd.fresh
      /\ stack[1].stage = "sha3" =>
           d.startup = IF rd.startup = 0 THEN StartupWrap - 1 ELSE rd.startup - 1
      /\ stack[1].stage # "sha3" => d.startup = rd.startup
  BY <1>1, <1>4, AfterStageFields DEF Lasting
<1>6. d.nosr = Nosr(d)
  BY <1>2, <1>5, NosrSame DEF Lasting
<1>7. d.startup \in { Completed, StartupWrap - 1, StartupWrap - 2 }
  BY <1>1, <1>2, <1>3, <1>5, StartupValues DEF Shape
<1>8. d.fips /\ d.failure = {} => Sampled(Head(stack)) = Stages
  <2> SUFFICES ASSUME d.fips, d.failure = {} PROVE Sampled(Head(stack)) = Stages
    OBVIOUS
  <2>1. rd.fips /\ rd.failure = {} /\ ~Failing(rd)
    BY <1>5 DEF Lasting, Failing
  <2>2. sampled \in SUBSET Stages
    BY <1>1 DEF DataTypes
  <2>3. CASE stack[1].stage = "jitter"
    <3>1. rd.startup \notin { Memory, Sha3 }
      BY <1>1, <1>2, <2>3, StartupValues DEF Shape
    <3>2. QED
      BY <1>1, <1>2, <2>1, <2>3, <3>1 DEF Sampling
  <2>4. CASE stack[1].stage = "sha3"
    <3>1. rd.startup # Memory
      BY <1>1, <1>2, <2>4, StartupValues DEF Shape
    <3>2. QED
      BY <1>1, <1>2, <2>1, <2>2, <2>4, <3>1 DEF Sampling, Stages
  <2>5. QED
    BY <1>3, <2>3, <2>4
<1>9. ASSUME Len(stack) = 2
      PROVE  /\ stack[2].stage = "jitter" => d.fresh
             /\ d.startup = StartupWrap - 1 => stack[2].stage # "memory"
             /\ d.startup = StartupWrap - 2 => stack[2].stage = "jitter"
  <2>1. \/ stack[1].stage = "jitter" /\ d.startup = rd.startup
        \/ /\ stack[1].stage = "sha3" /\ d.startup = Completed
           /\ stack[2].stage # "jitter"
    BY <1>1, <1>3, <1>5, <1>9, StartupValues DEF Shape
  <2>2. QED
    BY <1>1, <1>2, <1>5, <1>9, <2>1, StartupValues DEF Shape
<1>10. QED
  BY <1>5, <1>6, <1>7, <1>8, <1>9

(* The recovery calls again: by now the startup is over, also if a stage of it
   is still suspended. *)
LEMMA RecoveryContinuesKeepsData ==
  ASSUME DataInv, RecoveryContinues
  PROVE  DataInv' /\ Lasting(rd, rd') /\ Len(stack') = Len(stack) /\ stack' # << >>
<1>1. /\ DataTypes /\ Shape /\ Timing /\ stack \in Seq(StackFrame) /\ rounds \in Nat
      /\ LastStageEnds /\ EndOfLoop /\ stack # << >>
  BY DEF DataInv, DataTypes, RecoveryContinues, LastStageEnds, EndOfLoop
<1>2. /\ Len(stack) = 2 /\ Sampled(Head(stack)) \in SUBSET Stages
  <2>1. Len(stack) \in 1 .. 2 /\ Sampled(Head(stack)) \in SUBSET Stages
    BY <1>1, LoopIsOver
  <2>2. Len(stack) > 1
    BY DEF RecoveryContinues
  <2>3. QED
    BY <2>1, <2>2
<1> DEFINE d == Done
<1>3. /\ d \in RandomData /\ Lasting(rd, d) /\ d.recovery = rd.recovery
      /\ d.startup \in { Completed, StartupWrap - 1, StartupWrap - 2 }
      /\ d.fips /\ d.failure = {} => Sampled(Head(stack)) = Stages
      /\ d.startup = StartupWrap - 1 => stack[2].stage # "memory"
      /\ d.startup = StartupWrap - 2 => stack[2].stage = "jitter"
  BY <1>1, <1>2, DoneFields
<1> DEFINE h == Frame("jitter")
<1>4. /\ rd' = Entered(d)[1] /\ stack' = << Entered(d)[2] >> \o Tail(stack)
      /\ rounds' = rounds + 1 /\ sampled' = Sampled(Head(stack))
  BY DEF RecoveryContinues
<1> HIDE DEF d
<1>5. /\ rd' \in RandomData /\ Lasting(d, rd') /\ rd'.startup = d.startup
      /\ rd'.recovery = d.recovery
      /\ Entered(d)[2] = Frame(StageAt(d.startup))
  BY <1>3, <1>4, EnteredFields
<1>6. StageAt(d.startup) = "jitter"
  BY <1>3, StartupValues DEF StageAt
<1>7. stack' = << h >> \o Tail(stack)
  BY <1>4, <1>5, <1>6
<1>8. /\ h \in StackFrame /\ h.stage = "jitter" /\ h.at = "prime"
      /\ h.ctr = 0 /\ h.good = 0
  BY FrameFields
<1> HIDE DEF h
<1>9. /\ stack' \in Seq(StackFrame) /\ Len(stack') = 2 /\ stack'[1] = h
      /\ stack'[2] = stack[2]
  BY <1>1, <1>2, <1>7, <1>8, HeadReplaced
<1>10. Lasting(rd, rd')
  BY <1>3, <1>5 DEF Lasting
<1>11. Shape'
  BY <1>1, <1>2, <1>3, <1>5, <1>8, <1>9, StartupValues DEF Shape
<1>12. Timing'
  BY <1>1, <1>2, <1>8, <1>9 DEF Timing
<1>13. Sampling'
  <2>1. rd'.fips /\ rd'.failure = {} => d.fips /\ d.failure = {}
    BY <1>5 DEF Lasting
  <2>2. QED
    BY <1>3, <1>4, <2>1 DEF Sampling
<1>14. DataTypes'
  <2>1. rounds + 1 \in Nat /\ 2 <= 2
    BY <1>1
  <2>2. QED
    BY <1>2, <1>4, <1>5, <1>9, <2>1, Zenon DEF DataTypes
<1>15. stack' # << >>
  BY <1>9, NoFrames
<1>16. QED
  BY <1>2, <1>9, <1>10, <1>11, <1>12, <1>13, <1>14, <1>15 DEF DataInv

(* The recovery is over, and the suspended measurement ends with the window and
   the time stamp the recovery left. *)
LEMMA RecoveryEndsKeepsData ==
  ASSUME DataInv, RecoveryEnds
  PROVE  /\ DataInv' /\ Lasting(rd, rd') /\ stack' # << >>
         /\ Len(stack') < Len(stack)
         /\ stack[1].good >= Nosr(rd) \/ Failing(rd')
<1>1. /\ DataTypes /\ Shape /\ Timing /\ stack \in Seq(StackFrame)
      /\ LastStageEnds /\ EndOfLoop /\ stack # << >>
  BY DEF DataInv, DataTypes, RecoveryEnds, LastStageEnds, EndOfLoop
<1>2. Len(stack) \in 1 .. 2 /\ Sampled(Head(stack)) \in SUBSET Stages
      /\ (~Failing(rd) => stack[1].good >= Nosr(rd))
  BY <1>1, LoopIsOver
<1>3. Len(stack) = 2
  <2>1. Len(stack) > 1
    BY DEF RecoveryEnds
  <2>2. QED
    BY <1>2, <2>1
<1> DEFINE d == Done
           f == stack[2]
           e == [d EXCEPT !.recovery = FALSE]
<1>4. /\ d \in RandomData /\ Lasting(rd, d) /\ d.nosr = Nosr(d)
      /\ d.startup \in { Completed, StartupWrap - 1, StartupWrap - 2 }
      /\ d.fips /\ d.failure = {} => Sampled(Head(stack)) = Stages
      /\ f.stage = "jitter" => d.fresh
      /\ d.startup = StartupWrap - 1 => f.stage # "memory"
      /\ d.startup = StartupWrap - 2 => f.stage = "jitter"
  BY <1>1, <1>3, DoneFields
<1>5. f \in StackFrame /\ f.at \in { "prime", "loop" } /\ f.stuck \in BOOLEAN
      /\ f.own \in BOOLEAN /\ f.good >= f.ctr /\ (f.at = "loop" => f.own)
      /\ (f.at = "prime" => f.stage = "jitter")
  <2>1. stack[2] \in StackFrame
    BY <1>1, <1>3, HeadTyped
  <2>2. QED
    BY <1>1, <1>3, <2>1 DEF Timing, StackFrame
<1>6. /\ rd' = Returned(Advance(e), f, f.stuck, f.own)[1]
      /\ stack' = << Returned(Advance(e), f, f.stuck, f.own)[2] >>
                  \o SubSeq(stack, 3, Len(stack))
      /\ rounds' = 0 /\ sampled' = Sampled(Head(stack))
  BY Zenon DEF RecoveryEnds
<1> HIDE DEF d, f
<1>7. /\ e \in RandomData /\ Lasting(d, e) /\ ~e.recovery
      /\ e.startup = d.startup /\ e.nosr = d.nosr /\ e.fresh = d.fresh
  BY <1>4 DEF RandomData, Lasting
<1> HIDE DEF e
<1> DEFINE a == Advance(e)
<1>8. /\ a \in RandomData /\ Lasting(e, a) /\ ~a.recovery
      /\ a.startup = e.startup /\ a.nosr = e.nosr /\ a.fresh = e.fresh
  BY <1>7, AdvanceFields
<1> HIDE DEF a
<1> DEFINE h == Returned(a, f, f.stuck, f.own)[2]
<1>9. /\ rd' = Returned(a, f, f.stuck, f.own)[1]
      /\ stack' = << h >> \o SubSeq(stack, 3, Len(stack))
  BY <1>6 DEF a
<1>10. /\ rd' \in RandomData /\ Lasting(a, rd') /\ rd'.startup = a.startup
       /\ rd'.recovery = a.recovery /\ rd'.fresh = a.fresh
       /\ h \in StackFrame /\ h.stage = f.stage /\ h.at = "loop"
       /\ f.at = "prime" => rd'.nosr = Nosr(rd') /\ h.good = f.good /\ h.ctr = f.ctr
       /\ f.at = "loop" => rd'.nosr = a.nosr
       /\ f.at = "loop" /\ f.own /\ f.good >= f.ctr => h.good >= h.ctr
  BY <1>5, <1>8, <1>9, ReturnedFields
<1> HIDE DEF h
<1>11. stack' \in Seq(StackFrame) /\ Len(stack') = 1 /\ stack'[1] = h
  BY <1>1, <1>3, <1>9, <1>10, Popped
<1>12. Lasting(d, rd') /\ Lasting(rd, rd')
  BY <1>4, <1>7, <1>8, <1>10 DEF Lasting
<1>13. Shape'
  BY <1>4, <1>7, <1>8, <1>10, <1>11, StartupValues DEF Shape
<1>14. h.good >= h.ctr
  BY <1>5, <1>10
<1>15. rd'.nosr = Nosr(rd') /\ (h.stage = "jitter" => rd'.fresh)
  <2>1. Nosr(rd') = Nosr(d)
    BY <1>12, NosrSame DEF Lasting
  <2>2. QED
    BY <1>4, <1>5, <1>7, <1>8, <1>10, <2>1
<1>16. Timing'
  BY <1>10, <1>11, <1>14, <1>15 DEF Timing
<1>17. Sampling'
  <2>1. rd'.fips /\ rd'.failure = {} => d.fips /\ d.failure = {}
    BY <1>12 DEF Lasting
  <2>2. QED
    BY <1>4, <1>6, <2>1 DEF Sampling
<1>18. DataTypes'
  <2>1. 0 \in Nat /\ 1 <= 2
    OBVIOUS
  <2>2. QED
    BY <1>2, <1>6, <1>10, <1>11, <2>1, Zenon DEF DataTypes
<1>19. stack' # << >>
  BY <1>11, NoFrames
<1>20. Len(stack') < Len(stack)
  BY <1>3, <1>11
<1>21. Failing(rd) => Failing(rd')
  BY <1>12 DEF Failing, Lasting
<1>22. QED
  BY <1>2, <1>12, <1>13, <1>16, <1>17, <1>18, <1>19, <1>20, <1>21 DEF DataInv

(* The outermost call returns, with its full number of values or a failure. *)
LEMMA CallReturnsKeepsData ==
  ASSUME DataInv, CallReturns
  PROVE  /\ DataInv' /\ Lasting(rd, rd') /\ stack' = << >>
         /\ stack[1].good >= Nosr(rd) \/ Failing(rd')
<1>1. /\ DataTypes /\ Shape /\ LastStageEnds /\ EndOfLoop /\ Len(stack) = 1
      /\ stack' = << >> /\ rd' = Done /\ rounds' = rounds
      /\ sampled' = Sampled(Head(stack))
  BY DEF DataInv, DataTypes, CallReturns, LastStageEnds
<1>2. /\ Sampled(Head(stack)) \in SUBSET Stages
      /\ ~Failing(rd) => stack[1].good >= Nosr(rd)
  BY <1>1, LoopIsOver
<1>3. /\ rd' \in RandomData /\ Lasting(rd, rd') /\ rd'.recovery = rd.recovery
      /\ rd'.startup \in { Completed, StartupWrap - 1, StartupWrap - 2 }
      /\ rd'.fips /\ rd'.failure = {} => Sampled(Head(stack)) = Stages
  BY <1>1, DoneFields
<1>4. stack' \in Seq(StackFrame) /\ Len(stack') = 0
  BY <1>1
<1>5. ~rd'.recovery
  BY <1>1, <1>3 DEF Shape
<1>6. Shape'
  BY <1>3, <1>4, <1>5, StartupValues DEF Shape
<1>7. Timing'
  BY <1>4 DEF Timing
<1>8. Sampling'
  BY <1>1, <1>3 DEF Sampling
<1>9. DataTypes'
  BY <1>1, <1>2, <1>3, <1>4 DEF DataTypes
<1>10. Failing(rd) => Failing(rd')
  BY <1>3 DEF Failing, Lasting
<1>11. QED
  BY <1>1, <1>2, <1>3, <1>6, <1>7, <1>8, <1>9, <1>10 DEF DataInv

(* A call of the library. *)
LEMMA CallKeepsData ==
  ASSUME DataInv, Call
  PROVE  DataInv' /\ Lasting(rd, rd') /\ rd'.failure = rd.failure /\ stack' # << >>
<1>1. /\ DataTypes /\ Shape /\ Sampling /\ rd \in RandomData
      /\ stack = << >> /\ Len(stack) = 0
  BY DEF DataInv, DataTypes, Call
<1> DEFINE stage == StageAt(rd.startup)
           h == Frame(stage)
<1>2. rd' = Entered(rd)[1] /\ stack' = << Entered(rd)[2] >>
      /\ rounds' = rounds /\ sampled' = sampled
  BY DEF Call
<1>3. /\ rd' \in RandomData /\ Lasting(rd, rd') /\ rd'.failure = rd.failure
      /\ rd'.startup = rd.startup /\ rd'.recovery = rd.recovery
      /\ stack' = << h >>
      /\ stage # "jitter" => rd'.nosr = Nosr(rd')
  BY <1>1, <1>2, EnteredFields
<1>4. stage \in Stages \cup {"jitter"}
  BY DEF StageAt, Stages
<1>5. /\ h \in StackFrame /\ h.stage = stage /\ h.ctr = 0 /\ h.good = 0
      /\ h.at = IF stage = "jitter" THEN "prime" ELSE "loop"
  BY <1>4, FrameFields
<1> HIDE DEF h
<1>6. stack' \in Seq(StackFrame) /\ Len(stack') = 1 /\ stack'[1] = h
  BY <1>3, <1>5
<1>7. Shape'
  BY <1>1, <1>3, <1>5, <1>6, StartupValues DEF Shape, StageAt
<1> HIDE DEF stage
<1>8. Timing'
  BY <1>3, <1>5, <1>6 DEF Timing
<1>9. Sampling'
  BY <1>1, <1>2, <1>3 DEF Sampling, Lasting
<1>10. DataTypes'
  BY <1>1, <1>2, <1>3, <1>6 DEF DataTypes
<1>11. stack' # << >>
  BY <1>6, NoFrames
<1>12. QED
  BY <1>3, <1>7, <1>8, <1>9, <1>10, <1>11 DEF DataInv

-----------------------------------------------------------------------------
(* The heap: what the collectors own can be added and given back. *)
LEMMA OwnsTyped == ASSUME NEW c PROVE Owns(c) \in Heaps
BY DEF Owns, Heaps, Kinds

(* Adding to the heap and giving back. *)
LEMMA HeapSums ==
  ASSUME NEW h \in Heaps, NEW p \in Heaps
  PROVE  /\ NoHeap \in Heaps /\ Plus(h, p) \in Heaps /\ Plus(h, p) = Plus(p, h)
         /\ Plus(h, NoHeap) = h /\ CollectorFree(h, h) = NoHeap
         /\ CollectorFree(Plus(h, p), p) = h
BY DEF Heaps, Plus, NoHeap, CollectorFree

(* Freeing one of two collectors leaves the other's, and a new one's, objects. *)
LEMMA HeapMoves ==
  ASSUME NEW h \in Heaps, NEW p \in Heaps, NEW q \in Heaps
  PROVE  CollectorFree(Plus(Plus(h, p), q), h) = Plus(q, p)
BY DEF Heaps, Plus, CollectorFree

-----------------------------------------------------------------------------
(* Flags and collectors. *)
LEMMA FlagFields ==
  ASSUME NEW f \in Flag, NEW inc \in Nat
  PROVE  /\ UpdateHashloop(f, inc) \in Flag
         /\ UpdateHashloop(f, inc).mem = f.mem
         /\ UpdateHashloop(f, inc).hash = AtMost(f.hash + inc, MaxHash)
         /\ UpdateMemsize(f, inc) \in Flag
         /\ f.mem # 0 /\ inc = 0 => UpdateMemsize(f, inc).mem = f.mem
         /\ UpdateMemsize(f, inc).hash = f.hash
         /\ \A b \in BOOLEAN : /\ [f EXCEPT !.disable = b] \in Flag
                               /\ [f EXCEPT !.disable = b].mem = f.mem
                               /\ [f EXCEPT !.disable = b].hash = f.hash
<1>1. /\ MaxMem \in Nat /\ CacheMem \in 1 .. MaxMem /\ MaxHash \in Nat
      /\ f.mem \in 0 .. MaxMem /\ f.hash \in 0 .. MaxHash
  BY CollectorAssumption DEF Flag
<1>2. PICK h \in 0 .. MaxHash : h = AtMost(f.hash + inc, MaxHash)
  BY <1>1 DEF AtMost
<1>3. UpdateHashloop(f, inc) = [f EXCEPT !.hash = h]
  BY <1>2, Zenon DEF UpdateHashloop
<1>4. PICK m \in 0 .. MaxMem :
        m = IF f.mem = 0 THEN CacheMem ELSE AtMost(f.mem + inc, MaxMem)
  BY <1>1 DEF AtMost
<1>5. UpdateMemsize(f, inc) = [f EXCEPT !.mem = m]
  BY <1>4, Zenon DEF UpdateMemsize
<1>6. f.mem # 0 /\ inc = 0 => m = f.mem
  BY <1>1, <1>4 DEF AtMost
<1>7. QED
  BY <1>2, <1>3, <1>5, <1>6 DEF Flag

(* A new collector keeps the caller's limit, and notes that there is one. *)
LEMMA NewCollectorFields ==
  ASSUME NEW osr \in Nat \ {0}, NEW f \in Flag, NEW n \in BOOLEAN,
         NEW c, c = NewCollector(osr, f, n)
  PROVE  /\ c \in Collector /\ c.osr = osr /\ c.uuid = 0 /\ c.bytes = 0
         /\ f.mem # 0 => c.max_mem_set /\ c.flags.mem = f.mem
         /\ c.flags.hash = AtMost(f.hash, MaxHash)
<1> DEFINE m == IF f.nomem THEN f ELSE UpdateMemsize(f, 0)
           u == UpdateHashloop(m, 0)
<1>1. m \in Flag /\ (f.mem # 0 => m.mem = f.mem) /\ m.hash = f.hash
  BY FlagFields
<1> HIDE DEF m
<1>2. u \in Flag /\ u.mem = m.mem /\ u.hash = AtMost(m.hash + 0, MaxHash)
  BY <1>1, FlagFields
<1>3. m.hash + 0 = m.hash
  BY <1>1 DEF Flag
<1> HIDE DEF u
<1>4. PICK set \in BOOLEAN : set = (f.mem # 0)
  OBVIOUS
<1>5. f.mem # 0 => set
  BY <1>4, Zenon
<1>6. c = [ osr |-> osr, notime |-> n, max_mem_set |-> set, flags |-> u,
            uuid |-> 0, reinit |-> 0, reads |-> 0, bytes |-> 0 ]
  BY <1>4, Zenon DEF NewCollector, m, u
<1>7. /\ c \in Collector /\ c.osr = osr /\ c.uuid = 0 /\ c.bytes = 0
      /\ c.max_mem_set = set /\ c.flags = u
  BY <1>2, <1>4, <1>6 DEF Collector
<1>8. QED
  BY <1>1, <1>2, <1>3, <1>5, <1>7, Zenon

(* The next rung keeps a limit on the memory and lengthens the hash loop. *)
LEMMA NextTryFields ==
  ASSUME col \in Collector
  PROVE  /\ NextTry.osr = col.osr + 1 /\ NextTry.flags \in Flag
         /\ col.max_mem_set => NextTry.flags.mem = col.flags.mem
         /\ NextTry.flags.hash = AtMost(col.flags.hash + 1, MaxHash)
<1> DEFINE m == IF col.max_mem_set THEN col.flags ELSE UpdateMemsize(col.flags, 1)
<1>1. col.flags \in Flag
  BY DEF Collector
<1>2. m \in Flag /\ (col.max_mem_set => m = col.flags) /\ m.hash = col.flags.hash
  BY <1>1, FlagFields
<1>3. NextTry = [osr |-> col.osr + 1, flags |-> UpdateHashloop(m, 1)]
  BY DEF NextTry
<1> HIDE DEF m
<1>4. QED
  BY <1>2, <1>3, FlagFields

(* What a replacement takes over, field by field. *)
LEMMA CarriedFields ==
  ASSUME NEW new \in Collector, NEW from \in Collector,
         NEW c, c = Carried(new, from)
  PROVE  /\ c \in Collector /\ c.osr = new.osr /\ c.notime = new.notime
         /\ c.flags = new.flags /\ c.max_mem_set = from.max_mem_set
         /\ c.uuid = from.uuid /\ c.bytes = from.bytes
<1>1. PICK r \in Nat : r = from.reinit + 1
  BY DEF Collector
<1> DEFINE n1 == [new EXCEPT !.max_mem_set = from.max_mem_set]
           n2 == [n1 EXCEPT !.uuid = from.uuid]
           n3 == [n2 EXCEPT !.reinit = r]
           n4 == [n3 EXCEPT !.reads = from.reads]
           n5 == [n4 EXCEPT !.bytes = from.bytes]
<1>2. c = n5
  BY <1>1, Zenon DEF Carried
<1>3. /\ n1 \in Collector /\ n1.osr = new.osr /\ n1.notime = new.notime
      /\ n1.flags = new.flags /\ n1.max_mem_set = from.max_mem_set
  BY DEF Collector
<1> HIDE DEF n1
<1>4. /\ n2 \in Collector /\ n2.osr = n1.osr /\ n2.notime = n1.notime
      /\ n2.flags = n1.flags /\ n2.max_mem_set = n1.max_mem_set /\ n2.uuid = from.uuid
  BY <1>3 DEF Collector
<1> HIDE DEF n2
<1>5. /\ n3 \in Collector /\ n3.osr = n2.osr /\ n3.notime = n2.notime
      /\ n3.flags = n2.flags /\ n3.max_mem_set = n2.max_mem_set /\ n3.uuid = n2.uuid
  BY <1>4 DEF Collector
<1> HIDE DEF n3
<1>6. /\ n4 \in Collector /\ n4.osr = n3.osr /\ n4.notime = n3.notime
      /\ n4.flags = n3.flags /\ n4.max_mem_set = n3.max_mem_set /\ n4.uuid = n3.uuid
  BY <1>5 DEF Collector
<1> HIDE DEF n4
<1>7. /\ n5 \in Collector /\ n5.osr = n4.osr /\ n5.notime = n4.notime
      /\ n5.flags = n4.flags /\ n5.max_mem_set = n4.max_mem_set /\ n5.uuid = n4.uuid
      /\ n5.bytes = from.bytes
  BY <1>6 DEF Collector
<1>8. QED
  BY <1>2, <1>3, <1>4, <1>5, <1>6, <1>7

(* What a collector owns depends on its flags and its timer only. *)
LEMMA OwnsSame ==
  ASSUME NEW c, NEW d, c.flags = d.flags, c.notime = d.notime
  PROVE  Owns(c) = Owns(d)
BY DEF Owns

(* A new collector's data, with nothing measured yet. *)
LEMMA FreshFields ==
  ASSUME NEW c \in Collector, c.osr # 0, NEW d, d = Fresh(c)
  PROVE  /\ d \in RandomData /\ ~d.recovery
         /\ d.startup = IF d.fips THEN Memory ELSE Completed
<1>1. PICK f \in BOOLEAN : f = (c.flags.fips \/ c.flags.ntg1)
  BY DEF Collector, Flag
<1>2. PICK s \in 0 .. StartupWrap - 1 : s = IF f THEN Memory ELSE Completed
  BY StartupValues
<1>3. PICK b \in BOOLEAN : b = FALSE
  OBVIOUS
<1>4. d = [ osr |-> c.osr, fips |-> f, ntg1 |-> c.flags.ntg1, startup |-> s,
            ctr |-> 0, nosr |-> 0, count |-> 0, recovery |-> b, fresh |-> b,
            failure |-> {} ]
  BY <1>1, <1>2, <1>3, Zenon DEF Fresh, NewRandomData
<1>5. c.osr \in Nat \ {0} /\ c.flags.ntg1 \in BOOLEAN
  BY DEF Collector, Flag
<1>6. QED
  BY <1>2, <1>3, <1>4, <1>5 DEF RandomData

(* The duplicated count changes nothing else. *)
LEMMA WithCountFields ==
  ASSUME NEW e \in RandomData, NEW from \in RandomData, NEW d, d = WithCount(e, from)
  PROVE  /\ d \in RandomData /\ Lasting(e, d) /\ d.failure = e.failure
         /\ d.startup = e.startup /\ d.recovery = e.recovery
<1>1. PICK n \in Nat : n = Cutoff(from)
  BY CutoffTyped
<1>2. d = [e EXCEPT !.count = n]
  BY <1>1, Zenon DEF WithCount
<1>3. QED
  BY <1>2 DEF RandomData, Lasting

-----------------------------------------------------------------------------
(* The self test and the allocation. *)
Verdicts == [ g : Globals, ok : BOOLEAN ]

(* Setting one of the two globals. *)
LEMMA GlobalsSet ==
  ASSUME NEW gg \in Globals
  PROVE  /\ [gg EXCEPT !.forced = TRUE] \in Globals
         /\ [gg EXCEPT !.selftest = TRUE] \in Globals
         /\ [gg EXCEPT !.selftest = FALSE] \in Globals
<1>1. PICK t \in BOOLEAN, f \in BOOLEAN : t = TRUE /\ f = FALSE
  OBVIOUS
<1>2. /\ [gg EXCEPT !.forced = t] \in Globals /\ [gg EXCEPT !.selftest = t] \in Globals
      /\ [gg EXCEPT !.selftest = f] \in Globals
  BY DEF Globals
<1>3. QED
  BY <1>1, <1>2, Zenon

(* A verdict of the self test is typed ... *)
LEMMA VerdictTyped ==
  ASSUME NEW gg \in Globals, NEW ok \in BOOLEAN
  PROVE  Verdict(gg, ok) \in Verdicts /\ Verdict(gg, ok).g = gg
BY DEF Verdict, Verdicts

(* ... with one timer ... *)
LEMMA TimeEntropyInitTyped ==
  ASSUME NEW gg \in Globals, NEW osr, NEW f, NEW force \in BOOLEAN
  PROVE  TimeEntropyInit(gg, osr, f, force) \subseteq Verdicts
<1> DEFINE g1 == IF force THEN [gg EXCEPT !.forced = TRUE] ELSE gg
<1>1. g1 \in Globals
  BY GlobalsSet
<1>2. Verdict(gg, FALSE) \in Verdicts /\ Verdict(g1, FALSE) \in Verdicts
      /\ Verdict(g1, TRUE) \in Verdicts
  <2> HIDE DEF g1
  <2>1. QED
    BY <1>1, VerdictTyped, Zenon
<1>3. TimeEntropyInit(gg, osr, f, force) \subseteq
        { Verdict(gg, FALSE), Verdict(g1, FALSE), Verdict(g1, TRUE) }
  BY Zenon DEF TimeEntropyInit
<1>4. QED
  BY <1>2, <1>3, Zenon

(* ... and with both. *)
LEMMA EntropyInitExTyped ==
  ASSUME NEW gg \in Globals, NEW osr, NEW f
  PROVE  EntropyInitEx(gg, osr, f) \subseteq Verdicts
<1> DEFINE g1 == [gg EXCEPT !.selftest = TRUE]
           first == IF f.force THEN { Verdict(g1, FALSE) }
                    ELSE TimeEntropyInit(g1, osr, f, FALSE)
           second(v) == IF v.ok \/ f.disable THEN {v}
                        ELSE TimeEntropyInit(v.g, osr, f, TRUE)
<1>1. g1 \in Globals
  BY GlobalsSet
<1>2. PreFails(gg) \subseteq Verdicts
  <2>1. Verdict(gg, FALSE) \in Verdicts /\ Verdict(g1, FALSE) \in Verdicts
    <3> HIDE DEF g1
    <3>1. QED
      BY <1>1, VerdictTyped, Zenon
  <2>2. QED
    BY <2>1, Zenon DEF PreFails
<1>3. first \subseteq Verdicts
  <2> HIDE DEF g1
  <2>1. QED
    BY <1>1, VerdictTyped, TimeEntropyInitTyped, Zenon
<1>4. \A v \in first : second(v) \subseteq Verdicts
  <2> SUFFICES ASSUME NEW v \in first PROVE second(v) \subseteq Verdicts
    OBVIOUS
  <2>1. v \in Verdicts
    BY <1>3, Zenon
  <2>2. v.g \in Globals
    BY <2>1 DEF Verdicts
  <2>3. QED
    BY <2>1, <2>2, TimeEntropyInitTyped, Zenon
<1>5. \A v \in Verdicts : Post(v) \in Verdicts
  <2> SUFFICES ASSUME NEW v \in Verdicts PROVE Post(v) \in Verdicts
    OBVIOUS
  <2>1. v.g \in Globals
    BY DEF Verdicts
  <2> DEFINE g2 == [v.g EXCEPT !.selftest = FALSE]
  <2>2. g2 \in Globals
    BY <2>1, GlobalsSet
  <2>3. [v EXCEPT !.g.selftest = FALSE] = [v EXCEPT !.g = g2]
    BY Zenon
  <2> HIDE DEF g2
  <2>4. [v EXCEPT !.g = g2] \in Verdicts
    BY <2>2 DEF Verdicts
  <2>5. QED
    BY <2>3, <2>4, Zenon DEF Post
<1>6. EntropyInitEx(gg, osr, f) =
        PreFails(gg) \cup { Post(v) : v \in UNION { second(v) : v \in first } }
  BY Zenon DEF EntropyInitEx
<1> HIDE DEF first, second
<1>7. QED
  BY <1>2, <1>4, <1>5, <1>6, Zenon

(* What an allocation comes to: nothing, or one more collector. *)
Allocated(a, osr, f) ==
  /\ AtLeastMinOsr(osr) <= MaxOsr
  /\ a.col \in Collector /\ a.heap = Plus(heap, Owns(a.col))
  /\ a.col.osr = AtLeastMinOsr(osr) /\ a.col.uuid = 0 /\ a.col.bytes = 0
  /\ f.mem # 0 => a.col.max_mem_set /\ a.col.flags.mem = f.mem
  /\ a.col.flags.hash = AtMost(f.hash, MaxHash)

(* The rate is raised to JENT_MIN_OSR, never lowered. *)
LEMMA MinOsrTyped ==
  ASSUME NEW osr \in Nat
  PROVE  AtLeastMinOsr(osr) \in Nat \ {0} /\ AtLeastMinOsr(osr) >= osr
BY CollectorAssumption DEF AtLeastMinOsr

(* A collector as NewCollector makes it, whatever becomes of the timer. *)
MadeFor(c, osr, f) ==
  \E d \in BOOLEAN, n \in BOOLEAN : c = NewCollector(osr, [f EXCEPT !.disable = d], n)

(* Whichever object cannot be allocated, what was allocated is given back. *)
LEMMA AllocObjectsResults ==
  ASSUME NEW gg \in Globals, heap \in Heaps, NEW osr \in Nat \ {0}, NEW f \in Flag,
         NEW a \in AllocObjects(gg, osr, f)
  PROVE  /\ a.g \in Globals
         /\ \/ a.col = None /\ a.heap = heap
            \/ MadeFor(a.col, osr, f) /\ a.heap = Plus(heap, Owns(a.col))
<1> DEFINE f1 == [f EXCEPT !.disable = @ \/ f.ntg1]
           notime == ~f1.disable /\ (gg.forced \/ f.force)
           c == NewCollector(osr, f1, notime)
           all == Owns(c)
           partial == { [k \in Kinds |-> IF k \in S THEN all[k] ELSE 0] :
                          S \in { {"ec"}, {"ec", "mem"}, {"ec", "mem", "hash"} } }
           tested == IF notime /\ ~gg.forced
                     THEN TimeEntropyInit(gg, osr, f1, TRUE)
                     ELSE { Verdict(gg, TRUE) }
           failed(g1) == { Nothing(g1, heap) } \cup
             { Nothing(g1, CollectorFree(Plus(heap, p), p)) : p \in partial }
<1>1. AllocObjects(gg, osr, f) =
        UNION { failed(v.g) \cup
                IF v.ok THEN { [ g |-> v.g, col |-> c, heap |-> Plus(heap, all) ] }
                ELSE {} : v \in tested }
  BY Zenon DEF AllocObjects
<1>2. MadeFor(c, osr, f)
  <2>1. PICK d \in BOOLEAN : f1 = [f EXCEPT !.disable = d]
    <3>1. (f.disable \/ f.ntg1) \in BOOLEAN
      OBVIOUS
    <3>2. QED
      BY <3>1, Zenon
  <2>2. notime \in BOOLEAN
    OBVIOUS
  <2>3. QED
    BY <2>1, <2>2, Zenon DEF MadeFor
<1>4. tested \subseteq Verdicts
  <2> HIDE DEF f1, notime
  <2>1. QED
    BY VerdictTyped, TimeEntropyInitTyped, Zenon
<1>5. all \in Heaps
  BY OwnsTyped
<1>6. \A p \in partial : CollectorFree(Plus(heap, p), p) = heap
  <2> HIDE DEF all
  <2> SUFFICES ASSUME NEW p \in partial PROVE CollectorFree(Plus(heap, p), p) = heap
    OBVIOUS
  <2>1. p \in Heaps
    BY <1>5 DEF Heaps, Kinds
  <2>2. QED
    BY <2>1, HeapSums
<1> HIDE DEF f1, notime, c, all, partial, tested
<1>7. PICK v \in tested :
        a \in failed(v.g) \cup
              IF v.ok THEN { [ g |-> v.g, col |-> c, heap |-> Plus(heap, all) ] } ELSE {}
  BY <1>1, Zenon
<1>8. v.g \in Globals
  BY <1>4, <1>7 DEF Verdicts
<1>9. CASE a \in failed(v.g)
  <2>1. a = Nothing(v.g, heap)
    BY <1>6, <1>9, Zenon
  <2>2. QED
    BY <1>8, <2>1 DEF Nothing
<1>10. CASE a = [ g |-> v.g, col |-> c, heap |-> Plus(heap, all) ]
  <2>1. a.g = v.g /\ a.col = c /\ a.heap = Plus(heap, all)
    BY <1>10
  <2>2. QED
    BY <1>2, <1>8, <2>1, Zenon DEF all
<1>11. QED
  BY <1>7, <1>9, <1>10, Zenon

(* All the ways jent_entropy_collector_alloc_internal can end. *)
LEMMA AllocResults ==
  ASSUME g \in Globals, heap \in Heaps, NEW osr0 \in Nat, NEW f \in Flag,
         NEW a \in AllocInternal(osr0, f)
  PROVE  /\ a.g \in Globals
         /\ (a.col = None /\ a.heap = heap) \/ Allocated(a, osr0, f)
<1> DEFINE osr == AtLeastMinOsr(osr0)
           tests == IF g.selftest THEN { Verdict(g, TRUE) }
                    ELSE EntropyInitEx(g, osr, f)
<1>1. osr \in Nat \ {0}
  BY MinOsrTyped
<1> HIDE DEF osr
<1>2. tests \subseteq Verdicts
  BY VerdictTyped, EntropyInitExTyped, Zenon
<1>3. AllocInternal(osr0, f) =
        IF Contradictory(f) \/ osr > MaxOsr THEN { Nothing(g, heap) }
        ELSE UNION { IF v.ok /\ ~Refused(v.g, osr, f) THEN AllocObjects(v.g, osr, f)
                     ELSE { Nothing(v.g, heap) } : v \in tests }
  BY Zenon DEF AllocInternal, osr
<1> HIDE DEF tests
<1>4. CASE a = Nothing(g, heap)
  BY <1>4 DEF Nothing
<1>5. CASE ~(osr > MaxOsr) /\ \E v \in tests :
             a \in IF v.ok /\ ~Refused(v.g, osr, f) THEN AllocObjects(v.g, osr, f)
                   ELSE { Nothing(v.g, heap) }
  <2>1. PICK v \in tests :
             a \in IF v.ok /\ ~Refused(v.g, osr, f) THEN AllocObjects(v.g, osr, f)
                   ELSE { Nothing(v.g, heap) }
    BY <1>5
  <2>2. v.g \in Globals
    BY <1>2, <2>1 DEF Verdicts
  <2>3. CASE a = Nothing(v.g, heap)
    BY <2>2, <2>3 DEF Nothing
  <2>4. CASE a \in AllocObjects(v.g, osr, f)
    <3>1. /\ a.g \in Globals
          /\ \/ a.col = None /\ a.heap = heap
             \/ MadeFor(a.col, osr, f) /\ a.heap = Plus(heap, Owns(a.col))
      BY <1>1, <2>2, <2>4, AllocObjectsResults, Zenon
    <3>2. ASSUME NEW d \in BOOLEAN, NEW n \in BOOLEAN,
                 a.col = NewCollector(osr, [f EXCEPT !.disable = d], n),
                 a.heap = Plus(heap, Owns(a.col))
          PROVE  Allocated(a, osr0, f)
      <4> DEFINE f1 == [f EXCEPT !.disable = d]
      <4>1. f1 \in Flag /\ f1.mem = f.mem /\ f1.hash = f.hash
        BY FlagFields
      <4>2. a.col = NewCollector(osr, f1, n)
        BY <3>2
      <4> HIDE DEF f1
      <4>3. /\ a.col \in Collector /\ a.col.osr = osr /\ a.col.uuid = 0
            /\ a.col.bytes = 0
            /\ f1.mem # 0 => a.col.max_mem_set /\ a.col.flags.mem = f1.mem
            /\ a.col.flags.hash = AtMost(f1.hash, MaxHash)
        BY <1>1, <4>1, <4>2, NewCollectorFields
      <4>4. osr <= MaxOsr
        BY <1>1, <1>5, CollectorAssumption
      <4>5. QED
        BY <3>2, <4>1, <4>3, <4>4, Zenon DEF Allocated, osr
    <3>3. QED
      BY <3>1, <3>2, Zenon DEF MadeFor
  <2>5. QED
    BY <2>1, <2>3, <2>4, Zenon
<1>6. QED
  <2>1. a = Nothing(g, heap) \/ ~(osr > MaxOsr)
    BY <1>3, Zenon
  <2>2. \/ a = Nothing(g, heap)
        \/ \E v \in tests :
              a \in IF v.ok /\ ~Refused(v.g, osr, f) THEN AllocObjects(v.g, osr, f)
                    ELSE { Nothing(v.g, heap) }
    <3> DEFINE R(v) == IF v.ok /\ ~Refused(v.g, osr, f) THEN AllocObjects(v.g, osr, f)
                       ELSE { Nothing(v.g, heap) }
    <3>1. AllocInternal(osr0, f) =
            IF Contradictory(f) \/ osr > MaxOsr THEN { Nothing(g, heap) }
            ELSE UNION { R(v) : v \in tests }
      BY <1>3
    <3> HIDE DEF R
    <3>2. a = Nothing(g, heap) \/ \E v \in tests : a \in R(v)
      BY <3>1, Zenon
    <3>3. QED
      BY <3>2, Zenon DEF R
  <2>3. QED
    BY <1>4, <1>5, <2>1, <2>2, Zenon
-----------------------------------------------------------------------------
(* Steps that keep the collectors apart from their data. *)
StartupMoves == Settick \/ StartupCall \/ StartupNeedsReset \/ StartupRepeats

ReadMoves == ReadStarts \/ BlockCall \/ BlockCopied \/ ReadNeedsReset

StartupAborts ==
  SettickFails \/ StartupGivesUp \/ StartupResetFails \/ StartupResetAllocFails

ReadAborts == ReadSettickFails \/ ReadFails \/ ReadResetFails

Step ==
  \/ \E f \in Flags : EntropyInit(MinOsr, f)
  \/ \E f \in Flags : CollectorAlloc(MinOsr, f)
  \/ CollectorFreeCall
  \/ \E len \in Lengths, safe \in BOOLEAN : ReadCall(len, safe)
  \/ StartupMoves \/ StartupAborts \/ StartupEnds \/ StartupResetAlloc
  \/ ReadMoves \/ ReadAborts \/ ReadResetAlloc \/ ReadSafeReturns \/ ReadDelivers
  \/ ResetSelfTest \/ RandomDataStep \/ ThreadStep \/ UNCHANGED vars

(* Every step is of one of these kinds. *)
LEMMA StepsSplit == ASSUME [Next]_vars PROVE Step
BY Zenon DEF Next, CallerStep, LibraryStep, Step, StartupMoves, ReadMoves,
     StartupAborts, ReadAborts

(* None is no collector. *)
LEMMA NotNone ==
  /\ \A c \in Collector : c # None
  /\ \A r \in Replaced : r # None /\ r.col \in Collector /\ r.rd \in RandomData
                         /\ r.sampled \in SUBSET Stages
BY CollectorAssumption DEF Replaced

(* What a step does to the library's state, in terms of the next state. *)
LEMMA EntropyInitEffect ==
  ASSUME Inv, NEW f \in Flags, EntropyInit(MinOsr, f)
  PROVE  /\ pc = "idle" /\ g' \in Globals
         /\ hist' \in History /\ hist'.cap = hist.cap /\ hist'.bytes = hist.bytes
         /\ hist'.uuid = hist.uuid
         /\ UNCHANGED << randomVars, timerVars, col, old, pc, op, try, heap >>
<1>1. g \in Globals /\ hist \in History
  BY DEF Inv, LibraryTypes
<1>2. PICK v \in EntropyInitEx(g, MinOsr, f) :
        g' = v.g /\ hist' = [hist EXCEPT !.calls = Calls]
  BY DEF EntropyInit
<1>3. g' \in Globals
  BY <1>1, <1>2, EntropyInitExTyped DEF Verdicts
<1>4. PICK k \in Nat : k = Calls
  BY <1>1 DEF Calls, History
<1>5. hist' = [hist EXCEPT !.calls = k]
  BY <1>2, <1>4, Zenon
<1>6. QED
  BY <1>1, <1>3, <1>5 DEF EntropyInit, CallBegins, History

(* jent_entropy_collector_alloc, up to its startup. *)
LEMMA CollectorAllocEffect ==
  ASSUME Inv, NEW f \in Flags, CollectorAlloc(MinOsr, f)
  PROVE  /\ pc = "idle" /\ col = None /\ g' \in Globals
         /\ hist' \in History /\ hist'.cap = f.mem /\ hist'.bytes = 0 /\ hist'.uuid = 0
         /\ UNCHANGED << stack, rounds, timerVars, old, op, try >>
         /\ \/ /\ col' = None /\ heap' = heap
               /\ UNCHANGED << pc, rd, sampled >>
            \/ /\ col' \in Collector /\ heap' = Plus(heap, Owns(col'))
               /\ col'.osr # 0 /\ col'.bytes = 0
               /\ f.mem # 0 => col'.max_mem_set /\ col'.flags.mem = f.mem
               /\ pc' = "settick" /\ rd' = Fresh(col') /\ sampled' = {}
<1>1. g \in Globals /\ hist \in History /\ heap \in Heaps
  BY DEF Inv, LibraryTypes
<1>2. f \in Flag /\ MinOsr \in Nat /\ f.mem \in Nat
  BY CollectorAssumption DEF Flag
<1>3. PICK a \in AllocInternal(MinOsr, f) :
        /\ g' = a.g /\ heap' = a.heap /\ col' = a.col
        /\ hist' = [hist EXCEPT !.calls = Calls, !.cap = f.mem, !.bytes = 0, !.uuid = 0]
        /\ IF a.col = None THEN UNCHANGED << pc, rd, sampled >>
           ELSE pc' = "settick" /\ rd' = Fresh(a.col) /\ sampled' = {}
  BY Zenon DEF CollectorAlloc
<1>4. /\ a.g \in Globals
      /\ (a.col = None /\ a.heap = heap) \/ Allocated(a, MinOsr, f)
  BY <1>1, <1>2, AllocResults
<1>5. hist' \in History /\ hist'.cap = f.mem /\ hist'.bytes = 0 /\ hist'.uuid = 0
  <2>1. PICK k \in Nat : k = Calls
    BY <1>1 DEF Calls, History
  <2> DEFINE h1 == [hist EXCEPT !.calls = k]
             h2 == [h1 EXCEPT !.cap = f.mem]
             h3 == [h2 EXCEPT !.bytes = 0]
             h4 == [h3 EXCEPT !.uuid = 0]
  <2>2. hist' = h4
    BY <1>3, <2>1, Zenon
  <2>3. h1 \in History
    BY <1>1 DEF History
  <2> HIDE DEF h1
  <2>4. h2 \in History /\ h2.cap = f.mem
    BY <1>2, <2>3 DEF History
  <2> HIDE DEF h2
  <2>5. h3 \in History /\ h3.cap = f.mem /\ h3.bytes = 0
    BY <2>4 DEF History
  <2> HIDE DEF h3
  <2>6. h4 \in History /\ h4.cap = f.mem /\ h4.bytes = 0 /\ h4.uuid = 0
    BY <2>5 DEF History
  <2>7. QED
    BY <2>2, <2>6
<1>6. pc = "idle" /\ col = None /\ UNCHANGED << stack, rounds, timerVars, old, op, try >>
  BY DEF CollectorAlloc, CallBegins
<1>7. CASE a.col = None /\ a.heap = heap
  BY <1>3, <1>4, <1>5, <1>6, <1>7
<1>8. CASE Allocated(a, MinOsr, f)
  <2>1. AtLeastMinOsr(MinOsr) # 0
    BY <1>2, MinOsrTyped
  <2>2. a.col # None
    BY <1>8, NotNone DEF Allocated
  <2>3. QED
    BY <1>3, <1>4, <1>5, <1>6, <1>8, <2>1, <2>2, Zenon DEF Allocated
<1>9. QED
  BY <1>4, <1>7, <1>8

(* A call whose startup fails is over: the collector it wanted is given back. *)
LEMMA StartupAbortsEffect ==
  ASSUME Inv, StartupAborts
  PROVE  /\ pc \in StartupPlaces /\ stack = << >> /\ g' \in Globals
         /\ UNCHANGED << stack, rounds, hist >>
         /\ heap' = CollectorFree(heap, Owns(col))
         /\ \/ old = None /\ col' = None /\ rd' = NoData /\ sampled' = {}
            \/ /\ old # None /\ col' = old.col /\ rd' = old.rd
               /\ sampled' = old.sampled
         /\ old' = None /\ pc' = "idle" /\ op' = NoOp /\ try' = NoTry
         /\ thread' = "off" /\ ticked' = FALSE
<1>1. g \in Globals /\ heap \in Heaps /\ try \in Tries /\ Where /\ Ladder
  BY DEF Inv, LibraryTypes
<1>2. StartupFails /\ UNCHANGED << stack, rounds, hist >>
  BY DEF StartupAborts, SettickFails, StartupGivesUp, StartupResetFails,
         StartupResetAllocFails
<1>3. pc \in { "settick", "startup_reset", "startup_alloc" }
      \/ (pc = "startup_block" /\ stack = << >>)
  BY DEF StartupAborts, SettickFails, StartupGivesUp, StartupResetFails,
         StartupResetAllocFails
<1>4. pc \in StartupPlaces /\ stack = << >>
  BY <1>1, <1>3 DEF Where, StartupPlaces, InnerPlaces
<1>5. g' \in Globals
  <2>1. CASE SettickFails \/ StartupGivesUp
    BY <1>1, <2>1 DEF SettickFails, StartupGivesUp
  <2>2. CASE StartupResetFails
    <3>1. PICK v \in EntropyInitEx(g, try.osr, try.flags) : g' = v.g
      BY <2>2 DEF StartupResetFails
    <3>2. QED
      BY <1>1, <3>1, EntropyInitExTyped DEF Verdicts
  <2>3. CASE StartupResetAllocFails
    <3>1. PICK a \in AllocInternal(try.osr, try.flags) : g' = a.g
      BY <2>3 DEF StartupResetAllocFails
    <3>2. try.osr \in Nat /\ try.flags \in Flag
      BY <1>1, <2>3 DEF Ladder, Tries, StartupResetAllocFails, ResetPlaces
    <3>3. QED
      BY <1>1, <3>1, <3>2, AllocResults
  <2>4. QED
    BY <2>1, <2>2, <2>3 DEF StartupAborts
<1>6. QED
  BY <1>2, <1>4, <1>5, Zenon DEF StartupFails, StopThread

(* A startup ends: the handle gets its identity, or the failed collector's. *)
LEMMA StartupEndsEffect ==
  ASSUME Inv, StartupEnds
  PROVE  /\ pc = "startup_block" /\ col \in Collector /\ col' \in Collector
         /\ stack = << >> /\ hist' \in History
         /\ col'.osr = col.osr /\ col'.notime = col.notime /\ col'.flags = col.flags
         /\ hist'.cap = hist.cap /\ hist'.bytes = hist.bytes
         /\ \/ /\ old = None /\ col'.uuid = hist'.uuid /\ col'.bytes = col.bytes
               /\ col'.max_mem_set = col.max_mem_set
               /\ pc' = "idle" /\ UNCHANGED << rd, heap >>
            \/ /\ old \in Replaced /\ col'.uuid = old.col.uuid
               /\ col'.bytes = old.col.bytes /\ col'.max_mem_set = old.col.max_mem_set
               /\ hist'.uuid = hist.uuid
               /\ rd' = WithCount(rd, old.rd)
               /\ heap' = CollectorFree(heap, Owns(old.col)) /\ pc' = "read"
         /\ old' = None /\ try' = NoTry /\ thread' = "off" /\ ticked' = FALSE
         /\ UNCHANGED << stack, rounds, sampled, g, op >>
<1>1. hist \in History /\ col \in Collector \cup {None} /\ old \in Replaced \cup {None}
      /\ Where
  BY DEF Inv, LibraryTypes
<1>2. pc = "startup_block" /\ stack = << >> /\ thread' = "off" /\ ticked' = FALSE
      /\ old' = None /\ try' = NoTry /\ UNCHANGED << stack, rounds, sampled, g, op >>
  BY DEF StartupEnds, StopThread
<1>3. col \in Collector
  BY <1>1, <1>2 DEF Where
<1>4. CASE old = None
  <2>1. PICK k \in Nat : k = Calls
    BY <1>1 DEF Calls, History
  <2>2. /\ col' = [col EXCEPT !.uuid = k] /\ hist' = [hist EXCEPT !.uuid = k]
        /\ pc' = "idle" /\ UNCHANGED << rd, heap >>
    BY <1>4, <2>1, Zenon DEF StartupEnds
  <2>3. /\ col' \in Collector /\ col'.osr = col.osr /\ col'.notime = col.notime
        /\ col'.flags = col.flags /\ col'.uuid = k /\ col'.bytes = col.bytes
        /\ col'.max_mem_set = col.max_mem_set
    BY <1>3, <2>2 DEF Collector
  <2>4. /\ hist' \in History /\ hist'.cap = hist.cap /\ hist'.bytes = hist.bytes
        /\ hist'.uuid = k
    BY <1>1, <2>2 DEF History
  <2>5. QED
    BY <1>2, <1>3, <1>4, <2>2, <2>3, <2>4
<1>5. CASE old # None
  <2>1. old \in Replaced /\ old.col \in Collector
    BY <1>1, <1>5, NotNone
  <2>2. /\ col' = Carried(col, old.col) /\ rd' = WithCount(rd, old.rd)
        /\ heap' = CollectorFree(heap, Owns(old.col)) /\ pc' = "read" /\ hist' = hist
    BY <1>5, Zenon DEF StartupEnds
  <2>3. /\ col' \in Collector /\ col'.osr = col.osr /\ col'.notime = col.notime
        /\ col'.flags = col.flags /\ col'.max_mem_set = old.col.max_mem_set
        /\ col'.uuid = old.col.uuid /\ col'.bytes = old.col.bytes
    BY <1>3, <2>1, <2>2, CarriedFields
  <2>4. QED
    BY <1>1, <1>2, <1>3, <2>1, <2>2, <2>3
<1>6. QED
  BY <1>4, <1>5

(* A replacement during the startup. *)
LEMMA StartupResetAllocEffect ==
  ASSUME Inv, StartupResetAlloc
  PROVE  /\ pc = "startup_alloc" /\ col \in Collector /\ col' \in Collector
         /\ stack = << >> /\ g' \in Globals
         /\ heap' = CollectorFree(Plus(heap, Owns(col')), Owns(col))
         /\ col'.osr # 0 /\ col'.osr >= try.osr /\ col'.osr <= MaxOsr
         /\ try.flags.mem # 0 => col'.flags.mem = try.flags.mem
         /\ col'.flags.hash = AtMost(try.flags.hash, MaxHash)
         /\ col'.max_mem_set = col.max_mem_set
         /\ col'.uuid = col.uuid /\ col'.bytes = col.bytes
         /\ rd' = WithCount(Fresh(col'), rd) /\ sampled' = {}
         /\ pc' = "settick" /\ thread' = "off" /\ ticked' = FALSE
         /\ UNCHANGED << stack, rounds, old, op, try, hist >>
<1>1. /\ g \in Globals /\ heap \in Heaps /\ try \in Tries /\ Where /\ Ladder
      /\ col \in Collector \cup {None}
  BY DEF Inv, LibraryTypes
<1>2. /\ pc = "startup_alloc" /\ pc' = "settick" /\ thread' = "off" /\ ticked' = FALSE
      /\ sampled' = {} /\ UNCHANGED << stack, rounds, old, op, try, hist >>
  BY Zenon DEF StartupResetAlloc, StopThread
<1>3. col \in Collector /\ stack = << >>
  BY <1>1, <1>2 DEF Where, InnerPlaces
<1>4. try.osr \in Nat /\ try.flags \in Flag
  BY <1>1, <1>2 DEF Ladder, Tries, ResetPlaces
<1>5. PICK a \in AllocInternal(try.osr, try.flags) :
        /\ a.col # None /\ g' = a.g
        /\ heap' = CollectorFree(a.heap, Owns(col))
        /\ col' = Carried(a.col, col) /\ rd' = WithCount(Fresh(a.col), rd)
  BY Zenon DEF StartupResetAlloc
<1>6. a.g \in Globals /\ Allocated(a, try.osr, try.flags)
  BY <1>1, <1>4, <1>5, AllocResults
<1>7. /\ a.col \in Collector /\ a.heap = Plus(heap, Owns(a.col))
      /\ a.col.osr # 0 /\ a.col.osr >= try.osr /\ a.col.osr <= MaxOsr
      /\ try.flags.mem # 0 => a.col.flags.mem = try.flags.mem
      /\ a.col.flags.hash = AtMost(try.flags.hash, MaxHash)
  BY <1>4, <1>6, MinOsrTyped DEF Allocated
<1>8. /\ col' \in Collector /\ col'.osr = a.col.osr /\ col'.notime = a.col.notime
      /\ col'.flags = a.col.flags /\ col'.max_mem_set = col.max_mem_set
      /\ col'.uuid = col.uuid /\ col'.bytes = col.bytes
  BY <1>3, <1>5, <1>7, CarriedFields
<1>9. Owns(col') = Owns(a.col) /\ Fresh(col') = Fresh(a.col)
  BY <1>8, OwnsSame DEF Fresh
<1>10. QED
  BY <1>2, <1>3, <1>5, <1>6, <1>7, <1>8, <1>9

(* A replacement in a read: the failed collector is put aside, or stays. *)
LEMMA ReadResetAllocEffect ==
  ASSUME Inv, ReadResetAlloc
  PROVE  /\ pc = "read_alloc" /\ col \in Collector /\ old = None
         /\ stack = << >> /\ g' \in Globals
         /\ \/ /\ heap' = heap /\ pc' = "idle" /\ op' = NoOp /\ try' = NoTry
               /\ UNCHANGED << col, old, rd, sampled >>
            \/ /\ col' \in Collector /\ heap' = Plus(heap, Owns(col'))
               /\ col'.osr # 0 /\ col'.osr >= try.osr /\ col'.osr <= MaxOsr
               /\ try.flags.mem # 0 =>
                    col'.max_mem_set /\ col'.flags.mem = try.flags.mem
               /\ col'.flags.hash = AtMost(try.flags.hash, MaxHash)
               /\ old' \in Replaced /\ old'.col = col /\ old'.rd = rd
               /\ rd' = Fresh(col') /\ sampled' = {} /\ pc' = "settick"
               /\ UNCHANGED << op, try >>
         /\ UNCHANGED << stack, rounds, timerVars, hist >>
<1>1. /\ g \in Globals /\ heap \in Heaps /\ try \in Tries /\ Where /\ Ladder
      /\ col \in Collector \cup {None} /\ DataTypes
  BY DEF Inv, LibraryTypes, DataInv
<1>2. pc = "read_alloc" /\ UNCHANGED << stack, rounds, timerVars, hist >>
  BY Zenon DEF ReadResetAlloc
<1>3. col \in Collector /\ stack = << >> /\ old = None
  BY <1>1, <1>2 DEF Where, InnerPlaces, StartupPlaces
<1>4. try.osr \in Nat /\ try.flags \in Flag
  BY <1>1, <1>2 DEF Ladder, Tries, ResetPlaces
<1>5. PICK a \in AllocInternal(try.osr, try.flags) :
        /\ g' = a.g /\ heap' = a.heap
        /\ IF a.col = None
           THEN /\ pc' = "idle" /\ op' = NoOp /\ try' = NoTry
                /\ UNCHANGED << col, old, rd, sampled >>
           ELSE /\ pc' = "settick"
                /\ old' = [col |-> col, rd |-> rd, sampled |-> sampled]
                /\ col' = a.col /\ rd' = Fresh(a.col) /\ sampled' = {}
                /\ UNCHANGED << op, try >>
  BY Zenon DEF ReadResetAlloc
<1>6. /\ a.g \in Globals
      /\ (a.col = None /\ a.heap = heap) \/ Allocated(a, try.osr, try.flags)
  BY <1>1, <1>4, <1>5, AllocResults
<1>7. CASE a.col = None
  <2>1. a.heap = heap
    BY <1>6, <1>7, NotNone DEF Allocated
  <2>2. QED
    BY <1>2, <1>3, <1>5, <1>6, <1>7, <2>1
<1>8. CASE a.col # None
  <2>1. /\ a.col \in Collector /\ a.heap = Plus(heap, Owns(a.col))
        /\ a.col.osr # 0 /\ a.col.osr >= try.osr /\ a.col.osr <= MaxOsr
        /\ try.flags.mem # 0 => a.col.max_mem_set /\ a.col.flags.mem = try.flags.mem
        /\ a.col.flags.hash = AtMost(try.flags.hash, MaxHash)
    BY <1>4, <1>6, <1>8, MinOsrTyped DEF Allocated
  <2>2. /\ pc' = "settick" /\ old' = [col |-> col, rd |-> rd, sampled |-> sampled]
        /\ col' = a.col /\ rd' = Fresh(a.col) /\ sampled' = {}
        /\ UNCHANGED << op, try >>
    BY <1>5, <1>8, Zenon
  <2>3. old' \in Replaced /\ old'.col = col /\ old'.rd = rd
    BY <1>1, <1>3, <2>2 DEF Replaced, DataTypes
  <2>4. QED
    BY <1>2, <1>3, <1>5, <1>6, <2>1, <2>2, <2>3
<1>9. QED
  BY <1>7, <1>8

(* The blocks are out. *)
LEMMA ReadDeliversEffect ==
  ASSUME Inv, ReadDelivers
  PROVE  /\ pc = "block" /\ col \in Collector /\ col' \in Collector
         /\ stack = << >> /\ old = None
         /\ col'.osr = col.osr /\ col'.notime = col.notime /\ col'.flags = col.flags
         /\ col'.max_mem_set = col.max_mem_set /\ col'.uuid = col.uuid
         /\ col'.bytes = col.bytes + op.left /\ op' \in Operation
         /\ hist' \in History /\ hist'.cap = hist.cap /\ hist'.uuid = hist.uuid
         /\ \/ /\ op.safe /\ pc' = "read" /\ UNCHANGED hist
               /\ op'.left = 0 /\ op'.len = op.len /\ op'.safe
            \/ /\ ~op.safe /\ pc' = "idle" /\ op' = NoOp
               /\ hist'.bytes = hist.bytes + op.len
         /\ thread' = "off" /\ ticked' = FALSE
         /\ UNCHANGED << randomVars, g, old, try, heap >>
<1>1. /\ op \in Operation /\ hist \in History /\ col \in Collector \cup {None} /\ Where
  BY DEF Inv, LibraryTypes
<1>2. pc = "block" /\ thread' = "off" /\ ticked' = FALSE
      /\ UNCHANGED << randomVars, g, old, try, heap >>
  BY DEF ReadDelivers, StopThread
<1>3. col \in Collector /\ stack = << >> /\ old = None
  BY <1>1, <1>2 DEF Where, InnerPlaces, StartupPlaces
<1>4. PICK r \in Nat, b \in Nat : r = col.reads + 1 /\ b = col.bytes + op.left
  BY <1>1, <1>3 DEF Collector, Operation
<1> DEFINE c1 == [col EXCEPT !.reads = r]
           c2 == [c1 EXCEPT !.bytes = b]
<1>5. col' = c2
  BY <1>4, Zenon DEF ReadDelivers
<1>6. /\ c1 \in Collector /\ c1.osr = col.osr /\ c1.notime = col.notime
      /\ c1.flags = col.flags /\ c1.max_mem_set = col.max_mem_set /\ c1.uuid = col.uuid
  BY <1>3 DEF Collector
<1> HIDE DEF c1
<1>7. /\ c2 \in Collector /\ c2.osr = c1.osr /\ c2.notime = c1.notime
      /\ c2.flags = c1.flags /\ c2.max_mem_set = c1.max_mem_set /\ c2.uuid = c1.uuid
      /\ c2.bytes = b
  BY <1>6 DEF Collector
<1> HIDE DEF c2
<1>8. /\ op' \in Operation
      /\ hist' \in History /\ hist'.cap = hist.cap /\ hist'.uuid = hist.uuid
      /\ \/ /\ op.safe /\ pc' = "read" /\ UNCHANGED hist
            /\ op'.left = 0 /\ op'.len = op.len /\ op'.safe
         \/ /\ ~op.safe /\ pc' = "idle" /\ op' = NoOp
            /\ hist'.bytes = hist.bytes + op.len
  <2>1. CASE op.safe
    <3>1. pc' = "read" /\ op' = [op EXCEPT !.left = 0] /\ hist' = hist
      BY <2>1, Zenon DEF ReadDelivers
    <3>2. op' \in Operation /\ op'.left = 0 /\ op'.len = op.len /\ op'.safe = op.safe
      BY <1>1, <3>1 DEF Operation
    <3>3. QED
      BY <1>1, <2>1, <3>1, <3>2
  <2>2. CASE ~op.safe
    <3>1. PICK n \in Nat : n = hist.bytes + op.len
      BY <1>1 DEF History, Operation
    <3>2. pc' = "idle" /\ op' = NoOp /\ hist' = [hist EXCEPT !.bytes = n]
      BY <2>2, <3>1, Zenon DEF ReadDelivers
    <3>3. hist' \in History /\ hist'.cap = hist.cap /\ hist'.uuid = hist.uuid
          /\ hist'.bytes = n
      BY <1>1, <3>2 DEF History
    <3>4. NoOp \in Operation
      BY DEF NoOp, Operation
    <3>5. QED
      BY <2>2, <3>1, <3>2, <3>3, <3>4
  <2>3. QED
    BY <2>1, <2>2
<1>9. QED
  BY <1>2, <1>3, <1>4, <1>5, <1>6, <1>7, <1>8

(* A safe read returns. *)
LEMMA ReadSafeReturnsEffect ==
  ASSUME Inv, ReadSafeReturns
  PROVE  /\ pc = "read" /\ op.left = 0 /\ pc' = "idle" /\ op' = NoOp
         /\ hist' \in History /\ hist'.cap = hist.cap /\ hist'.uuid = hist.uuid
         /\ hist'.bytes = hist.bytes + op.len
         /\ UNCHANGED << randomVars, timerVars, g, col, old, try, heap >>
<1>1. op \in Operation /\ hist \in History
  BY DEF Inv, LibraryTypes
<1>2. PICK n \in Nat : n = hist.bytes + op.len
  BY <1>1 DEF History, Operation
<1>3. hist' = [hist EXCEPT !.bytes = n]
  BY <1>2, Zenon DEF ReadSafeReturns
<1>4. QED
  BY <1>1, <1>2, <1>3 DEF ReadSafeReturns, History

(* A read begins. *)
LEMMA ReadCallEffect ==
  ASSUME Inv, NEW len \in Lengths, NEW safe \in BOOLEAN, ReadCall(len, safe)
  PROVE  /\ pc = "idle" /\ col # None /\ pc' = "read"
         /\ op' \in Operation /\ op'.left = op'.len
         /\ hist' \in History /\ hist'.cap = hist.cap /\ hist'.bytes = hist.bytes
         /\ hist'.uuid = hist.uuid
         /\ UNCHANGED << randomVars, timerVars, g, col, old, try, heap >>
<1>1. hist \in History /\ len \in Nat
  BY CollectorAssumption DEF Inv, LibraryTypes
<1>2. PICK k \in Nat : k = Calls
  BY <1>1 DEF Calls, History
<1>3. hist' = [hist EXCEPT !.calls = k]
  BY <1>2, Zenon DEF ReadCall
<1>4. op' = [left |-> len, todo |-> 0, len |-> len, safe |-> safe]
  BY DEF ReadCall
<1>5. QED
  BY <1>1, <1>3, <1>4 DEF ReadCall, CallBegins, History, Operation

(* The caller frees the collector. *)
LEMMA CollectorFreeCallEffect ==
  ASSUME Inv, CollectorFreeCall
  PROVE  /\ pc = "idle" /\ col \in Collector /\ old = None /\ stack = << >>
         /\ heap' = CollectorFree(heap, Owns(col)) /\ col' = None /\ rd' = NoData
         /\ sampled' = {}
         /\ hist' \in History /\ hist'.cap = hist.cap
         /\ UNCHANGED << stack, rounds, timerVars, g, old, pc, op, try >>
<1>1. hist \in History /\ col \in Collector \cup {None} /\ Where
  BY DEF Inv, LibraryTypes
<1>2. PICK k \in Nat : k = Calls
  BY <1>1 DEF Calls, History
<1>3. hist' = [hist EXCEPT !.calls = k]
  BY <1>2, Zenon DEF CollectorFreeCall
<1>4. hist' \in History /\ hist'.cap = hist.cap
  BY <1>1, <1>3 DEF History
<1>5. pc = "idle" /\ col # None
  BY DEF CollectorFreeCall, CallBegins
<1>6. old = None /\ stack = << >>
  BY <1>1, <1>5 DEF Where, StartupPlaces, InnerPlaces
<1>7. QED
  BY <1>1, <1>4, <1>5, <1>6 DEF CollectorFreeCall

(* A self test on the ladder passes, or the next rung is tried. *)
LEMMA ResetSelfTestEffect ==
  ASSUME Inv, ResetSelfTest
  PROVE  /\ g' \in Globals /\ try' \in Tries /\ try'.flags = try.flags
         /\ try'.osr >= try.osr /\ try'.osr <= MaxOsr
         /\ \/ pc = "startup_reset" /\ pc' \in { "startup_reset", "startup_alloc" }
            \/ pc = "read_reset" /\ pc' \in { "read_reset", "read_alloc" }
         /\ UNCHANGED << randomVars, timerVars, col, old, op, heap, hist >>
<1>1. g \in Globals /\ try \in Tries /\ Ladder
  BY DEF Inv, LibraryTypes
<1>2. pc \in { "startup_reset", "read_reset" }
  BY DEF ResetSelfTest, InReset
<1>3. PICK v \in EntropyInitEx(g, try.osr, try.flags) :
        /\ g' = v.g
        /\ \/ v.ok /\ pc' = ResetTested[pc] /\ UNCHANGED try
           \/ ~v.ok /\ try.osr < MaxOsr /\ try' = [try EXCEPT !.osr = @ + 1]
                   /\ UNCHANGED pc
  BY DEF ResetSelfTest
<1>4. g' \in Globals
  BY <1>1, <1>3, EntropyInitExTyped DEF Verdicts
<1>5. try.osr \in Nat /\ try.osr <= MaxOsr
  BY <1>1, <1>2 DEF Ladder, ResetPlaces, Tries
<1>6. /\ try' \in Tries /\ try'.flags = try.flags
      /\ try'.osr >= try.osr /\ try'.osr <= MaxOsr
  <2>1. CASE UNCHANGED try
    BY <1>1, <1>5, <2>1
  <2>2. CASE try.osr < MaxOsr /\ try' = [try EXCEPT !.osr = @ + 1]
    <3>1. PICK n \in Nat : n = try.osr + 1
      BY <1>5
    <3>2. try' = [try EXCEPT !.osr = n]
      BY <2>2, <3>1, Zenon
    <3>3. try' \in Tries /\ try'.flags = try.flags /\ try'.osr = n
      BY <1>1, <3>2 DEF Tries
    <3>4. n >= try.osr /\ n <= MaxOsr
      BY <1>5, <2>2, <3>1, CollectorAssumption
    <3>5. QED
      BY <3>3, <3>4
  <2>3. QED
    BY <1>3, <2>1, <2>2
<1>7. \/ pc = "startup_reset" /\ pc' \in { "startup_reset", "startup_alloc" }
      \/ pc = "read_reset" /\ pc' \in { "read_reset", "read_alloc" }
  BY <1>2, <1>3 DEF ResetTested
<1>8. QED
  BY <1>4, <1>6, <1>7 DEF ResetSelfTest

(* The startup goes on. *)
LEMMA StartupMovesEffect ==
  ASSUME Inv, StartupMoves
  PROVE  /\ pc \in StartupPlaces \ ResetPlaces
         /\ pc' \in StartupPlaces \ { "startup_alloc" }
         /\ \/ UNCHANGED randomVars /\ (pc' \in InnerPlaces => pc \in InnerPlaces)
                                    /\ (pc' # "startup_block" => stack = << >>)
            \/ Call /\ pc' = "startup_block"
         /\ \/ pc' = "startup_reset" /\ try' = NextTry /\ col.osr < MaxOsr
            \/ pc' # "startup_reset" /\ try' = try
         /\ \/ pc = "settick" /\ StartThread
            \/ pc \in { "startup", "startup_block" } /\ UNCHANGED timerVars
         /\ UNCHANGED << g, col, old, op, heap, hist >>
<1>1. Where
  BY DEF Inv
<1>2. CASE Settick
  BY <1>1, <1>2 DEF Settick, Where, StartupPlaces, ResetPlaces, InnerPlaces
<1>3. CASE StartupCall
  BY <1>3 DEF StartupCall, StartupPlaces, ResetPlaces
<1>4. CASE StartupNeedsReset
  BY <1>4 DEF StartupNeedsReset, StartupPlaces, ResetPlaces, InnerPlaces
<1>5. CASE StartupRepeats
  BY <1>5 DEF StartupRepeats, StartupPlaces, ResetPlaces, InnerPlaces
<1>6. QED
  BY <1>2, <1>3, <1>4, <1>5 DEF StartupMoves

(* A read goes on, or needs a reset. *)
LEMMA ReadMovesEffect ==
  ASSUME Inv, ReadMoves
  PROVE  /\ pc \in ReadPlaces \ ResetPlaces /\ pc' \in ReadPlaces \ { "read", "read_alloc" }
         /\ \/ UNCHANGED randomVars /\ pc' \notin InnerPlaces /\ stack = << >>
            \/ Call /\ pc' = "read_block"
         /\ \/ pc' = "read_reset" /\ try' = NextTry /\ col.osr < MaxOsr
               /\ rd.failure # {}
            \/ pc' # "read_reset" /\ try' = try
         /\ op' \in Operation /\ op'.left = op.left /\ op'.len = op.len
         /\ op'.safe = op.safe /\ (pc' = "read_block" => op'.todo > 0)
         /\ op.left = op.len
         /\ \/ pc = "read" /\ StartThread
            \/ pc \in { "block", "read_block" } /\ UNCHANGED timerVars
            \/ pc' = "read_reset" /\ StopThread
         /\ UNCHANGED << g, col, old, heap, hist >>
<1>1. Where /\ Operating /\ op \in Operation
  BY DEF Inv, LibraryTypes
<1>2. CASE ReadStarts
  <2>1. op' = [op EXCEPT !.todo = op.left]
    BY <1>2 DEF ReadStarts
  <2>2. op' \in Operation /\ op'.left = op.left /\ op'.len = op.len /\ op'.safe = op.safe
    BY <1>1, <2>1 DEF Operation
  <2>3. op.left = op.len /\ stack = << >>
    BY <1>1, <1>2 DEF ReadStarts, Operating, Where, InnerPlaces
  <2>4. QED
    BY <1>2, <2>2, <2>3 DEF ReadStarts, ReadPlaces, ResetPlaces, InnerPlaces
<1>3. CASE BlockCall
  BY <1>1, <1>3 DEF BlockCall, ReadPlaces, ResetPlaces, Operating
<1>4. CASE BlockCopied
  <2>1. op.todo > 0 /\ op.left = op.len
    BY <1>1, <1>4 DEF BlockCopied, Operating
  <2>2. PICK n \in Nat : n = op.todo - 1
    BY <1>1, <2>1 DEF Operation
  <2>3. op' = [op EXCEPT !.todo = n]
    BY <1>4, <2>2, Zenon DEF BlockCopied
  <2>4. op' \in Operation /\ op'.left = op.left /\ op'.len = op.len /\ op'.safe = op.safe
    BY <1>1, <2>3 DEF Operation
  <2>5. QED
    BY <1>4, <2>1, <2>4 DEF BlockCopied, ReadPlaces, ResetPlaces, InnerPlaces
<1>5. CASE ReadNeedsReset
  BY <1>1, <1>5 DEF ReadNeedsReset, ReadPlaces, ResetPlaces, InnerPlaces, Operating, Failing
<1>6. QED
  BY <1>2, <1>3, <1>4, <1>5 DEF ReadMoves

(* A read fails: nothing of it is counted. *)
LEMMA ReadAbortsEffect ==
  ASSUME Inv, ReadAborts
  PROVE  /\ pc \in ReadPlaces /\ stack = << >> /\ g' \in Globals
         /\ pc' = "idle" /\ op' = NoOp /\ op.left = op.len
         /\ try' \in { try, NoTry }
         /\ UNCHANGED timerVars \/ StopThread
         /\ UNCHANGED << randomVars, col, old, heap, hist >>
<1>1. Where /\ Operating /\ op \in Operation /\ g \in Globals
  BY DEF Inv, LibraryTypes
<1>2. CASE ReadSettickFails
  BY <1>1, <1>2 DEF ReadSettickFails, Operating, Operation, Where, ReadPlaces, InnerPlaces
<1>3. CASE ReadFails
  BY <1>1, <1>3 DEF ReadFails, Operating, ReadPlaces
<1>4. CASE ReadResetFails
  <2>1. PICK v \in EntropyInitEx(g, try.osr, try.flags) : g' = v.g
    BY <1>4 DEF ReadResetFails
  <2>2. g' \in Globals
    BY <1>1, <2>1, EntropyInitExTyped DEF Verdicts
  <2>3. QED
    BY <1>1, <1>4, <2>2 DEF ReadResetFails, Operating, ReadPlaces, Where, InnerPlaces
<1>5. QED
  BY <1>2, <1>3, <1>4 DEF ReadAborts

-----------------------------------------------------------------------------
(* The data of the collector. *)
LEMMA NoDataFields ==
  NoData \in RandomData /\ Between(NoData) /\ ~NoData.fips
<1>1. PICK b \in BOOLEAN : b = FALSE
  OBVIOUS
<1>2. NoData = [ osr |-> MinOsr, fips |-> b, ntg1 |-> b, startup |-> Completed,
                 ctr |-> 0, nosr |-> 0, count |-> 0, recovery |-> b, fresh |-> b,
                 failure |-> {} ]
  BY <1>1, Zenon DEF NoData, NewRandomData
<1>3. MinOsr \in Nat \ {0} /\ Completed \in 0 .. StartupWrap - 1
  BY CollectorAssumption, StartupValues
<1>4. QED
  BY <1>1, <1>2, <1>3 DEF RandomData, Between

(* With no call in progress the data lie between two calls. *)
LEMMA ShapeBetween ==
  ASSUME Shape, stack = << >> PROVE Between(rd)
BY StartupValues DEF Shape, Between

(* Between two calls one collector's data takes the place of another's. *)
LEMMA DataReplaced ==
  ASSUME DataInv, stack = << >>, UNCHANGED << stack, rounds >>,
         rd' \in RandomData, Between(rd'), sampled' \in SUBSET Stages, Sampling'
  PROVE  DataInv'
<1>1. stack' = << >> /\ Len(stack') = 0 /\ stack' \in Seq(StackFrame)
      /\ rounds' \in Nat
  BY DEF DataInv, DataTypes
<1>2. Shape'
  BY <1>1, StartupValues DEF Shape, Between
<1>3. Timing'
  BY <1>1 DEF Timing
<1>4. DataTypes'
  BY <1>1 DEF DataTypes
<1>5. QED
  BY <1>2, <1>3, <1>4 DEF DataInv

(* A new collector: its data lie between two calls, with nothing sampled. *)
LEMMA FreshBetween ==
  ASSUME NEW c \in Collector, c.osr # 0, NEW from \in RandomData,
         NEW d \in { Fresh(c), WithCount(Fresh(c), from) }
  PROVE  d \in RandomData /\ Between(d) /\ (d.fips => d.startup = Memory)
<1> DEFINE e == Fresh(c)
<1>1. e \in RandomData /\ ~e.recovery /\ e.startup = IF e.fips THEN Memory ELSE Completed
  BY FreshFields
<1>2. d = e \/ d = WithCount(e, from)
  OBVIOUS
<1> HIDE DEF e
<1>3. /\ d \in RandomData /\ d.fips = e.fips /\ d.startup = e.startup
      /\ d.recovery = e.recovery
  BY <1>1, <1>2, WithCountFields DEF Lasting
<1>4. QED
  BY <1>1, <1>3 DEF Between

(* All the steps of jent_random_data together. *)
LEMMA RandomDataStepKeepsData ==
  ASSUME DataInv, RandomDataStep
  PROVE  /\ DataInv' /\ Lasting(rd, rd') /\ pc \in InnerPlaces
         /\ Len(stack') < Len(stack) =>
              stack[1].good >= Nosr(rd) \/ Failing(rd')
         /\ UNCHANGED << baseVars, thread >>
<1>1. pc \in InnerPlaces /\ UNCHANGED << baseVars, thread >>
  BY DEF RandomDataStep, InnerPlaces
<1>2. rd \in RandomData
  BY DEF DataInv, DataTypes
<1>3. ASSUME NEW stuck \in BOOLEAN, NEW alarm \in Alarms(rd), Measure(stuck, alarm)
      PROVE  DataInv' /\ Lasting(rd, rd') /\ ~(Len(stack') < Len(stack))
  <2>1. alarm \in SUBSET Failures
    BY DEF Alarms, Failures
  <2>2. DataInv' /\ Lasting(rd, rd') /\ Len(stack') >= Len(stack)
    BY <1>3, <2>1, MeasureKeepsData
  <2>3. Len(stack) \in Nat /\ Len(stack') \in Nat
    BY <2>2, LenProperties DEF DataInv, DataTypes
  <2>4. QED
    BY <2>2, <2>3
<1>4. CASE MemoryStageEnds
  <2>1. DataInv' /\ Lasting(rd, rd') /\ Len(stack') = Len(stack)
    BY <1>4, MemoryStageEndsKeepsData
  <2>2. Len(stack) \in Nat
    BY LenProperties DEF DataInv, DataTypes
  <2>3. QED
    BY <1>1, <2>1, <2>2
<1>5. CASE RecoveryContinues
  <2>1. DataInv' /\ Lasting(rd, rd') /\ Len(stack') = Len(stack)
    BY <1>5, RecoveryContinuesKeepsData
  <2>2. Len(stack) \in Nat
    BY LenProperties DEF DataInv, DataTypes
  <2>3. QED
    BY <1>1, <2>1, <2>2
<1>6. CASE RecoveryEnds
  BY <1>1, <1>6, RecoveryEndsKeepsData
<1>7. CASE CallReturns
  BY <1>1, <1>7, CallReturnsKeepsData
<1>8. \/ \E stuck \in BOOLEAN, alarm \in Alarms(rd) : Measure(stuck, alarm)
      \/ MemoryStageEnds \/ RecoveryContinues \/ RecoveryEnds \/ CallReturns
  BY DEF RandomDataStep
<1>9. QED
  BY <1>1, <1>3, <1>4, <1>5, <1>6, <1>7, <1>8

(* Every step of the library keeps the data invariant. *)
LEMMA StepKeepsData ==
  ASSUME Inv, Step
  PROVE  DataInv'
<1>1. DataInv /\ DataTypes /\ Shape /\ Sampling /\ Replacing /\ rd \in RandomData
      /\ old \in Replaced \cup {None} /\ Where /\ sampled \in SUBSET Stages
  BY DEF Inv, DataInv, DataTypes, LibraryTypes
<1>2. CASE UNCHANGED randomVars
  BY <1>1, <1>2 DEF DataInv, DataTypes, Shape, Timing, Sampling, randomVars
<1>3. CASE Call
  BY <1>1, <1>3, CallKeepsData
<1>4. CASE RandomDataStep
  BY <1>1, <1>4, RandomDataStepKeepsData
<1>5. ASSUME stack = << >>, UNCHANGED << stack, rounds >>,
             rd' = NoData, sampled' = {}
      PROVE  DataInv'
  <2>1. Sampling'
    BY <1>5, NoDataFields DEF Sampling
  <2>2. QED
    BY <1>1, <1>5, <2>1, NoDataFields, DataReplaced
<1>6. ASSUME stack = << >>, UNCHANGED << stack, rounds >>, sampled' = {},
             NEW c \in Collector, c.osr # 0,
             rd' \in { Fresh(c), WithCount(Fresh(c), rd) }
      PROVE  DataInv'
  <2>1. rd' \in RandomData /\ Between(rd') /\ (rd'.fips => rd'.startup = Memory)
    BY <1>1, <1>6, FreshBetween
  <2>2. Sampling'
    BY <1>6, <2>1 DEF Sampling
  <2>3. QED
    BY <1>1, <1>6, <2>1, <2>2, DataReplaced
<1>7. ASSUME NEW f \in Flags, CollectorAlloc(MinOsr, f) PROVE DataInv'
  <2>1. /\ pc = "idle" /\ UNCHANGED << stack, rounds >>
        /\ \/ UNCHANGED << rd, sampled >>
           \/ /\ col' \in Collector /\ col'.osr # 0 /\ rd' = Fresh(col')
              /\ sampled' = {}
    BY <1>7, CollectorAllocEffect
  <2>2. stack = << >>
    BY <1>1, <2>1 DEF Where, InnerPlaces
  <2>3. QED
    BY <1>2, <1>6, <2>1, <2>2 DEF randomVars
<1>8. CASE CollectorFreeCall
  BY <1>5, <1>8, CollectorFreeCallEffect
<1>9. CASE StartupAborts
  <2>1. /\ stack = << >> /\ UNCHANGED << stack, rounds >>
        /\ \/ old = None /\ rd' = NoData /\ sampled' = {}
           \/ old # None /\ rd' = old.rd /\ sampled' = old.sampled
    BY <1>9, StartupAbortsEffect
  <2>2. CASE old # None /\ rd' = old.rd /\ sampled' = old.sampled
    <3>1. rd' \in RandomData /\ Between(rd') /\ rd'.failure # {}
          /\ sampled' \in SUBSET Stages
      BY <1>1, <2>2, NotNone DEF Replacing
    <3>2. Sampling'
      BY <3>1 DEF Sampling
    <3>3. QED
      BY <1>1, <2>1, <3>1, <3>2, DataReplaced
  <2>3. QED
    BY <1>5, <2>1, <2>2
<1>10. CASE StartupEnds
  <2>1. /\ stack = << >> /\ UNCHANGED << stack, rounds, sampled >>
        /\ \/ rd' = rd
           \/ old \in Replaced /\ rd' = WithCount(rd, old.rd)
    BY <1>10, StartupEndsEffect
  <2>2. CASE old \in Replaced /\ rd' = WithCount(rd, old.rd)
    <3>1. /\ rd' \in RandomData /\ Lasting(rd, rd') /\ rd'.failure = rd.failure
          /\ rd'.startup = rd.startup /\ rd'.recovery = rd.recovery
      BY <1>1, <2>2, NotNone, WithCountFields
    <3>2. Between(rd')
      BY <1>1, <2>1, <3>1, ShapeBetween DEF Between
    <3>3. Sampling'
      BY <1>1, <2>1, <3>1 DEF Sampling, Lasting
    <3>4. QED
      BY <1>1, <2>1, <3>1, <3>2, <3>3, DataReplaced
  <2>3. QED
    BY <1>2, <2>1, <2>2 DEF randomVars
<1>11. CASE StartupResetAlloc
  <2>1. /\ stack = << >> /\ UNCHANGED << stack, rounds >> /\ sampled' = {}
        /\ col' \in Collector /\ col'.osr # 0 /\ rd' = WithCount(Fresh(col'), rd)
    BY <1>11, StartupResetAllocEffect
  <2>2. QED
    BY <1>6, <2>1
<1>12. CASE ReadResetAlloc
  <2>1. /\ stack = << >> /\ UNCHANGED << stack, rounds >>
        /\ \/ UNCHANGED << rd, sampled >>
           \/ /\ col' \in Collector /\ col'.osr # 0 /\ rd' = Fresh(col')
              /\ sampled' = {}
    BY <1>12, ReadResetAllocEffect
  <2>2. QED
    BY <1>2, <1>6, <2>1 DEF randomVars
<1>13. CASE StartupMoves
  BY <1>2, <1>3, <1>13, StartupMovesEffect
<1>14. CASE ReadMoves
  BY <1>2, <1>3, <1>14, ReadMovesEffect
<1>15. CASE ReadAborts
  BY <1>2, <1>15, ReadAbortsEffect
<1>16. CASE ThreadStep \/ UNCHANGED vars \/ ReadSafeReturns \/ ReadDelivers \/ ResetSelfTest
  BY <1>2, <1>16 DEF ThreadStep, ThreadBegins, ThreadTicks, vars, ReadSafeReturns,
     ReadDelivers, ResetSelfTest
<1>17. ASSUME NEW f \in Flags, EntropyInit(MinOsr, f) PROVE DataInv'
  BY <1>2, <1>17 DEF EntropyInit
<1>18. ASSUME NEW len \in Lengths, NEW safe \in BOOLEAN, ReadCall(len, safe)
       PROVE  DataInv'
  BY <1>2, <1>18 DEF ReadCall
<1>19. QED
  BY <1>4, <1>7, <1>8, <1>9, <1>10, <1>11, <1>12, <1>13, <1>14, <1>15, <1>16, <1>17,
     <1>18, Zenon DEF Step

-----------------------------------------------------------------------------
(* The rest of the library's state, one conjunct of the invariant after the
   other. *)
LEMMA NoValues ==
  NoOp \in Operation /\ NoTry \in Tries /\ NoOp.left = 0 /\ NoOp.len = 0
BY DEF NoOp, Operation, NoTry, Tries

(* The next rung is typed. *)
LEMMA NextTryTyped == ASSUME col \in Collector PROVE NextTry \in Tries
<1>1. NextTry.osr = col.osr + 1 /\ NextTry.flags \in Flag
  BY NextTryFields
<1>2. NextTry.osr \in Nat
  BY <1>1 DEF Collector
<1>3. NextTry = [osr |-> NextTry.osr, flags |-> NextTry.flags]
  BY Zenon DEF NextTry
<1>4. QED
  BY <1>1, <1>2, <1>3 DEF Tries

(* The thread is started, stopped or left alone. *)
LEMMA TimerTyped ==
  ASSUME thread \in { "off", "starting", "counting" }, ticked \in BOOLEAN,
         UNCHANGED timerVars \/ StartThread \/ StopThread
  PROVE  thread' \in { "off", "starting", "counting" } /\ ticked' \in BOOLEAN
BY DEF timerVars, StartThread, StopThread

(* Types. *)
LEMMA StepKeepsTypes ==
  ASSUME Inv, Step
  PROVE  LibraryTypes'
<1>1. LibraryTypes /\ Where
  BY DEF Inv
<1>2. NoOp \in Operation /\ NoTry \in Tries
  BY NoValues
<1>3. pc \in StartupPlaces \cup ReadPlaces => col \in Collector
  BY <1>1 DEF LibraryTypes, Where, StartupPlaces, ReadPlaces
<1>4. col \in Collector => NextTry \in Tries
  BY NextTryTyped
<1>5. UNCHANGED timerVars \/ StartThread \/ StopThread =>
        thread' \in { "off", "starting", "counting" } /\ ticked' \in BOOLEAN
  BY <1>1, TimerTyped DEF LibraryTypes
<1>6. ASSUME NEW f \in Flags, EntropyInit(MinOsr, f) PROVE LibraryTypes'
  BY <1>1, <1>5, <1>6, EntropyInitEffect DEF LibraryTypes
<1>7. ASSUME NEW f \in Flags, CollectorAlloc(MinOsr, f) PROVE LibraryTypes'
  <2>1. /\ pc = "idle" /\ col = None /\ g' \in Globals /\ hist' \in History
        /\ UNCHANGED << timerVars, old, op, try >>
        /\ \/ col' = None /\ heap' = heap /\ UNCHANGED pc
           \/ col' \in Collector /\ heap' = Plus(heap, Owns(col')) /\ pc' = "settick"
    BY <1>7, CollectorAllocEffect
  <2>2. heap' \in Heaps
    BY <1>1, <2>1, OwnsTyped, HeapSums DEF LibraryTypes
  <2>3. QED
    BY <1>1, <1>5, <2>1, <2>2 DEF LibraryTypes, StartupPlaces
<1>8. CASE CollectorFreeCall
  <2>1. CollectorFree(heap, Owns(col)) \in Heaps
    BY <1>1, OwnsTyped DEF LibraryTypes, Heaps, CollectorFree
  <2>2. QED
    BY <1>1, <1>5, <1>8, <2>1, CollectorFreeCallEffect DEF LibraryTypes
<1>9. ASSUME NEW len \in Lengths, NEW safe \in BOOLEAN, ReadCall(len, safe)
      PROVE  LibraryTypes'
  BY <1>1, <1>5, <1>9, ReadCallEffect DEF LibraryTypes, ReadPlaces
<1>10. CASE StartupMoves
  BY <1>1, <1>3, <1>4, <1>5, <1>10, StartupMovesEffect DEF LibraryTypes
<1>11. CASE StartupAborts
  <2>1. CollectorFree(heap, Owns(col)) \in Heaps
    BY <1>1, OwnsTyped DEF LibraryTypes, Heaps, CollectorFree
  <2>2. old # None => old.col \in Collector
    BY <1>1, NotNone DEF LibraryTypes
  <2>3. /\ g' \in Globals /\ hist' = hist /\ heap' = CollectorFree(heap, Owns(col))
        /\ col' = None \/ (old # None /\ col' = old.col)
        /\ old' = None /\ pc' = "idle" /\ op' = NoOp /\ try' = NoTry
        /\ thread' = "off" /\ ticked' = FALSE
    BY <1>11, StartupAbortsEffect
  <2>4. QED
    BY <1>1, <1>2, <1>5, <2>1, <2>2, <2>3 DEF LibraryTypes, StopThread
<1>12. CASE StartupEnds
  <2>1. old # None => CollectorFree(heap, Owns(old.col)) \in Heaps
    BY <1>1, OwnsTyped DEF LibraryTypes, Heaps, CollectorFree
  <2>2. /\ col' \in Collector /\ hist' \in History /\ g' = g /\ op' = op
        /\ pc' \in { "idle", "read" }
        /\ \/ heap' = heap
           \/ old \in Replaced /\ heap' = CollectorFree(heap, Owns(old.col))
        /\ old' = None /\ try' = NoTry /\ thread' = "off" /\ ticked' = FALSE
    BY <1>12, StartupEndsEffect
  <2>3. heap' \in Heaps
    BY <1>1, <2>1, <2>2, NotNone DEF LibraryTypes
  <2>4. QED
    BY <1>1, <1>2, <1>5, <2>2, <2>3 DEF LibraryTypes, StopThread, ReadPlaces
<1>13. CASE StartupResetAlloc
  <2>1. /\ col' \in Collector /\ g' \in Globals
        /\ heap' = CollectorFree(Plus(heap, Owns(col')), Owns(col))
        /\ pc' = "settick" /\ thread' = "off" /\ ticked' = FALSE
        /\ UNCHANGED << old, op, try, hist >>
    BY <1>13, StartupResetAllocEffect
  <2>2. heap' \in Heaps
    BY <1>1, <2>1, OwnsTyped DEF LibraryTypes, Heaps, CollectorFree, Plus
  <2>3. QED
    BY <1>1, <1>5, <2>1, <2>2 DEF LibraryTypes, StopThread, StartupPlaces
<1>14. CASE ReadMoves
  BY <1>1, <1>3, <1>4, <1>5, <1>14, ReadMovesEffect DEF LibraryTypes
<1>15. CASE ReadAborts
  BY <1>1, <1>2, <1>5, <1>15, ReadAbortsEffect DEF LibraryTypes
<1>16. CASE ReadResetAlloc
  <2>1. /\ g' \in Globals /\ UNCHANGED << timerVars, hist >>
        /\ \/ /\ heap' = heap /\ pc' = "idle" /\ op' = NoOp /\ try' = NoTry
              /\ UNCHANGED << col, old >>
           \/ /\ col' \in Collector /\ heap' = Plus(heap, Owns(col'))
              /\ old' \in Replaced /\ pc' = "settick" /\ UNCHANGED << op, try >>
    BY <1>16, ReadResetAllocEffect
  <2>2. heap' \in Heaps
    BY <1>1, <2>1, OwnsTyped, HeapSums DEF LibraryTypes
  <2>3. QED
    BY <1>1, <1>2, <1>5, <2>1, <2>2 DEF LibraryTypes, StartupPlaces
<1>17. CASE ReadSafeReturns
  BY <1>1, <1>2, <1>5, <1>17, ReadSafeReturnsEffect DEF LibraryTypes
<1>18. CASE ReadDelivers
  BY <1>1, <1>2, <1>5, <1>18, ReadDeliversEffect DEF LibraryTypes, ReadPlaces, StopThread
<1>19. CASE ResetSelfTest
  BY <1>1, <1>5, <1>19, ResetSelfTestEffect DEF LibraryTypes, StartupPlaces, ReadPlaces
<1>20. CASE RandomDataStep
  <2>1. ticked' \in BOOLEAN
    BY <1>1, <1>20 DEF RandomDataStep, LibraryTypes
  <2>2. UNCHANGED << baseVars, thread >>
    BY <1>20 DEF RandomDataStep
  <2>3. QED
    BY <1>1, <2>1, <2>2 DEF LibraryTypes, baseVars
<1>21. CASE ThreadStep
  BY <1>1, <1>21 DEF ThreadStep, ThreadBegins, ThreadTicks, LibraryTypes, baseVars
<1>22. CASE UNCHANGED vars
  BY <1>1, <1>5, <1>22 DEF LibraryTypes, vars, baseVars
<1>23. QED
  BY <1>6, <1>7, <1>8, <1>9, <1>10, <1>11, <1>12, <1>13, <1>14, <1>15, <1>16, <1>17,
     <1>18, <1>19, <1>20, <1>21, <1>22, Zenon DEF Step

(* Places. *)
LEMMA StepKeepsWhere ==
  ASSUME Inv, Step
  PROVE  Where'
<1>1. Where /\ DataInv /\ (\A c \in Collector : c # None)
  BY NotNone DEF Inv
<1> USE DEF Where, StartupPlaces, ReadPlaces, InnerPlaces, ResetPlaces
<1>2. ASSUME NEW f \in Flags, EntropyInit(MinOsr, f) PROVE Where'
  BY <1>1, <1>2, EntropyInitEffect DEF randomVars
<1>3. ASSUME NEW f \in Flags, CollectorAlloc(MinOsr, f) PROVE Where'
  BY <1>1, <1>3, CollectorAllocEffect
<1>4. CASE CollectorFreeCall
  BY <1>1, <1>4, CollectorFreeCallEffect
<1>5. ASSUME NEW len \in Lengths, NEW safe \in BOOLEAN, ReadCall(len, safe)
      PROVE  Where'
  BY <1>1, <1>5, ReadCallEffect DEF randomVars
<1>6. CASE StartupMoves
  BY <1>1, <1>6, StartupMovesEffect DEF randomVars
<1>7. CASE StartupAborts
  BY <1>1, <1>7, StartupAbortsEffect
<1>8. CASE StartupEnds
  BY <1>1, <1>8, StartupEndsEffect
<1>9. CASE StartupResetAlloc
  BY <1>1, <1>9, StartupResetAllocEffect
<1>10. CASE ReadMoves
  BY <1>1, <1>10, ReadMovesEffect DEF randomVars
<1>11. CASE ReadAborts
  BY <1>1, <1>11, ReadAbortsEffect DEF randomVars
<1>12. CASE ReadResetAlloc
  BY <1>1, <1>12, ReadResetAllocEffect
<1>13. CASE ReadSafeReturns
  BY <1>1, <1>13, ReadSafeReturnsEffect DEF randomVars
<1>14. CASE ReadDelivers
  BY <1>1, <1>14, ReadDeliversEffect DEF randomVars
<1>15. CASE ResetSelfTest
  BY <1>1, <1>15, ResetSelfTestEffect DEF randomVars
<1>16. CASE RandomDataStep
  BY <1>1, <1>16, RandomDataStepKeepsData DEF baseVars
<1>17. CASE ThreadStep
  BY <1>1, <1>17 DEF ThreadStep, ThreadBegins, ThreadTicks, randomVars, baseVars
<1>18. CASE UNCHANGED vars
  BY <1>1, <1>18 DEF vars, randomVars, baseVars
<1>19. QED
  BY <1>2, <1>3, <1>4, <1>5, <1>6, <1>7, <1>8, <1>9, <1>10, <1>11, <1>12, <1>13,
     <1>14, <1>15, <1>16, <1>17, <1>18, Zenon DEF Step

(* Objects: each way a collector comes or goes moves exactly its own. *)
LEMMA StepKeepsHeap ==
  ASSUME Inv, Step
  PROVE  HeapIsOwned'
<1>1. HeapIsOwned /\ Where /\ heap \in Heaps /\ old \in Replaced \cup {None}
      /\ col \in Collector \cup {None}
  BY DEF Inv, LibraryTypes
<1>2. /\ \A c \in Collector : c # None
      /\ \A c : Owns(c) \in Heaps
      /\ old # None => old.col \in Collector
  BY <1>1, OwnsTyped, NotNone
<1>3. NoHeap \in Heaps
  BY DEF NoHeap, Heaps
<1>4. CASE UNCHANGED << col, old, heap >>
  BY <1>1, <1>4 DEF HeapIsOwned
<1>5. ASSUME NEW f \in Flags, CollectorAlloc(MinOsr, f) PROVE HeapIsOwned'
  <2>1. /\ pc = "idle" /\ col = None /\ old' = old
        /\ \/ col' = None /\ heap' = heap
           \/ col' \in Collector /\ heap' = Plus(heap, Owns(col'))
    BY <1>5, CollectorAllocEffect
  <2>2. old = None
    BY <1>1, <2>1 DEF Where, StartupPlaces
  <2>3. heap = NoHeap
    BY <1>1, <1>3, <2>1, <2>2, HeapSums DEF HeapIsOwned, Owned
  <2>4. CASE col' = None /\ heap' = heap
    BY <1>4, <2>1, <2>4
  <2>5. CASE col' \in Collector /\ heap' = Plus(heap, Owns(col'))
    BY <1>2, <1>3, <2>1, <2>2, <2>3, <2>5, HeapSums DEF HeapIsOwned, Owned
  <2>6. QED
    BY <2>1, <2>4, <2>5
<1>6. CASE CollectorFreeCall
  <2>1. /\ col \in Collector /\ old = None /\ old' = None /\ col' = None
        /\ heap' = CollectorFree(heap, Owns(col))
    BY <1>6, CollectorFreeCallEffect
  <2>2. heap = Owns(col)
    BY <1>1, <1>2, <1>3, <2>1, HeapSums DEF HeapIsOwned, Owned
  <2>3. heap' = NoHeap /\ Plus(NoHeap, NoHeap) = NoHeap
    BY <1>2, <1>3, <2>1, <2>2, HeapSums
  <2>4. QED
    BY <2>1, <2>3 DEF HeapIsOwned, Owned
<1>7. CASE StartupAborts
  <2>1. /\ pc \in StartupPlaces /\ heap' = CollectorFree(heap, Owns(col)) /\ old' = None
        /\ \/ old = None /\ col' = None
           \/ old # None /\ col' = old.col
    BY <1>7, StartupAbortsEffect
  <2>2. col \in Collector
    BY <1>1, <2>1 DEF Where, StartupPlaces
  <2>3. CASE old = None
    <3>1. heap = Owns(col)
      BY <1>1, <1>2, <1>3, <2>2, <2>3, HeapSums DEF HeapIsOwned, Owned
    <3>2. heap' = NoHeap /\ Plus(NoHeap, NoHeap) = NoHeap
      BY <1>2, <1>3, <2>1, <3>1, HeapSums
    <3>3. QED
      BY <2>1, <2>3, <3>2 DEF HeapIsOwned, Owned
  <2>4. CASE old # None
    <3>1. heap = Plus(Owns(old.col), Owns(col))
      <4>1. heap = Plus(Owns(col), Owns(old.col))
        BY <1>1, <1>2, <2>2, <2>4 DEF HeapIsOwned, Owned
      <4>2. QED
        BY <1>2, <4>1, HeapSums
    <3>2. heap' = Owns(old.col) /\ Plus(Owns(old.col), NoHeap) = Owns(old.col)
      BY <1>2, <2>1, <3>1, HeapSums
    <3>3. QED
      BY <1>2, <2>1, <2>4, <3>2 DEF HeapIsOwned, Owned
  <2>5. QED
    BY <2>3, <2>4
<1>8. CASE StartupEnds
  <2>1. /\ col \in Collector /\ col' \in Collector /\ old' = None
        /\ col'.notime = col.notime /\ col'.flags = col.flags
        /\ \/ old = None /\ heap' = heap
           \/ old \in Replaced /\ heap' = CollectorFree(heap, Owns(old.col))
    BY <1>8, StartupEndsEffect
  <2>2. Owns(col') = Owns(col)
    BY <2>1, OwnsSame
  <2>3. CASE old = None /\ heap' = heap
    BY <1>1, <1>2, <2>1, <2>2, <2>3 DEF HeapIsOwned, Owned
  <2>4. CASE old \in Replaced /\ heap' = CollectorFree(heap, Owns(old.col))
    <3>1. heap = Plus(Owns(col), Owns(old.col))
      BY <1>1, <1>2, <2>1, <2>4, NotNone DEF HeapIsOwned, Owned
    <3>2. heap' = Owns(col) /\ Plus(Owns(col), NoHeap) = Owns(col)
      BY <1>2, <2>4, <3>1, HeapSums
    <3>3. QED
      BY <1>2, <2>1, <2>2, <3>2 DEF HeapIsOwned, Owned
  <2>5. QED
    BY <2>1, <2>3, <2>4
<1>9. CASE StartupResetAlloc
  <2>1. /\ col \in Collector /\ col' \in Collector /\ old' = old
        /\ heap' = CollectorFree(Plus(heap, Owns(col')), Owns(col))
    BY <1>9, StartupResetAllocEffect
  <2> DEFINE rest == IF old = None THEN NoHeap ELSE Owns(old.col)
  <2>2. heap = Plus(Owns(col), rest) /\ rest \in Heaps
    BY <1>1, <1>2, <1>3, <2>1 DEF HeapIsOwned, Owned
  <2>3. (Plus(Owned(col), rest))' = Plus(Owns(col'), rest)
    BY <1>2, <2>1 DEF Owned
  <2> HIDE DEF rest
  <2>4. heap' = Plus(Owns(col'), rest)
    BY <1>2, <2>1, <2>2, HeapMoves
  <2>5. QED
    BY <2>3, <2>4 DEF HeapIsOwned, rest
<1>10. CASE ReadResetAlloc
  <2>1. /\ col \in Collector /\ old = None
        /\ \/ UNCHANGED << heap, col, old >>
           \/ /\ col' \in Collector /\ heap' = Plus(heap, Owns(col'))
              /\ old' \in Replaced /\ old'.col = col
    BY <1>10, ReadResetAllocEffect
  <2>2. CASE /\ col' \in Collector /\ heap' = Plus(heap, Owns(col'))
             /\ old' \in Replaced /\ old'.col = col
    <3>1. heap = Owns(col)
      BY <1>1, <1>2, <1>3, <2>1, HeapSums DEF HeapIsOwned, Owned
    <3>2. heap' = Plus(Owns(col'), Owns(col))
      BY <1>2, <2>2, <3>1, HeapSums
    <3>3. QED
      BY <1>2, <2>2, <3>2, NotNone DEF HeapIsOwned, Owned
  <2>3. QED
    BY <1>4, <2>1, <2>2
<1>11. CASE ReadDelivers
  <2>1. /\ col \in Collector /\ col' \in Collector /\ UNCHANGED << old, heap >>
        /\ col'.notime = col.notime /\ col'.flags = col.flags
    BY <1>11, ReadDeliversEffect
  <2>2. Owns(col') = Owns(col)
    BY <2>1, OwnsSame
  <2>3. QED
    BY <1>1, <1>2, <2>1, <2>2 DEF HeapIsOwned, Owned
<1>12. ASSUME NEW f \in Flags, EntropyInit(MinOsr, f) PROVE HeapIsOwned'
  BY <1>4, <1>12, EntropyInitEffect
<1>13. ASSUME NEW len \in Lengths, NEW safe \in BOOLEAN, ReadCall(len, safe)
       PROVE  HeapIsOwned'
  BY <1>4, <1>13, ReadCallEffect
<1>14. CASE StartupMoves
  BY <1>4, <1>14, StartupMovesEffect
<1>15. CASE ReadMoves
  BY <1>4, <1>15, ReadMovesEffect
<1>16. CASE ReadAborts
  BY <1>4, <1>16, ReadAbortsEffect
<1>17. CASE ReadSafeReturns
  BY <1>4, <1>17, ReadSafeReturnsEffect
<1>18. CASE ResetSelfTest
  BY <1>4, <1>18, ResetSelfTestEffect
<1>19. CASE RandomDataStep \/ ThreadStep \/ UNCHANGED vars
  BY <1>4, <1>19 DEF RandomDataStep, ThreadStep, ThreadBegins, ThreadTicks, vars, baseVars
<1>20. QED
  BY <1>5, <1>6, <1>7, <1>8, <1>9, <1>10, <1>11, <1>12, <1>13, <1>14, <1>15, <1>16,
     <1>17, <1>18, <1>19, Zenon DEF Step

(* The read. *)
LEMMA StepKeepsOperating ==
  ASSUME Inv, Step
  PROVE  Operating'
<1>1. Operating /\ Where /\ op \in Operation /\ NoOp.left = NoOp.len
  BY NoValues DEF Inv, LibraryTypes
<1> USE DEF Operating, StartupPlaces, ReadPlaces, InnerPlaces, ResetPlaces
<1>2. ASSUME NEW f \in Flags, EntropyInit(MinOsr, f) PROVE Operating'
  BY <1>1, <1>2, EntropyInitEffect
<1>3. ASSUME NEW f \in Flags, CollectorAlloc(MinOsr, f) PROVE Operating'
  BY <1>1, <1>3, CollectorAllocEffect
<1>4. CASE CollectorFreeCall
  BY <1>1, <1>4, CollectorFreeCallEffect
<1>5. ASSUME NEW len \in Lengths, NEW safe \in BOOLEAN, ReadCall(len, safe)
      PROVE  Operating'
  BY <1>1, <1>5, ReadCallEffect
<1>6. CASE StartupMoves
  BY <1>1, <1>6, StartupMovesEffect
<1>7. CASE StartupAborts
  BY <1>1, <1>7, StartupAbortsEffect
<1>8. CASE StartupEnds
  BY <1>1, <1>8, StartupEndsEffect
<1>9. CASE StartupResetAlloc
  BY <1>1, <1>9, StartupResetAllocEffect
<1>10. CASE ReadMoves
  BY <1>1, <1>10, ReadMovesEffect
<1>11. CASE ReadAborts
  BY <1>1, <1>11, ReadAbortsEffect
<1>12. CASE ReadResetAlloc
  BY <1>1, <1>12, ReadResetAllocEffect, NotNone
<1>13. CASE ReadSafeReturns
  BY <1>1, <1>13, ReadSafeReturnsEffect
<1>14. CASE ReadDelivers
  BY <1>1, <1>14, ReadDeliversEffect
<1>15. CASE ResetSelfTest
  BY <1>1, <1>15, ResetSelfTestEffect
<1>16. CASE RandomDataStep \/ ThreadStep
  BY <1>1, <1>16 DEF RandomDataStep, ThreadStep, ThreadBegins, ThreadTicks, baseVars
<1>17. CASE UNCHANGED vars
  BY <1>1, <1>17 DEF vars, baseVars
<1>18. QED
  BY <1>2, <1>3, <1>4, <1>5, <1>6, <1>7, <1>8, <1>9, <1>10, <1>11, <1>12, <1>13,
     <1>14, <1>15, <1>16, <1>17, Zenon DEF Step

(* Counters and identity: what one collector has counted the next one takes over. *)
LEMMA StepKeepsAccount ==
  ASSUME Inv, Step
  PROVE  Account'
<1>1. /\ Account /\ Operating /\ Where /\ op \in Operation /\ hist \in History
      /\ col \in Collector \cup {None} /\ old \in Replaced \cup {None}
  BY DEF Inv, LibraryTypes
<1>2. /\ \A c \in Collector : c # None /\ c.bytes \in Nat
      /\ \A r \in Replaced : r # None /\ r.col \in Collector
      /\ NoOp.left = 0 /\ NoOp.len = 0
  BY NotNone, NoValues DEF Collector
<1>3. /\ op.left \in Nat /\ op.len \in Nat /\ hist.bytes \in Nat
  BY <1>1 DEF Operation, History
<1> USE DEF Account, Handle, StartupPlaces, ReadPlaces, ResetPlaces
<1>4. CASE /\ UNCHANGED << col, old, hist, op >>
           /\ pc \in StartupPlaces => pc' \in StartupPlaces
  BY <1>1, <1>4
<1>5. ASSUME NEW f \in Flags, EntropyInit(MinOsr, f) PROVE Account'
  BY <1>1, <1>5, EntropyInitEffect
<1>6. ASSUME NEW f \in Flags, CollectorAlloc(MinOsr, f) PROVE Account'
  <2>1. old = None /\ op.left = op.len
    BY <1>1, <1>6, CollectorAllocEffect DEF Where, Operating
  <2>2. QED
    BY <1>2, <1>3, <1>6, <2>1, CollectorAllocEffect
<1>7. CASE CollectorFreeCall
  BY <1>7, CollectorFreeCallEffect
<1>8. ASSUME NEW len \in Lengths, NEW safe \in BOOLEAN, ReadCall(len, safe)
      PROVE  Account'
  <2>1. op.left = op.len /\ pc = "idle" /\ old = None
    BY <1>1, <1>2, <1>8, ReadCallEffect DEF Operating, Where
  <2>2. op' \in Operation /\ op'.left = op'.len
    BY <1>8, ReadCallEffect
  <2>3. op'.len - op'.left = op.len - op.left
    BY <1>3, <2>1, <2>2 DEF Operation
  <2>4. QED
    BY <1>1, <1>8, <2>1, <2>3, ReadCallEffect
<1>9. CASE StartupMoves
  BY <1>4, <1>9, StartupMovesEffect
<1>10. CASE StartupAborts
  <2>1. op.left = op.len
    BY <1>1, <1>10, StartupAbortsEffect DEF Operating
  <2>2. CASE old = None
    BY <1>10, <2>2, StartupAbortsEffect
  <2>3. CASE old # None
    <3>1. /\ col' = old.col /\ old' = None /\ op' = NoOp /\ hist' = hist
          /\ col # None
      BY <1>1, <1>10, <2>3, StartupAbortsEffect DEF Where
    <3>2. old.col.bytes = hist.bytes /\ old.col.uuid = hist.uuid
      BY <1>1, <1>2, <1>3, <2>1, <2>3, <3>1
    <3>3. QED
      BY <1>2, <1>3, <3>1, <3>2
  <2>4. QED
    BY <2>2, <2>3
<1>11. CASE StartupEnds
  <2>1. op.left = op.len /\ col # None
    BY <1>1, <1>2, <1>11, StartupEndsEffect DEF Operating
  <2>2. CASE old = None
    <3>1. col.bytes = hist.bytes
      BY <1>1, <1>2, <1>3, <2>1, <2>2
    <3>2. QED
      BY <1>2, <1>3, <1>11, <2>1, <2>2, <3>1, StartupEndsEffect
  <2>3. CASE old \in Replaced
    <3>1. old.col.bytes = hist.bytes /\ old.col.uuid = hist.uuid
      BY <1>1, <1>2, <1>3, <2>1, <2>3
    <3>2. QED
      BY <1>2, <1>3, <1>11, <2>1, <2>3, <3>1, StartupEndsEffect
  <2>4. QED
    BY <1>1, <2>2, <2>3
<1>12. CASE StartupResetAlloc
  BY <1>1, <1>2, <1>12, StartupResetAllocEffect
<1>13. CASE ReadMoves
  <2>1. /\ UNCHANGED << col, old, hist >> /\ op'.left = op.left /\ op'.len = op.len
        /\ pc \in ReadPlaces
    BY <1>13, ReadMovesEffect
  <2>2. QED
    BY <1>1, <2>1
<1>14. CASE ReadAborts
  BY <1>1, <1>2, <1>3, <1>14, ReadAbortsEffect
<1>15. CASE ReadResetAlloc
  <2>1. /\ pc = "read_alloc" /\ col # None /\ old = None /\ op.left = op.len
    BY <1>1, <1>2, <1>15, ReadResetAllocEffect DEF Operating
  <2>2. QED
    BY <1>1, <1>2, <1>3, <1>15, <2>1, ReadResetAllocEffect
<1>16. CASE ReadSafeReturns
  BY <1>1, <1>2, <1>3, <1>16, ReadSafeReturnsEffect
<1>17. CASE ReadDelivers
  <2>1. /\ pc = "block" /\ col # None /\ old = None /\ op.left = op.len
    BY <1>1, <1>2, <1>17, ReadDeliversEffect DEF Operating
  <2>2. col.bytes = hist.bytes /\ col.uuid = hist.uuid
    BY <1>1, <1>2, <1>3, <2>1
  <2>3. QED
    BY <1>2, <1>3, <1>17, <2>1, <2>2, ReadDeliversEffect
<1>18. CASE ResetSelfTest
  BY <1>4, <1>18, ResetSelfTestEffect
<1>19. CASE RandomDataStep \/ ThreadStep \/ UNCHANGED vars
  BY <1>4, <1>19 DEF RandomDataStep, ThreadStep, ThreadBegins, ThreadTicks, vars, baseVars
<1>20. QED
  BY <1>5, <1>6, <1>7, <1>8, <1>9, <1>10, <1>11, <1>12, <1>13, <1>14, <1>15, <1>16,
     <1>17, <1>18, <1>19, Zenon DEF Step

(* The limit: resets neither lift it nor forget that it is there. *)
LEMMA StepKeepsCap ==
  ASSUME Inv, Step
  PROVE  Cap'
<1>1. /\ Cap /\ Where /\ hist \in History
      /\ col \in Collector \cup {None} /\ old \in Replaced \cup {None}
  BY DEF Inv, LibraryTypes
<1>2. /\ \A c \in Collector : c # None
      /\ \A r \in Replaced : r # None /\ r.col \in Collector
  BY NotNone
<1> USE DEF Cap, Capped, StartupPlaces, ReadPlaces, ResetPlaces
<1>3. CASE /\ UNCHANGED << col, old, try >> /\ hist'.cap = hist.cap
           /\ pc' \in ResetPlaces => pc \in ResetPlaces
  BY <1>1, <1>3
<1>4. CASE /\ UNCHANGED << col, old >> /\ hist'.cap = hist.cap
           /\ pc' \notin ResetPlaces
  BY <1>1, <1>4
<1>5. ASSUME NEW f \in Flags, EntropyInit(MinOsr, f) PROVE Cap'
  BY <1>3, <1>5, EntropyInitEffect
<1>6. ASSUME NEW f \in Flags, CollectorAlloc(MinOsr, f) PROVE Cap'
  <2>1. old = None /\ f.mem \in Nat
    BY <1>1, <1>6, CollectorAllocEffect, CollectorAssumption DEF Where, Flag
  <2>2. QED
    BY <1>6, <2>1, CollectorAllocEffect
<1>7. CASE CollectorFreeCall
  BY <1>7, CollectorFreeCallEffect
<1>8. ASSUME NEW len \in Lengths, NEW safe \in BOOLEAN, ReadCall(len, safe)
      PROVE  Cap'
  BY <1>3, <1>8, ReadCallEffect
<1>9. CASE StartupMoves
  <2>1. CASE pc' = "startup_reset" /\ try' = NextTry
    <3>1. col \in Collector
      BY <1>1, <1>9, StartupMovesEffect DEF Where
    <3>2. col.max_mem_set => try'.flags.mem = col.flags.mem
      BY <2>1, <3>1, NextTryFields
    <3>3. QED
      BY <1>1, <1>2, <1>9, <3>1, <3>2, StartupMovesEffect
  <2>2. CASE pc' # "startup_reset" /\ try' = try
    BY <1>4, <1>9, <2>2, StartupMovesEffect
  <2>3. QED
    BY <1>9, <2>1, <2>2, StartupMovesEffect
<1>10. CASE StartupAborts
  BY <1>1, <1>10, StartupAbortsEffect
<1>11. CASE StartupEnds
  BY <1>1, <1>2, <1>11, StartupEndsEffect
<1>12. CASE StartupResetAlloc
  BY <1>1, <1>2, <1>12, StartupResetAllocEffect
<1>13. CASE ReadMoves
  <2>1. CASE pc' = "read_reset" /\ try' = NextTry
    <3>1. col \in Collector
      BY <1>1, <1>13, ReadMovesEffect DEF Where
    <3>2. col.max_mem_set => try'.flags.mem = col.flags.mem
      BY <2>1, <3>1, NextTryFields
    <3>3. QED
      BY <1>1, <1>2, <1>13, <2>1, <3>1, <3>2, ReadMovesEffect
  <2>2. CASE pc' # "read_reset" /\ try' = try
    BY <1>4, <1>13, <2>2, ReadMovesEffect
  <2>3. QED
    BY <1>13, <2>1, <2>2, ReadMovesEffect
<1>14. CASE ReadAborts
  BY <1>4, <1>14, ReadAbortsEffect
<1>15. CASE ReadResetAlloc
  BY <1>1, <1>2, <1>15, ReadResetAllocEffect
<1>16. CASE ReadSafeReturns
  BY <1>4, <1>16, ReadSafeReturnsEffect
<1>17. CASE ReadDelivers
  BY <1>1, <1>2, <1>17, ReadDeliversEffect
<1>18. CASE ResetSelfTest
  BY <1>1, <1>18, ResetSelfTestEffect
<1>19. CASE RandomDataStep \/ ThreadStep \/ UNCHANGED vars
  BY <1>3, <1>19 DEF RandomDataStep, ThreadStep, ThreadBegins, ThreadTicks, vars, baseVars
<1>20. QED
  BY <1>5, <1>6, <1>7, <1>8, <1>9, <1>10, <1>11, <1>12, <1>13, <1>14, <1>15, <1>16,
     <1>17, <1>18, <1>19, Zenon DEF Step

(* Rungs. *)
LEMMA StepKeepsLadder ==
  ASSUME Inv, Step
  PROVE  Ladder'
<1>1. Ladder /\ Where /\ col \in Collector \cup {None} /\ try \in Tries
  BY DEF Inv, LibraryTypes
<1>2. \A c \in Collector : c # None /\ c.osr \in Nat
  BY NotNone DEF Collector
<1> USE DEF StartupPlaces, ReadPlaces, ResetPlaces
<1>3. CASE pc' \notin ResetPlaces
  BY <1>3 DEF Ladder
<1>4. ASSUME pc \in StartupPlaces \cup ReadPlaces, UNCHANGED col,
             col.osr < MaxOsr, try' = NextTry
      PROVE  Ladder'
  <2>1. col \in Collector
    BY <1>1, <1>4 DEF Where
  <2>2. /\ try'.osr = col.osr + 1 /\ try'.flags \in Flag
        /\ try'.flags.hash = AtMost(col.flags.hash + 1, MaxHash)
    BY <1>4, <2>1, NextTryFields
  <2>3. col.osr < try'.osr /\ try'.osr <= MaxOsr
    BY <1>2, <1>4, <2>1, <2>2, CollectorAssumption
  <2>4. QED
    BY <1>4, <2>2, <2>3 DEF Ladder
<1>5. CASE ResetSelfTest
  <2>1. /\ try' \in Tries /\ try'.flags = try.flags
        /\ try'.osr >= try.osr /\ try'.osr <= MaxOsr
        /\ pc \in ResetPlaces /\ col' = col
    BY <1>5, ResetSelfTestEffect
  <2>2. col \in Collector
    BY <1>1, <2>1 DEF Where
  <2>3. try.osr \in Nat /\ try'.osr \in Nat
    BY <1>1, <2>1 DEF Tries
  <2>4. QED
    BY <1>1, <1>2, <2>1, <2>2, <2>3 DEF Ladder
<1>6. ASSUME NEW f \in Flags, EntropyInit(MinOsr, f) PROVE Ladder'
  BY <1>3, <1>6, EntropyInitEffect
<1>7. ASSUME NEW f \in Flags, CollectorAlloc(MinOsr, f) PROVE Ladder'
  BY <1>3, <1>7, CollectorAllocEffect
<1>8. CASE CollectorFreeCall
  BY <1>3, <1>8, CollectorFreeCallEffect
<1>9. ASSUME NEW len \in Lengths, NEW safe \in BOOLEAN, ReadCall(len, safe)
      PROVE  Ladder'
  BY <1>3, <1>9, ReadCallEffect
<1>10. CASE StartupMoves
  BY <1>3, <1>4, <1>10, StartupMovesEffect
<1>11. CASE ReadMoves
  BY <1>3, <1>4, <1>11, ReadMovesEffect
<1>12. CASE StartupAborts
  BY <1>3, <1>12, StartupAbortsEffect
<1>13. CASE StartupEnds
  BY <1>3, <1>13, StartupEndsEffect
<1>14. CASE StartupResetAlloc
  BY <1>3, <1>14, StartupResetAllocEffect
<1>15. CASE ReadAborts
  BY <1>3, <1>15, ReadAbortsEffect
<1>16. CASE ReadResetAlloc
  BY <1>3, <1>16, ReadResetAllocEffect
<1>17. CASE ReadSafeReturns
  BY <1>3, <1>17, ReadSafeReturnsEffect
<1>18. CASE ReadDelivers
  BY <1>3, <1>18, ReadDeliversEffect
<1>19. CASE RandomDataStep \/ ThreadStep \/ UNCHANGED vars
  BY <1>1, <1>19 DEF RandomDataStep, ThreadStep, ThreadBegins, ThreadTicks, vars, baseVars,
     Ladder
<1>20. QED
  BY <1>5, <1>6, <1>7, <1>8, <1>9, <1>10, <1>11, <1>12, <1>13, <1>14, <1>15, <1>16,
     <1>17, <1>18, <1>19, Zenon DEF Step

(* The collector put aside. *)
LEMMA StepKeepsReplacing ==
  ASSUME Inv, Step
  PROVE  Replacing'
<1>1. Replacing /\ Where /\ Shape
  BY DEF Inv, DataInv
<1> USE DEF Replacing, StartupPlaces, ReadPlaces, ResetPlaces, InnerPlaces, randomVars
<1>2. ASSUME NEW f \in Flags, EntropyInit(MinOsr, f) PROVE Replacing'
  BY <1>1, <1>2, EntropyInitEffect
<1>3. ASSUME NEW f \in Flags, CollectorAlloc(MinOsr, f) PROVE Replacing'
  BY <1>1, <1>3, CollectorAllocEffect
<1>4. CASE CollectorFreeCall
  BY <1>1, <1>4, CollectorFreeCallEffect
<1>5. ASSUME NEW len \in Lengths, NEW safe \in BOOLEAN, ReadCall(len, safe)
      PROVE  Replacing'
  BY <1>1, <1>5, ReadCallEffect
<1>6. CASE StartupMoves
  BY <1>1, <1>6, StartupMovesEffect
<1>7. CASE StartupAborts
  BY <1>1, <1>7, StartupAbortsEffect
<1>8. CASE StartupEnds
  BY <1>1, <1>8, StartupEndsEffect
<1>9. CASE StartupResetAlloc
  BY <1>1, <1>9, StartupResetAllocEffect
<1>10. CASE ReadMoves
  BY <1>1, <1>10, ReadMovesEffect
<1>11. CASE ReadAborts
  BY <1>1, <1>11, ReadAbortsEffect
<1>12. CASE ReadResetAlloc
  BY <1>1, <1>12, ReadResetAllocEffect, ShapeBetween
<1>13. CASE ReadSafeReturns
  BY <1>1, <1>13, ReadSafeReturnsEffect
<1>14. CASE ReadDelivers
  BY <1>1, <1>14, ReadDeliversEffect
<1>15. CASE ResetSelfTest
  BY <1>1, <1>15, ResetSelfTestEffect
<1>16. CASE RandomDataStep
  BY <1>1, <1>16 DEF RandomDataStep, baseVars
<1>17. CASE ThreadStep \/ UNCHANGED vars
  BY <1>1, <1>17 DEF ThreadStep, ThreadBegins, ThreadTicks, vars, baseVars
<1>18. QED
  BY <1>2, <1>3, <1>4, <1>5, <1>6, <1>7, <1>8, <1>9, <1>10, <1>11, <1>12, <1>13,
     <1>14, <1>15, <1>16, <1>17, Zenon DEF Step

(* The thread: started before every place that measures, stopped after it. *)
LEMMA StepKeepsTimer ==
  ASSUME Inv, Step
  PROVE  TimerRunsWhileMeasuring'
<1>1. TimerRunsWhileMeasuring /\ thread \in { "off", "starting", "counting" }
  BY DEF Inv, LibraryTypes
<1> USE DEF StartupPlaces, ReadPlaces, ResetPlaces, TimerRunsWhileMeasuring
<1>2. CASE pc' \notin { "startup", "startup_block", "block", "read_block" }
  BY <1>2
<1>3. CASE StartThread /\ UNCHANGED col
  BY <1>3 DEF StartThread
<1>4. CASE /\ UNCHANGED << col, timerVars >>
           /\ pc \in { "startup", "startup_block", "block", "read_block" }
  BY <1>1, <1>4 DEF timerVars
<1>5. ASSUME NEW f \in Flags, EntropyInit(MinOsr, f) PROVE TimerRunsWhileMeasuring'
  BY <1>2, <1>5, EntropyInitEffect
<1>6. ASSUME NEW f \in Flags, CollectorAlloc(MinOsr, f)
      PROVE  TimerRunsWhileMeasuring'
  BY <1>2, <1>6, CollectorAllocEffect
<1>7. CASE CollectorFreeCall
  BY <1>2, <1>7, CollectorFreeCallEffect
<1>8. ASSUME NEW len \in Lengths, NEW safe \in BOOLEAN, ReadCall(len, safe)
      PROVE  TimerRunsWhileMeasuring'
  BY <1>2, <1>8, ReadCallEffect
<1>9. CASE StartupMoves
  BY <1>3, <1>4, <1>9, StartupMovesEffect
<1>10. CASE StartupAborts
  BY <1>2, <1>10, StartupAbortsEffect
<1>11. CASE StartupEnds
  BY <1>2, <1>11, StartupEndsEffect
<1>12. CASE StartupResetAlloc
  BY <1>2, <1>12, StartupResetAllocEffect
<1>13. CASE ReadMoves
  BY <1>2, <1>3, <1>4, <1>13, ReadMovesEffect
<1>14. CASE ReadAborts
  BY <1>2, <1>14, ReadAbortsEffect
<1>15. CASE ReadResetAlloc
  BY <1>2, <1>15, ReadResetAllocEffect
<1>16. CASE ReadSafeReturns
  BY <1>2, <1>16, ReadSafeReturnsEffect
<1>17. CASE ReadDelivers
  BY <1>2, <1>17, ReadDeliversEffect
<1>18. CASE ResetSelfTest
  BY <1>2, <1>18, ResetSelfTestEffect
<1>19. CASE RandomDataStep
  BY <1>1, <1>19 DEF RandomDataStep, baseVars
<1>20. CASE ThreadStep
  <2>1. UNCHANGED << pc, col >> /\ (thread # "off" <=> thread' # "off")
    BY <1>1, <1>20 DEF ThreadStep, ThreadBegins, ThreadTicks, baseVars
  <2>2. QED
    BY <1>1, <2>1
<1>21. CASE UNCHANGED vars
  BY <1>1, <1>21 DEF vars, baseVars, timerVars
<1>22. QED
  BY <1>5, <1>6, <1>7, <1>8, <1>9, <1>10, <1>11, <1>12, <1>13, <1>14, <1>15, <1>16,
     <1>17, <1>18, <1>19, <1>20, <1>21, Zenon DEF Step

-----------------------------------------------------------------------------
(* The invariant is inductive. *)
LEMMA InitInv == ASSUME Init PROVE Inv
<1>1. /\ g \in Globals /\ hist \in History /\ op \in Operation /\ try \in Tries
      /\ hist.bytes = 0 /\ hist.cap = 0
  <2>1. PICK b \in BOOLEAN : b = FALSE
    OBVIOUS
  <2>2. g = [forced |-> b, selftest |-> b]
    BY <2>1, Zenon DEF Init
  <2>3. QED
    BY <2>2, NoValues DEF Init, Globals, History
<1>2. heap \in Heaps /\ heap = Plus(NoHeap, NoHeap)
  BY DEF Init, NoHeap, Heaps, Plus
<1>3. ticked \in BOOLEAN
  BY Zenon DEF Init
<1>4. LibraryTypes
  BY <1>1, <1>2, <1>3 DEF Init, LibraryTypes
<1>5. stack = << >> /\ Len(stack) = 0 /\ stack \in Seq(StackFrame) /\ rd = NoData
  BY DEF Init
<1>6. DataTypes
  BY <1>5, NoDataFields DEF Init, DataTypes
<1>7. Shape
  BY <1>5, NoDataFields, StartupValues DEF Shape, Between
<1>8. Timing /\ Sampling
  BY <1>5, NoDataFields DEF Timing, Sampling
<1>9. Where /\ Operating /\ Account /\ Cap /\ Ladder /\ Replacing
      /\ TimerRunsWhileMeasuring
  BY <1>1, <1>5, NoValues DEF Init, Where, Operating, Account, Cap, Ladder, Replacing,
     TimerRunsWhileMeasuring, StartupPlaces, ResetPlaces
<1>10. HeapIsOwned
  BY <1>2 DEF Init, HeapIsOwned, Owned
<1>11. QED
  BY <1>4, <1>6, <1>7, <1>8, <1>9, <1>10 DEF Inv, DataInv

(* ... for every step. *)
LEMMA StepKeepsInv == Inv /\ [Next]_vars => Inv'
<1> SUFFICES ASSUME Inv, [Next]_vars PROVE Inv'
  OBVIOUS
<1>1. Step
  BY StepsSplit
<1>2. LibraryTypes' /\ DataInv' /\ Where' /\ HeapIsOwned' /\ Operating'
  BY <1>1, StepKeepsTypes, StepKeepsData, StepKeepsWhere, StepKeepsHeap,
     StepKeepsOperating
<1>3. Account' /\ Cap' /\ Ladder' /\ Replacing' /\ TimerRunsWhileMeasuring'
  BY <1>1, StepKeepsAccount, StepKeepsCap, StepKeepsLadder, StepKeepsReplacing,
     StepKeepsTimer
<1>4. QED
  BY <1>2, <1>3 DEF Inv

(* Every reachable state satisfies the inductive invariant. *)
LEMMA AlwaysInv == Spec => []Inv
<1>1. Init => Inv
  BY InitInv
<1>2. QED
  BY <1>1, StepKeepsInv, PTL DEF Spec

(* Every variable keeps its type: the loop counters, the startup state, the
   flags a reset makes up and the counters a handle carries on. *)
THEOREM CollectorTypes == Spec => []TypeOK
<1>1. Inv => TypeOK
  BY DEF Inv, TypeOK, DataInv
<1>2. QED
  BY <1>1, AlwaysInv, PTL

(* Between two calls exactly the objects of the caller's collector exist:
   failed allocations, failed startups and replacements leak nothing and free
   nothing twice (jent_entropy_collector_alloc, jent_health_failure_reset). *)
THEOREM HeapIsGivenBack == Spec => []NothingLeaks
<1>1. Inv => NothingLeaks
  <2> SUFFICES ASSUME Inv, pc = "idle"
               PROVE  heap = IF col = None THEN NoHeap ELSE Owns(col)
    BY DEF NothingLeaks
  <2>1. old = None /\ HeapIsOwned
    BY DEF Inv, Where, StartupPlaces
  <2>2. Owned(col) \in Heaps
    BY OwnsTyped DEF Owned, NoHeap, Heaps
  <2>3. heap = Owned(col)
    BY <2>1, <2>2, HeapSums DEF HeapIsOwned
  <2>4. QED
    BY <2>3 DEF Owned
<1>2. QED
  BY <1>1, AlwaysInv, PTL

(* Wherever the time is about to be read, a collector with the internal timer
   has its thread, also where a reset has just replaced the collector
   (jent_notime_settick, jent_get_nstime_internal). *)
THEOREM TimerRuns == Spec => []TimerRunsWhileMeasuring
<1>1. Inv => TimerRunsWhileMeasuring
  BY DEF Inv
<1>2. QED
  BY <1>1, AlwaysInv, PTL

(* A handle keeps its identity and its count of delivered blocks through every
   replacement (jent_health_failure_reset copies them). *)
THEOREM AccountIsKept == Spec => []HandleKeepsAccount
<1>1. Inv => HandleKeepsAccount
  <2> SUFFICES ASSUME Inv, pc = "idle", col # None
               PROVE  col.uuid = hist.uuid /\ col.bytes = hist.bytes
    BY DEF HandleKeepsAccount
  <2>1. old = None /\ op = NoOp /\ Account /\ hist.bytes \in Nat
    BY DEF Inv, Where, StartupPlaces, Operating, LibraryTypes, History
  <2>2. QED
    BY <2>1, NoValues DEF Account, Handle, StartupPlaces
<1>2. QED
  BY <1>1, AlwaysInv, PTL

(* A limit on the memory holds for every collector that resets make of the
   first (jent_update_memsize, max_mem_set). *)
THEOREM MemoryIsCapped == Spec => []MemoryCapRespected
<1>1. Inv => MemoryCapRespected
  BY DEF Inv, LibraryTypes, History, Cap, Capped, MemoryCapRespected
<1>2. QED
  BY <1>1, AlwaysInv, PTL

(* An unfailed collector that has left its startup has sampled both noise
   sources, however recoveries were nested in the stages (jent_random_data). *)
THEOREM StartupIsSampled == Spec => []StartupSamplesBoth
<1>1. Inv => StartupSamplesBoth
  BY DEF Inv, DataInv, Sampling, StartupSamplesBoth, Stages
<1>2. QED
  BY <1>1, AlwaysInv, PTL

(* Capping the hash loop twice is capping it once. *)
LEMMA CapIsIdempotent ==
  ASSUME NEW n \in Nat PROVE AtMost(AtMost(n, MaxHash), MaxHash) = AtMost(n, MaxHash)
BY CollectorAssumption DEF AtMost

(* Each replacement has a higher oversampling rate than the collector it
   replaces, within JENT_MAX_OSR, and a longer hash loop up to its maximum:
   the resets of one call are bounded (jent_health_failure_reset). *)
THEOREM ReplacementsClimb == Spec => LadderClimbs
<1>1. ASSUME Inv, [Next]_vars, pc' = "settick", pc \in { "startup_alloc", "read_alloc" }
      PROVE  /\ col.osr < col'.osr /\ col'.osr <= MaxOsr
             /\ col'.flags.hash >= AtMost(col.flags.hash + 1, MaxHash)
  <2>1. Ladder /\ Where /\ col \in Collector \cup {None} /\ try \in Tries
    BY <1>1 DEF Inv, LibraryTypes
  <2>2. /\ col.osr < try.osr /\ try.osr <= MaxOsr
        /\ try.flags.hash = AtMost(col.flags.hash + 1, MaxHash)
        /\ col \in Collector
    BY <1>1, <2>1 DEF Ladder, Where, ResetPlaces
  <2>3. StartupResetAlloc \/ ReadResetAlloc
    <3>1. Step /\ pc # pc'
      BY <1>1, StepsSplit
    <3>2. ~ThreadStep /\ ~(UNCHANGED vars) /\ ~RandomDataStep
      BY <3>1 DEF ThreadStep, ThreadBegins, ThreadTicks, vars, RandomDataStep, baseVars
    <3>3. ~CollectorFreeCall /\ ~StartupMoves /\ ~StartupAborts /\ ~StartupEnds
          /\ ~ReadMoves /\ ~ReadAborts /\ ~ReadSafeReturns /\ ~ReadDelivers
          /\ ~ResetSelfTest
      BY <1>1, CollectorFreeCallEffect, StartupMovesEffect, StartupAbortsEffect,
         StartupEndsEffect, ReadMovesEffect, ReadAbortsEffect, ReadSafeReturnsEffect,
         ReadDeliversEffect, ResetSelfTestEffect DEF ResetPlaces
    <3>4. /\ \A f \in Flags : ~EntropyInit(MinOsr, f) /\ ~CollectorAlloc(MinOsr, f)
          /\ \A len \in Lengths, safe \in BOOLEAN : ~ReadCall(len, safe)
      BY <1>1 DEF EntropyInit, CollectorAlloc, ReadCall, CallBegins
    <3>5. QED
      BY <3>1, <3>2, <3>3, <3>4, Zenon DEF Step
  <2>4. /\ col' \in Collector /\ col'.osr >= try.osr /\ col'.osr <= MaxOsr
        /\ col'.flags.hash = AtMost(try.flags.hash, MaxHash)
    BY <1>1, <2>3, StartupResetAllocEffect, ReadResetAllocEffect
  <2>5. col.osr \in Nat /\ try.osr \in Nat /\ col'.osr \in Nat /\ col.flags.hash + 1 \in Nat
    BY <2>1, <2>2, <2>4 DEF Collector, Flag, Tries
  <2>6. col'.flags.hash = AtMost(col.flags.hash + 1, MaxHash)
    BY <2>2, <2>4, <2>5, CapIsIdempotent
  <2>7. col'.flags.hash \in Nat
    BY <2>4 DEF Collector, Flag
  <2>8. QED
    BY <2>2, <2>4, <2>5, <2>6, <2>7
<1>2. QED
  BY <1>1, AlwaysInv, PTL DEF Spec, LadderClimbs

(* A call of jent_random_data that returns without a failure has drawn its
   full number of values that were not stuck and timed only themselves, also
   after recoveries that shared its counters. *)
THEOREM BlocksAreComplete == Spec => BlockIsComplete
<1>1. ASSUME Inv, [Next]_vars, ~UNCHANGED randomVars,
             Len(stack') < Len(stack), ~Failing(rd')
      PROVE  Head(stack).good >= Nosr(rd)
  <2>1. DataInv /\ DataTypes /\ stack \in Seq(StackFrame) /\ Len(stack) \in Nat
    BY <1>1, LenProperties DEF Inv, DataInv, DataTypes
  <2>2. ~UNCHANGED stack
    BY <1>1, <2>1
  <2>3. stack # << >>
    <3>1. ASSUME stack = << >> PROVE FALSE
      <4>1. Len(stack) = 0 /\ Len(stack') \in Nat
        BY <1>1, <3>1, StepKeepsInv, LenProperties DEF Inv, DataInv, DataTypes
      <4>2. QED
        BY <1>1, <4>1
    <3>2. QED
      BY <3>1
  <2>4. RandomDataStep
    <3>1. Step
      BY <1>1, StepsSplit
    <3>2. ~Call
      BY <2>3 DEF Call
    <3>3. /\ ~ThreadStep /\ ~(UNCHANGED vars) /\ ~CollectorFreeCall /\ ~StartupAborts
          /\ ~StartupMoves /\ ~ReadMoves /\ ~ReadAborts
      BY <1>1, <2>2, <3>2, CollectorFreeCallEffect, StartupAbortsEffect,
         StartupMovesEffect, ReadMovesEffect, ReadAbortsEffect
         DEF ThreadStep, ThreadBegins, ThreadTicks, vars, randomVars
    <3>4. /\ ~StartupEnds /\ ~StartupResetAlloc /\ ~ReadResetAlloc
          /\ ~ReadSafeReturns /\ ~ReadDelivers /\ ~ResetSelfTest
      BY <2>2 DEF StartupEnds, StartupResetAlloc, ReadResetAlloc, ReadSafeReturns,
         ReadDelivers, ResetSelfTest, randomVars
    <3>5. /\ \A f \in Flags : ~EntropyInit(MinOsr, f) /\ ~CollectorAlloc(MinOsr, f)
          /\ \A len \in Lengths, safe \in BOOLEAN : ~ReadCall(len, safe)
      BY <2>2 DEF EntropyInit, CollectorAlloc, ReadCall, randomVars
    <3>6. QED
      BY <3>1, <3>3, <3>4, <3>5, Zenon DEF Step
  <2>5. stack[1].good >= Nosr(rd)
    BY <1>1, <2>1, <2>4, RandomDataStepKeepsData
  <2>6. Head(stack) = stack[1]
    BY <2>1, <2>3, HeadTyped
  <2>7. QED
    BY <2>5, <2>6
<1>2. QED
  BY <1>1, AlwaysInv, PTL DEF Spec, BlockIsComplete
=============================================================================
