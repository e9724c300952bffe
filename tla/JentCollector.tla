----------------------------- MODULE JentCollector -----------------------------
(***************************************************************************)
(* The life of one entropy collector handle (jitterentropy-base.c): self   *)
(* test, allocation with its startup, reads, the reset ladder a health     *)
(* failure climbs, and the counting thread of the internal timer           *)
(* (jitterentropy-timer.c).  Blocks are drawn by JentRandomData.  A self   *)
(* test runs on a collector of its own and leaves only its verdict and the *)
(* library's global state behind: it is an operator on that state.         *)
(***************************************************************************)
EXTENDS JentRandomData

CONSTANTS
  MinOsr, MaxOsr,            \* JENT_MIN_OSR, JENT_MAX_OSR
  MaxMem, MaxHash,           \* largest memory and hash loop steps
  CacheMem,                  \* memory step chosen from the cache size
  Flags,                     \* flag combinations a caller passes
  Lengths,                   \* blocks a caller asks for
  MaxCalls,                  \* bound on the caller's calls
  None

(* What a caller may ask for, one member per flag of the bit mask. *)
Flag ==
  [ ntg1 : BOOLEAN, fips : BOOLEAN, nomem : BOOLEAN, force : BOOLEAN,
    disable : BOOLEAN, mem : 0 .. MaxMem, hash : 0 .. MaxHash ]

(* struct rand_data, without its part in rd. *)
Collector ==
  [ osr : Nat, notime : BOOLEAN, max_mem_set : BOOLEAN, flags : Flag,
    uuid : Nat, reinit : Nat, reads : Nat, bytes : Nat ]

(* A collector that a reset has put aside. *)
Replaced == [ col : Collector, rd : RandomData, sampled : SUBSET Stages ]

ASSUME CollectorAssumption ==
  /\ MinOsr \in Nat \ {0} /\ MaxOsr \in Nat /\ MinOsr <= MaxOsr
  /\ MaxMem \in Nat /\ CacheMem \in 1 .. MaxMem /\ MaxHash \in Nat
  /\ Flags \subseteq Flag /\ Lengths \subseteq Nat
  /\ None \notin Collector /\ None \notin Replaced

VARIABLES
  g,       \* the library's globals: forced timer, self-test flag
  col,     \* the collector in use, without its part in rd; or None
  old,     \* the collector a read-time reset replaces, or None
  pc,      \* where the library stands between two steps
  op,      \* the caller's read: blocks left, blocks asked for, safe or not
  try,     \* the reset ladder's oversampling rate and flags
  thread,  \* the counting thread of col: off, starting or counting
  ticked,  \* it has counted since the timer was last read
  heap,    \* number of allocated objects of each kind
  hist     \* history of the handle

baseVars == << g, col, old, pc, op, try, heap, hist >>
timerVars == << thread, ticked >>
vars == << randomVars, baseVars, timerVars >>

NoOp  == [left |-> 0, todo |-> 0, len |-> 0, safe |-> FALSE]
NoTry == [osr |-> 0, flags |-> None]

(* Stands for rd where there is no collector. *)
NoData == NewRandomData(MinOsr, FALSE, FALSE)

-----------------------------------------------------------------------------
(* Flags.  jent_update_memsize and jent_update_hashloop. *)
AtMost(n, max) == IF n > max THEN max ELSE n

UpdateMemsize(f, inc) ==
  [f EXCEPT !.mem = IF @ = 0 THEN CacheMem ELSE AtMost(@ + inc, MaxMem)]

UpdateHashloop(f, inc) == [f EXCEPT !.hash = AtMost(@ + inc, MaxHash)]

(* Combinations that alloc_internal refuses at once. *)
Contradictory(f) ==
  \/ f.disable /\ f.force
  \/ f.nomem /\ (f.ntg1 \/ f.fips)

AtLeastMinOsr(osr) == IF osr < MinOsr THEN MinOsr ELSE osr

(* ... and those it refuses because of the forced timer: NTG.1 disables it. *)
Refused(gg, osr, f) ==
  \/ Contradictory(f)
  \/ AtLeastMinOsr(osr) > MaxOsr
  \/ gg.forced /\ (f.disable \/ f.ntg1)

-----------------------------------------------------------------------------
(* The self test: its verdict, and the globals it leaves. *)
Verdict(gg, ok) == [g |-> gg, ok |-> ok]

(* jent_time_entropy_init, with or without the internal timer.  It asks for a
   collector in FIPS mode, so that it can measure under the health tests. *)
TimeEntropyInit(gg, osr, f, force) ==
  LET g1 == IF force THEN [gg EXCEPT !.forced = TRUE] ELSE gg
      f1 == IF force THEN [f EXCEPT !.force = TRUE, !.fips = TRUE]
                     ELSE [f EXCEPT !.disable = TRUE, !.fips = TRUE]
  IN  { Verdict(gg, FALSE), Verdict(g1, FALSE) } \cup
      IF Refused(g1, osr, f1) THEN {} ELSE { Verdict(g1, TRUE) }

(* jent_entropy_init_common_pre fails: only SHA-3's tester comes before the
   flag is set. *)
PreFails(gg) ==
  { Verdict(gg, FALSE), Verdict([gg EXCEPT !.selftest = TRUE], FALSE) }

(* jent_entropy_init_common_post *)
Post(v) == IF v.ok THEN v ELSE [v EXCEPT !.g.selftest = FALSE]

(* jent_entropy_init_ex; jent_entropy_init is its case without flags. *)
EntropyInitEx(gg, osr, f) ==
  LET g1 == [gg EXCEPT !.selftest = TRUE]
      first == IF f.force THEN { Verdict(g1, FALSE) }
               ELSE TimeEntropyInit(g1, osr, f, FALSE)
      second(v) == IF v.ok \/ f.disable THEN {v}
                   ELSE TimeEntropyInit(v.g, osr, f, TRUE)
  IN  PreFails(gg) \cup { Post(v) : v \in UNION { second(v) : v \in first } }

-----------------------------------------------------------------------------
(* Allocation.  What a collector owns, and how it is given back. *)
Owns(c) == [ ec |-> 1, mem |-> IF c.flags.nomem THEN 0 ELSE 1,
             hash |-> 1, ctx |-> IF c.notime THEN 1 ELSE 0 ]

Kinds == { "ec", "mem", "hash", "ctx" }

NoHeap == [ k \in Kinds |-> 0 ]

Plus(h, parts) == [ k \in Kinds |-> h[k] + parts[k] ]

(* Faulty variant: the timer's context is not released. *)
CollectorFreeKeepsCtx(h, parts) ==
  [ k \in Kinds |-> IF k = "ctx" THEN h[k] ELSE h[k] - parts[k] ]

(* jent_entropy_collector_free, of whatever parts there are. *)
CollectorFree(h, parts) == [ k \in Kinds |-> h[k] - parts[k] ]

(* Faulty variant: whether the caller set a limit is recorded after the flags
   were completed, too late. *)
NewCollectorUncapped(osr, f, notime) ==
  [ osr |-> osr, notime |-> notime,
    max_mem_set |-> FALSE,
    flags |-> UpdateHashloop(IF f.nomem THEN f ELSE UpdateMemsize(f, 0), 0),
    uuid |-> 0, reinit |-> 0, reads |-> 0, bytes |-> 0 ]

NewCollector(osr, f, notime) ==
  [ osr |-> osr, notime |-> notime,
    max_mem_set |-> f.mem # 0,
    flags |-> UpdateHashloop(IF f.nomem THEN f ELSE UpdateMemsize(f, 0), 0),
    uuid |-> 0, reinit |-> 0, reads |-> 0, bytes |-> 0 ]

Nothing(gg, h) == [ g |-> gg, col |-> None, heap |-> h ]

(* Given the globals a self test left: the objects one by one, any of which
   may fail; what was allocated by then is freed, so that a failed allocation
   changes nothing in the end: the heap can only go wrong in a replacement
   or after a failed startup. *)
AllocObjects(gg, osr, f) ==
  LET f1 == [f EXCEPT !.disable = @ \/ f.ntg1]
      notime == ~f1.disable /\ (gg.forced \/ f.force)
      c == NewCollector(osr, f1, notime)
      all == Owns(c)
      partial == { [k \in Kinds |-> IF k \in S THEN all[k] ELSE 0] :
                     S \in { {"ec"}, {"ec", "mem"}, {"ec", "mem", "hash"} } }
      tested == IF notime /\ ~gg.forced
                THEN TimeEntropyInit(gg, osr, f1, TRUE)
                ELSE { Verdict(gg, TRUE) }
      failed(g1) == { Nothing(g1, heap) } \cup
        { Nothing(g1, CollectorFree(Plus(heap, p), p)) : p \in partial }
  IN  UNION { failed(v.g) \cup
              IF v.ok THEN { [ g |-> v.g, col |-> c, heap |-> Plus(heap, all) ] }
              ELSE {} : v \in tested }

(* jent_entropy_collector_alloc_internal *)
AllocInternal(osr0, f) ==
  LET osr == AtLeastMinOsr(osr0)
      tests == IF g.selftest THEN { Verdict(g, TRUE) }
               ELSE EntropyInitEx(g, osr, f)
  IN  IF Contradictory(f) \/ osr > MaxOsr THEN { Nothing(g, heap) }
      ELSE UNION { IF v.ok /\ ~Refused(v.g, osr, f) THEN AllocObjects(v.g, osr, f)
                   ELSE { Nothing(v.g, heap) } : v \in tests }

Fresh(c) == NewRandomData(c.osr, c.flags.fips \/ c.flags.ntg1, c.flags.ntg1)

(* What jent_health_failure_reset carries over to the replacement; what it
   duplicates of the health tests is in JentHealth. *)
Carried(new, from) ==
  [ new EXCEPT !.max_mem_set = from.max_mem_set, !.uuid = from.uuid,
               !.reinit = from.reinit + 1, !.reads = from.reads,
               !.bytes = from.bytes ]

(* jent_rct_mem_duplicate: the old cutoff becomes the new count. *)
WithCount(e, from) == [e EXCEPT !.count = Cutoff(from)]

-----------------------------------------------------------------------------
Init ==
  /\ g = [forced |-> FALSE, selftest |-> FALSE]
  /\ col = None /\ old = None /\ pc = "idle" /\ op = NoOp
  /\ try = NoTry
  /\ thread = "off" /\ ticked = FALSE
  /\ heap = NoHeap
  /\ hist = [cap |-> 0, bytes |-> 0, uuid |-> 0, calls |-> 0]
  /\ rd = NoData
  /\ stack = << >> /\ rounds = 0 /\ sampled = {}

CallBegins ==
  /\ pc = "idle" /\ hist.calls < MaxCalls

Calls == hist.calls + 1

(* jent_entropy_init and jent_entropy_init_ex *)
EntropyInit(osr, f) ==
  /\ CallBegins
  /\ \E v \in EntropyInitEx(g, osr, f) :
       /\ g' = v.g
       /\ hist' = [hist EXCEPT !.calls = Calls]
  /\ UNCHANGED << randomVars, timerVars, col, old, pc, op, try, heap >>

(* jent_entropy_collector_alloc, up to its timer thread *)
CollectorAlloc(osr, f) ==
  /\ CallBegins /\ col = None
  /\ \E a \in AllocInternal(osr, f) :
       /\ g' = a.g /\ heap' = a.heap /\ col' = a.col
       /\ hist' = [hist EXCEPT !.calls = Calls, !.cap = f.mem, !.bytes = 0,
                               !.uuid = 0]
       /\ IF a.col = None THEN UNCHANGED << pc, rd, sampled >>
          ELSE pc' = "settick" /\ rd' = Fresh(a.col) /\ sampled' = {}
  /\ UNCHANGED << stack, rounds, timerVars, old, op, try >>

CollectorFreeCall ==
  /\ CallBegins /\ col # None
  /\ heap' = CollectorFree(heap, Owns(col))
  /\ col' = None /\ rd' = NoData /\ sampled' = {}
  /\ hist' = [hist EXCEPT !.calls = Calls]
  /\ UNCHANGED << stack, rounds, timerVars, g, old, pc, op, try >>

-----------------------------------------------------------------------------
(* The counting thread.  jent_notime_settick creates it, unsettick has it
   stop and waits for that. *)
StartThread ==
  /\ thread' = IF col.notime THEN "starting" ELSE "off"
  /\ ticked' = FALSE

StopThread == thread' = "off" /\ ticked' = FALSE

ThreadBegins ==
  /\ thread = "starting" /\ thread' = "counting"
  /\ UNCHANGED << randomVars, baseVars, ticked >>

ThreadTicks ==
  /\ thread = "counting" /\ ~ticked /\ ticked' = TRUE
  /\ UNCHANGED << randomVars, baseVars, thread >>

(* jent_get_nstime_internal: the reader waits for a tick it has not seen. *)
TimeReadable == col.notime => ticked

(* One step of jent_random_data; a measurement reads the time. *)
RandomDataStep ==
  /\ pc \in { "startup_block", "read_block" }
  /\ \/ /\ TimeReadable
        /\ \E stuck \in BOOLEAN, alarm \in Alarms(rd) : Measure(stuck, alarm)
        /\ ticked' = FALSE
     \/ /\ MemoryStageEnds \/ RecoveryContinues \/ RecoveryEnds \/ CallReturns
        /\ UNCHANGED ticked
  /\ UNCHANGED << baseVars, thread >>

-----------------------------------------------------------------------------
(* _jent_entropy_collector_alloc.  It fails: the collector is freed, and a
   reset that wanted it leaves the old one in place. *)
StartupFails ==
  /\ heap' = CollectorFree(heap, Owns(col))
  /\ IF old = None
     THEN col' = None /\ rd' = NoData /\ sampled' = {}
     ELSE col' = old.col /\ rd' = old.rd /\ sampled' = old.sampled
  /\ old' = None /\ pc' = "idle" /\ op' = NoOp /\ try' = NoTry
  /\ StopThread

Settick ==
  /\ pc = "settick"
  /\ StartThread
  /\ pc' = "startup"
  /\ UNCHANGED << randomVars, g, col, old, op, try, heap, hist >>

SettickFails ==
  /\ pc = "settick" /\ col.notime
  /\ StartupFails
  /\ UNCHANGED << stack, rounds, g, hist >>

StartupCall ==
  /\ pc = "startup" /\ Call
  /\ pc' = "startup_block"
  /\ UNCHANGED << timerVars, g, col, old, op, try, heap, hist >>

(* Faulty variant: the rate is raised on a retry only. *)
NextTrySameRate ==
  [ osr |-> col.osr,
    flags |-> UpdateHashloop(IF col.max_mem_set THEN col.flags
                             ELSE UpdateMemsize(col.flags, 1), 1) ]

(* The flags and rate the ladder's next step asks for. *)
NextTry ==
  [ osr |-> col.osr + 1,
    flags |-> UpdateHashloop(IF col.max_mem_set THEN col.flags
                             ELSE UpdateMemsize(col.flags, 1), 1) ]

StartupNeedsReset ==
  /\ pc = "startup_block" /\ stack = << >> /\ Failing(rd)
  /\ col.osr < MaxOsr
  /\ try' = NextTry /\ pc' = "startup_reset"
  /\ UNCHANGED << randomVars, timerVars, g, col, old, op, heap, hist >>

StartupGivesUp ==
  /\ pc = "startup_block" /\ stack = << >> /\ Failing(rd)
  /\ col.osr >= MaxOsr
  /\ StartupFails
  /\ UNCHANGED << stack, rounds, g, hist >>

StartupRepeats ==
  /\ pc = "startup_block" /\ stack = << >> /\ ~Failing(rd)
  /\ rd.startup # Completed
  /\ pc' = "startup"
  /\ UNCHANGED << randomVars, timerVars, g, col, old, op, try, heap, hist >>

(* The startup is over, and so is the call that asked for the collector. *)
StartupEnds ==
  /\ pc = "startup_block" /\ stack = << >> /\ ~Failing(rd)
  /\ rd.startup = Completed
  /\ StopThread
  /\ IF old = None
     THEN /\ col' = [col EXCEPT !.uuid = Calls]
          /\ hist' = [hist EXCEPT !.uuid = Calls]
          /\ pc' = "idle"
          /\ UNCHANGED << rd, heap >>
     ELSE /\ col' = Carried(col, old.col)
          /\ rd' = WithCount(rd, old.rd)
          /\ heap' = CollectorFree(heap, Owns(old.col))
          /\ pc' = "read"
          /\ UNCHANGED hist
  /\ old' = None /\ try' = NoTry
  /\ UNCHANGED << stack, rounds, sampled, g, op >>

-----------------------------------------------------------------------------
(* jent_health_failure_reset: the self test at ever higher rates ... *)
InReset == pc \in { "startup_reset", "read_reset" }

ResetTested == [startup_reset |-> "startup_alloc", read_reset |-> "read_alloc"]

ResetSelfTest ==
  /\ InReset
  /\ \E v \in EntropyInitEx(g, try.osr, try.flags) :
       /\ g' = v.g
       /\ \/ v.ok /\ pc' = ResetTested[pc] /\ UNCHANGED try
          \/ ~v.ok /\ try.osr < MaxOsr /\ try' = [try EXCEPT !.osr = @ + 1]
                  /\ UNCHANGED pc
  /\ UNCHANGED << randomVars, timerVars, col, old, op, heap, hist >>

(* ... which may run out of them during startup ... *)
StartupResetFails ==
  /\ pc = "startup_reset" /\ try.osr = MaxOsr
  /\ \E v \in EntropyInitEx(g, try.osr, try.flags) : ~v.ok /\ g' = v.g
  /\ StartupFails
  /\ UNCHANGED << stack, rounds, hist >>

(* ... or in a read: the collector stays, in its failed state. *)
ReadResetFails ==
  /\ pc = "read_reset" /\ try.osr = MaxOsr
  /\ \E v \in EntropyInitEx(g, try.osr, try.flags) : ~v.ok /\ g' = v.g
  /\ pc' = "idle" /\ op' = NoOp /\ try' = NoTry
  /\ UNCHANGED << randomVars, timerVars, col, old, heap, hist >>

(* Faulty variant: the startup goes on without a timer thread. *)
StartupResetAllocNoTick ==
  /\ pc = "startup_alloc"
  /\ \E a \in AllocInternal(try.osr, try.flags) :
       /\ a.col # None
       /\ g' = a.g
       /\ heap' = CollectorFree(a.heap, Owns(col))
       /\ col' = Carried(a.col, col)
       /\ rd' = WithCount(Fresh(a.col), rd)
       /\ sampled' = {}
       /\ pc' = "startup"
  /\ StopThread
  /\ UNCHANGED << stack, rounds, old, op, try, hist >>

(* The replacement during startup; freeing the old one stops its thread. *)
StartupResetAlloc ==
  /\ pc = "startup_alloc"
  /\ \E a \in AllocInternal(try.osr, try.flags) :
       /\ a.col # None
       /\ g' = a.g
       /\ heap' = CollectorFree(a.heap, Owns(col))
       /\ col' = Carried(a.col, col)
       /\ rd' = WithCount(Fresh(a.col), rd)
       /\ sampled' = {}
       /\ pc' = "settick"
  /\ StopThread
  /\ UNCHANGED << stack, rounds, old, op, try, hist >>

StartupResetAllocFails ==
  /\ pc = "startup_alloc"
  /\ \E a \in AllocInternal(try.osr, try.flags) : a.col = None /\ g' = a.g
  /\ StartupFails
  /\ UNCHANGED << stack, rounds, hist >>

(* The replacement in a read goes through a startup of its own. *)
ReadResetAlloc ==
  /\ pc = "read_alloc"
  /\ \E a \in AllocInternal(try.osr, try.flags) :
       /\ g' = a.g /\ heap' = a.heap
       /\ IF a.col = None
          THEN /\ pc' = "idle" /\ op' = NoOp /\ try' = NoTry
               /\ UNCHANGED << col, old, rd, sampled >>
          ELSE /\ pc' = "settick"
               /\ old' = [col |-> col, rd |-> rd, sampled |-> sampled]
               /\ col' = a.col /\ rd' = Fresh(a.col) /\ sampled' = {}
               /\ UNCHANGED << op, try >>
  /\ UNCHANGED << stack, rounds, timerVars, hist >>

-----------------------------------------------------------------------------
(* jent_read_entropy and jent_read_entropy_safe *)
ReadCall(len, safe) ==
  /\ CallBegins /\ col # None
  /\ op' = [left |-> len, todo |-> 0, len |-> len, safe |-> safe]
  /\ pc' = "read"
  /\ hist' = [hist EXCEPT !.calls = Calls]
  /\ UNCHANGED << randomVars, timerVars, g, col, old, try, heap >>

(* The safe call's loop ends. *)
ReadSafeReturns ==
  /\ pc = "read" /\ op.safe /\ op.left = 0
  /\ pc' = "idle" /\ op' = NoOp
  /\ hist' = [hist EXCEPT !.bytes = @ + op.len]
  /\ UNCHANGED << randomVars, timerVars, g, col, old, try, heap >>

ReadStarts ==
  /\ pc = "read" /\ (op.safe => op.left > 0)
  /\ StartThread
  /\ op' = [op EXCEPT !.todo = op.left]
  /\ pc' = "block"
  /\ UNCHANGED << randomVars, g, col, old, try, heap, hist >>

ReadSettickFails ==
  /\ pc = "read" /\ (op.safe => op.left > 0) /\ col.notime
  /\ pc' = "idle" /\ op' = NoOp
  /\ UNCHANGED << randomVars, timerVars, g, col, old, try, heap, hist >>

BlockCall ==
  /\ pc = "block" /\ op.todo > 0 /\ Call
  /\ pc' = "read_block"
  /\ UNCHANGED << timerVars, g, col, old, op, try, heap, hist >>

BlockCopied ==
  /\ pc = "read_block" /\ stack = << >> /\ ~Failing(rd)
  /\ op' = [op EXCEPT !.todo = @ - 1]
  /\ pc' = "block"
  /\ UNCHANGED << randomVars, timerVars, g, col, old, try, heap, hist >>

(* Faulty variant: what was delivered before a failure is counted too. *)
ReadDeliversAlways ==
  /\ \/ pc = "block" /\ op.todo = 0
     \/ pc = "read_block" /\ stack = << >> /\ Failing(rd) /\ op.todo < op.left
  /\ StopThread
  /\ col' = [col EXCEPT !.reads = @ + 1, !.bytes = @ + (op.left - op.todo)]
  /\ IF op.safe THEN /\ pc' = "read" /\ op' = [op EXCEPT !.left = 0]
                    /\ UNCHANGED hist
     ELSE /\ pc' = "idle" /\ op' = NoOp
          /\ hist' = [hist EXCEPT !.bytes = @ + op.len]
  /\ UNCHANGED << randomVars, g, old, try, heap >>

(* All blocks are out: the counters are raised, and a safe call goes on. *)
ReadDelivers ==
  /\ pc = "block" /\ op.todo = 0
  /\ StopThread
  /\ col' = [col EXCEPT !.reads = @ + 1, !.bytes = @ + op.left]
  /\ IF op.safe THEN /\ pc' = "read" /\ op' = [op EXCEPT !.left = 0]
                    /\ UNCHANGED hist
     ELSE /\ pc' = "idle" /\ op' = NoOp
          /\ hist' = [hist EXCEPT !.bytes = @ + op.len]
  /\ UNCHANGED << randomVars, g, old, try, heap >>

Permanent == rd.failure \cap { "permanent", "mem_permanent" } # {}

(* A failed block: returned, or the reason for a reset if that can help. *)
ReadFails ==
  /\ pc = "read_block" /\ stack = << >> /\ Failing(rd)
  /\ ~op.safe \/ Permanent \/ col.osr >= MaxOsr
  /\ StopThread
  /\ pc' = "idle" /\ op' = NoOp
  /\ UNCHANGED << randomVars, g, col, old, try, heap, hist >>

ReadNeedsReset ==
  /\ pc = "read_block" /\ stack = << >> /\ Failing(rd)
  /\ op.safe /\ ~Permanent /\ col.osr < MaxOsr
  /\ StopThread
  /\ try' = NextTry /\ pc' = "read_reset"
  /\ UNCHANGED << randomVars, g, col, old, op, heap, hist >>

-----------------------------------------------------------------------------
CallerStep ==
  \/ \E f \in Flags : EntropyInit(MinOsr, f) \/ CollectorAlloc(MinOsr, f)
  \/ CollectorFreeCall
  \/ \E len \in Lengths, safe \in BOOLEAN : ReadCall(len, safe)

LibraryStep ==
  \/ Settick \/ SettickFails \/ StartupCall \/ RandomDataStep
  \/ StartupNeedsReset \/ StartupGivesUp \/ StartupRepeats \/ StartupEnds
  \/ ResetSelfTest \/ StartupResetFails \/ ReadResetFails
  \/ StartupResetAlloc \/ StartupResetAllocFails \/ ReadResetAlloc
  \/ ReadSafeReturns \/ ReadStarts \/ ReadSettickFails
  \/ BlockCall \/ BlockCopied \/ ReadDelivers \/ ReadFails \/ ReadNeedsReset

ThreadStep == ThreadBegins \/ ThreadTicks

Next == CallerStep \/ LibraryStep \/ ThreadStep

Spec == Init /\ [][Next]_vars

(* The noise source: whichever loop keeps measuring gets, again and again, a
   value that is not stuck. *)
GoodSample(depth) ==
  RandomDataStep /\ Len(stack) = depth /\ Measure(FALSE, {})

FairSpec ==
  /\ Spec
  /\ WF_vars(LibraryStep) /\ WF_vars(ThreadStep)
  /\ SF_vars(GoodSample(1)) /\ SF_vars(GoodSample(2))

-----------------------------------------------------------------------------
(* Between two calls exactly the objects of the caller's collector exist,
   through every failed allocation, failed startup and replacement. *)
NothingLeaks ==
  pc = "idle" => heap = IF col = None THEN NoHeap ELSE Owns(col)

(* Wherever the library is about to read the time of a collector with the
   internal timer, that collector's thread exists: the wait for a tick ends. *)
TimerRunsWhileMeasuring ==
  pc \in { "startup", "startup_block", "block", "read_block" } =>
    (col.notime <=> thread # "off")

(* What the caller knows of its handle survives every replacement: its
   identity, and the number of blocks that calls on it have delivered. *)
HandleKeepsAccount ==
  pc = "idle" /\ col # None =>
    col.uuid = hist.uuid /\ col.bytes = hist.bytes

(* A caller that limits the memory never gets more, however often health
   failures replace its collector. *)
MemoryCapRespected ==
  col # None /\ hist.cap # 0 => col.flags.mem <= hist.cap

(* Every replacement stands on a higher rung of the ladder than what it
   replaces, so that their number is bounded, and asks more of the source. *)
LadderClimbs ==
  [][pc' = "settick" /\ pc \in { "startup_alloc", "read_alloc" } =>
       /\ col.osr < col'.osr /\ col'.osr <= MaxOsr
       /\ col'.flags.hash >= AtMost(col.flags.hash + 1, MaxHash)]_vars

(* jitterentropy-health.c:563-573: a recovery loop without a health failure
   is a false positive that can be ignored; the call it came in goes on. *)
CallsAlwaysReturn == pc # "idle" ~> pc = "idle"
=============================================================================
