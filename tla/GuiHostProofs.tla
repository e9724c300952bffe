---------------------------- MODULE GuiHostProofs ----------------------------
(***************************************************************************)
(* For every set of workers and of settings: one job at a time, no worker  *)
(* thread without a handle, and no wait of the UI thread for a collector.  *)
(***************************************************************************)
EXTENDS GuiHost, Integers, TLAPS

(* A job's state, without the bound on its chunks. *)
JobRecord == [pc : WorkerSteps, kind : JobKind, todo : Int,
              produced : BOOLEAN, from : Settings \cup {NoSettings}]

JobOK == job \in [Worker -> JobRecord]

(* What the UI thread may rely on in the middle of a message. *)
UiInv ==
  /\ ui \in UiSteps
  /\ ui \in {"reap", "create"} =>
       g_rng_busy = 1 /\ request.action \in JobKind /\ request.n \in Int
  /\ ui = "create" => g_worker_thread = NoWorker
  /\ ui \in {"cfg_get", "cfg_shutdown", "cfg_store"} =>
       request.settings \in Settings
  /\ ui \in {"destroy_free", "destroy_delete", "quit"} =>
       \A w \in Worker : job[w].pc = "none"

(* A worker is inside the wrapper only while it owns the job slot, and the
   owner of rng_lock is inside a locked call. *)
CallInv ==
  /\ \A w \in Worker : call[w] # "idle" =>
       job[w].pc \in {"init", "inited", "read", "timeline"}
  /\ rng_lock # Free => call[rng_lock] \in LockedCalls

(* The inductive invariant: the slot and handle properties, and what the
   threads' program counters say about the slot, the handle and the lock. *)
HostInv ==
  /\ RngStateOK
  /\ JobOK
  /\ g_rng_busy \in {0, 1}
  /\ OneJobAtATime
  /\ NoLeakedWorker
  /\ UiInv
  /\ CallInv

USE SettingsAssumption, FreeAssumption, ThreadAssumption, ChunkAssumption

(* The records the host puts into job have a job record's fields. *)
LEMMA IdleRecord == IdleJob \in JobRecord
BY DEF IdleJob, JobRecord, WorkerSteps, JobKind

LEMMA MovedRecord ==
  ASSUME NEW r \in JobRecord, NEW p \in WorkerSteps
  PROVE  [r EXCEPT !.pc = p] \in JobRecord /\ [r EXCEPT !.pc = p].pc = p
BY DEF JobRecord

LEMMA ReadingRecord ==
  ASSUME NEW r \in JobRecord, NEW f \in Settings \cup {NoSettings}
  PROVE  LET s == [r EXCEPT !.pc = "read", !.from = f]
         IN  s \in JobRecord /\ s.pc = "read"
BY DEF JobRecord, WorkerSteps, Working

LEMMA StartedRecord ==
  ASSUME NEW kind \in JobKind, NEW n \in Int
  PROVE  LET s == [IdleJob EXCEPT !.pc = "start", !.kind = kind, !.todo = n]
         IN  s \in JobRecord /\ s.pc = "start"
BY DEF IdleJob, JobRecord, WorkerSteps, Working, JobKind

(* The thread whose handle is closed becomes idle; it was the only one left. *)
LEMMA ClosedHandle ==
  ASSUME JobOK, NoLeakedWorker, CloseHandle
  PROVE  /\ JobOK'
         /\ \A w \in Worker : job'[w].pc = "none"
<1> USE DEF JobOK, CloseHandle
<1>1. \A w \in Worker :
        job'[w] = IF w = g_worker_thread THEN IdleJob ELSE job[w]
  OBVIOUS
<1>2. JobOK'
  BY IdleRecord
<1>3. \A w \in Worker : job'[w].pc = "none"
  BY <1>1 DEF NoLeakedWorker, IdleJob
<1>4. QED
  BY <1>2, <1>3

(* The host starts in the invariant. *)
LEMMA InitEstablishesHostInv == GuiInit => HostInv
<1> SUFFICES ASSUME GuiInit PROVE HostInv
  OBVIOUS
<1> USE DEF GuiInit
<1>1. RngStateOK
  BY DEF RngInit, RngStateOK, Calls, LockedCalls
<1>2. JobOK
  BY IdleRecord DEF JobOK
<1>3. OneJobAtATime
  BY DEF OneJobAtATime, Active, IdleJob, Working
<1>4. NoLeakedWorker
  BY DEF NoLeakedWorker, IdleJob
<1>5. UiInv
  BY DEF UiInv, UiSteps
<1>6. CallInv
  BY DEF CallInv, RngInit
<1>7. QED
  BY <1>1, <1>2, <1>3, <1>4, <1>5, <1>6 DEF HostInv

(* The rest of a wrapper call keeps the wrapper's types and its lock owner. *)
LEMMA InCallKeepsInv ==
  ASSUME RngStateOK, CallInv, NEW t \in Thread, InCall(t), job' = job
  PROVE  RngStateOK' /\ CallInv'
<1> USE DEF RngStateOK, CallInv, Calls, LockedCalls
<1>1. CASE SelfTestPasses(t)
  BY <1>1 DEF SelfTestPasses
<1>2. CASE SelfTestFails(t)
  BY <1>2 DEF SelfTestFails, Leave
<1>3. CASE CollectorAlloc(t)
  <2>1. PICK r \in {"ok", "alloc_failed"} : Leave(t, "idle", r)
    BY <1>3 DEF CollectorAlloc
  <2>2. RngStateOK'
    BY <1>3 DEF CollectorAlloc, SetFipsFailureCallback, Leave
  <2>3. CallInv'
    BY <2>1 DEF Leave
  <2>4. QED
    BY <2>2, <2>3
<1>4. CASE ReadEntropySafe(t)
  BY <1>4 DEF ReadEntropySafe, Leave
<1>5. CASE RecordAttempt(t)
  BY <1>5 DEF RecordAttempt
<1>6. CASE ClearInitialized(t)
  BY <1>6 DEF ClearInitialized
<1>7. CASE StatusEnd(t)
  BY <1>7 DEF StatusEnd, Leave
<1>8. QED
  BY <1>1, <1>2, <1>3, <1>4, <1>5, <1>6, <1>7 DEF InCall, EntropyInit

(* A step that only changes one working thread's record, and frees the slot
   if that thread stops working. *)
LEMMA OwnerMoves ==
  ASSUME HostInv, NEW w \in Worker, NEW r \in JobRecord,
         job[w].pc \in Working,
         job' = [job EXCEPT ![w] = r],
         r.pc # "none",
         g_rng_busy' = IF r.pc \in Working THEN g_rng_busy ELSE 0,
         UNCHANGED uiSide
  PROVE  JobOK' /\ OneJobAtATime' /\ NoLeakedWorker' /\ UiInv'
<1>1. JobOK'
  BY DEF HostInv, JobOK
<1>2. \A v \in Worker : job'[v] = IF v = w THEN r ELSE job[v]
  BY DEF HostInv, JobOK
<1>3. \A v \in Worker : Active(v)' => Active(v)
  BY <1>2 DEF Active
<1>4. OneJobAtATime'
  BY <1>2, <1>3 DEF HostInv, OneJobAtATime, Active, uiSide
<1>5. NoLeakedWorker'
  BY <1>2 DEF HostInv, NoLeakedWorker, Working, uiSide
<1>6. UiInv'
  BY <1>2 DEF HostInv, UiInv, OneJobAtATime, Active, Working, uiSide
<1>7. QED
  BY <1>1, <1>4, <1>5, <1>6

(* Every step of a worker thread preserves the invariant. *)
LEMMA WorkerKeepsHostInv ==
  ASSUME HostInv, NEW w \in Worker, WorkerStep(w)
  PROVE  HostInv'
<1> USE DEF HostInv, RngStateOK, JobOK, JobRecord, OneJobAtATime,
            NoLeakedWorker, UiInv, CallInv, Active, Working, WorkerSteps,
            Calls, LockedCalls, uiSide, rngVars, rngExceptRet, Returned, Goto
<1>1. CASE WorkerStart(w)
  BY <1>1 DEF WorkerStart
<1>2. CASE BenchmarkSetup(w)
  BY <1>2 DEF BenchmarkSetup, ShutdownRng, CanEnter, rngExceptRet
<1>3. CASE WorkerInit(w)
  BY <1>3 DEF WorkerInit, InitRng, CanEnter
<1>4. CASE WorkerInited(w)
  BY <1>4 DEF WorkerInited, EndOfRun, rngExceptRet
<1>5. CASE LoopDone(w)
  BY <1>5 DEF LoopDone, EndOfRun
<1>6. CASE LoopCancelled(w)
  BY <1>6 DEF LoopCancelled, EndOfRun, rngExceptRet
<1>7. CASE LoopRead(w)
  <2> DEFINE r == [job[w] EXCEPT !.pc = "read", !.from = rng_collector]
  <2>1. job' = [job EXCEPT ![w] = r]
    BY <1>7 DEF LoopRead
  <2>2. r \in JobRecord /\ r.pc = "read"
    <3>1. job[w] \in JobRecord /\ rng_collector \in Settings \cup {NoSettings}
      OBVIOUS
    <3>2. QED
      BY <3>1, ReadingRecord, Zenon
  <2> HIDE DEF r
  <2>3. UNCHANGED uiSide /\ g_rng_busy' = g_rng_busy /\ job[w].pc = "loop"
    BY <1>7 DEF LoopRead
  <2>4. JobOK' /\ OneJobAtATime' /\ NoLeakedWorker' /\ UiInv'
    <3>1. job[w].pc \in Working /\ r.pc \in Working /\ r.pc # "none"
      BY <2>2, <2>3
    <3>2. QED
      BY <2>1, <2>2, <2>3, <3>1, OwnerMoves, Zenon
  <2>5. RngStateOK'
    BY <1>7 DEF LoopRead, GetRandomBytes, CanEnter
  <2>6. CallInv'
    BY <1>7, <2>1, <2>2 DEF LoopRead, GetRandomBytes, CanEnter
  <2>7. QED
    BY <2>3, <2>4, <2>5, <2>6
<1>8. CASE ReadReturned(w)
  BY <1>8 DEF ReadReturned, EndOfRun
<1>9. CASE BenchmarkCleanup(w)
  BY <1>9 DEF BenchmarkCleanup, ShutdownRng, CanEnter
<1>10. CASE RecordTimeline(w)
  BY <1>10 DEF RecordTimeline
<1>11. CASE PublishResult(w)
  BY <1>11 DEF PublishResult
<1>12. CASE LeaveBusyLock(w)
  BY <1>12 DEF LeaveBusyLock
<1>13. CASE ClearBusy(w)
  <2> DEFINE r == [IdleJob EXCEPT !.pc = "ending"]
  <2>1. job' = [job EXCEPT ![w] = r]
    BY <1>13 DEF ClearBusy
  <2>2. r \in JobRecord /\ r.pc = "ending"
    BY IdleRecord, MovedRecord, Zenon DEF WorkerSteps
  <2> HIDE DEF r
  <2>3. UNCHANGED << uiSide, rngExceptRet >> /\ g_rng_busy' = 0
        /\ job[w].pc = "clear" /\ call[w] = "idle"
    BY <1>13 DEF ClearBusy
  <2>4. JobOK' /\ OneJobAtATime' /\ NoLeakedWorker' /\ UiInv'
    <3>1. job[w].pc \in Working /\ r.pc \notin Working /\ r.pc # "none"
      BY <2>2, <2>3
    <3>2. QED
      BY <2>1, <2>2, <2>3, <3>1, OwnerMoves, Zenon
  <2>5. RngStateOK'
    BY <2>3
  <2>6. CallInv'
    BY <2>1, <2>2, <2>3
  <2>7. QED
    BY <2>3, <2>4, <2>5, <2>6
<1>14. CASE WorkerExit(w)
  BY <1>14 DEF WorkerExit
<1>15. CASE WorkerInCall(w)
  <2>1. UNCHANGED << uiSide, job, g_rng_busy >> /\ InCall(w)
    BY <1>15 DEF WorkerInCall
  <2>2. RngStateOK' /\ CallInv'
    BY <2>1, InCallKeepsInv
  <2>3. QED
    BY <2>1, <2>2
<1>16. QED
  BY <1>1, <1>2, <1>3, <1>4, <1>5, <1>6, <1>7, <1>8, <1>9, <1>10, <1>11,
     <1>12, <1>13, <1>14, <1>15
     DEF WorkerStep

(* Every step of the UI thread preserves the invariant. *)
LEMMA UiKeepsHostInv ==
  ASSUME HostInv, UiStep \/ UiEvent \/ TickStart
  PROVE  HostInv'
<1> USE DEF HostInv, RngStateOK, JobOK, OneJobAtATime, NoLeakedWorker, UiInv,
            CallInv, Active, Working, UiSteps, Calls, LockedCalls, At, Idle,
            JobKind, workerSide, uiSide, rngVars, rngExceptRet, NoRequest
<1>1. CASE ControllerCreated
  BY <1>1 DEF ControllerCreated
<1>2. CASE ReapTimeout
  BY <1>2 DEF ReapTimeout
<1>3. CASE CreateFails
  BY <1>3 DEF CreateFails
<1>4. CASE HandleCancel
  BY <1>4 DEF HandleCancel
<1>5. CASE HandleClear \/ ClearTimeline
  BY <1>5 DEF HandleClear, ClearTimeline, clearSide
<1>6. CASE ConfigureGet
  BY <1>6 DEF ConfigureGet
<1>7. CASE ConfigureShutdown
  BY <1>7 DEF ConfigureShutdown, ShutdownRng, CanEnter
<1>8. CASE ConfigureStore
  <2>1. RngStateOK'
    BY <1>8 DEF ConfigureStore, RngConfigure, CanEnter
  <2>2. UNCHANGED << job, g_rng_busy, g_worker_thread, rng_lock, call >>
        /\ ui' = "cfg_apply"
    BY <1>8 DEF ConfigureStore, RngConfigure
  <2>3. QED
    BY <1>8, <2>1, <2>2 DEF ConfigureStore
<1>9. CASE ConfigureApply
  BY <1>9 DEF ConfigureApply
<1>10. CASE TickStart
  BY <1>10 DEF TickStart, frameSide
<1>11. CASE TickStatus
  BY <1>11 DEF TickStatus, frameSide, StatusBegin, CanEnter
<1>12. CASE TickTake
  BY <1>12 DEF TickTake, frameSide
<1>13. CASE TickBusy
  BY <1>13 DEF TickBusy, frameSide
<1>14. CASE TickTimeline
  BY <1>14 DEF TickTimeline, frameSide
<1>15. CASE TickPost
  BY <1>15 DEF TickPost, frameSide
<1>16. CASE HandleDestroy
  BY <1>16 DEF HandleDestroy, destroySide
<1>17. CASE WorkerStuck
  BY <1>17 DEF WorkerStuck, destroySide
<1>18. CASE DestroyFree
  BY <1>18 DEF DestroyFree, destroySide, ShutdownRng, CanEnter
<1>19. CASE DestroyDelete
  BY <1>19 DEF DestroyDelete, destroySide
<1>20. ASSUME NEW kind \in JobKind, NEW n \in 1..MaxChunks, HandleJob(kind, n)
      PROVE  HostInv'
  <2>1. CASE g_rng_busy # 0
    BY <1>20, <2>1 DEF HandleJob
  <2>2. CASE g_rng_busy = 0
    <3>1. request' = [NoRequest EXCEPT !.action = kind, !.n = n]
      BY <1>20, <2>2 DEF HandleJob
    <3>2. request'.action \in JobKind /\ request'.n \in Int
      BY <3>1
    <3>3. QED
      BY <1>20, <2>2, <3>2 DEF HandleJob
  <2>3. QED
    BY <2>1, <2>2
<1>21. ASSUME NEW action \in JobKind \cup {"configure"}, HandleInvalid(action)
      PROVE  HostInv'
  BY <1>21 DEF HandleInvalid
<1>22. ASSUME NEW s \in Settings, HandleConfigure(s) PROVE HostInv'
  <2>1. CASE g_rng_busy # 0
    BY <1>22, <2>1 DEF HandleConfigure
  <2>2. CASE g_rng_busy = 0
    <3>1. request' = [NoRequest EXCEPT !.action = "configure", !.settings = s]
      BY <1>22, <2>2 DEF HandleConfigure
    <3>2. request'.settings \in Settings
      BY <3>1
    <3>3. QED
      BY <1>22, <2>2, <3>2 DEF HandleConfigure
  <2>3. QED
    BY <2>1, <2>2
<1>23. ASSUME NEW w \in Worker, CreateWorker(w) PROVE HostInv'
  <2> DEFINE r == [IdleJob EXCEPT !.pc = "start", !.kind = request.action,
                                  !.todo = request.n]
  <2>1. job' = [job EXCEPT ![w] = r] /\ ui = "create" /\ ui' = "idle"
        /\ g_worker_thread' = w /\ UNCHANGED << rngVars, g_rng_busy >>
    BY <1>23 DEF CreateWorker
  <2>2. r \in JobRecord /\ r.pc = "start"
    <3>1. request.action \in JobKind /\ request.n \in Int
      BY <2>1
    <3>2. QED
      BY <3>1, StartedRecord, Zenon
  <2> HIDE DEF r
  <2>3. \A v \in Worker : job[v].pc = "none"
    BY <2>1
  <2>4. \A v \in Worker : job'[v] = IF v = w THEN r ELSE job[v]
    BY <2>1
  <2>5. QED
    BY <2>1, <2>2, <2>3, <2>4
<1>24. CASE ReapDone
  <2>1. JobOK' /\ \A w \in Worker : job'[w].pc = "none"
    BY <1>24, ClosedHandle DEF ReapDone
  <2>2. QED
    BY <1>24, <2>1 DEF ReapDone, CloseHandle
<1>25. CASE WorkerStopped
  <2>1. JobOK' /\ \A w \in Worker : job'[w].pc = "none"
    BY <1>25, ClosedHandle DEF WorkerStopped
  <2>2. QED
    BY <1>25, <2>1 DEF WorkerStopped, CloseHandle, destroySide
<1>26. CASE UiInCall
  <2>1. UNCHANGED << uiSide, job, g_rng_busy >> /\ InCall(UI)
    BY <1>26 DEF UiInCall
  <2>2. RngStateOK' /\ CallInv'
    BY <2>1, InCallKeepsInv
  <2>3. QED
    BY <2>1, <2>2
<1>27. QED
  BY <1>1, <1>2, <1>3, <1>4, <1>5, <1>6, <1>7, <1>8, <1>9, <1>10, <1>11,
     <1>12, <1>13, <1>14, <1>15, <1>16, <1>17, <1>18, <1>19, <1>20, <1>21,
     <1>22, <1>23, <1>24, <1>25, <1>26
     DEF UiStep, UiEvent

(* Every step of the host preserves the invariant. *)
LEMMA StepKeepsHostInv ==
  ASSUME HostInv, [Next]_vars
  PROVE  HostInv'
<1>1. CASE UNCHANGED vars
  BY <1>1 DEF HostInv, RngStateOK, JobOK, OneJobAtATime, NoLeakedWorker, UiInv,
     CallInv, Active, vars, uiSide, rngVars, rngExceptRet
<1>2. CASE \E w \in Worker : WorkerStep(w)
  BY <1>2, WorkerKeepsHostInv
<1>3. CASE UiStep \/ UiEvent \/ TickStart
  BY <1>3, UiKeepsHostInv
<1>4. CASE Ended
  BY <1>1, <1>4 DEF Ended
<1>5. QED
  BY <1>1, <1>2, <1>3, <1>4 DEF Next

(* The invariant holds in every state. *)
LEMMA HostInvariant == Spec => []HostInv
BY InitEstablishesHostInv, StepKeepsHostInv, PTL DEF Spec

(* The busy flag admits one job at a time, and none while the UI thread reaps,
   creates or configures (main_gui.cpp TryAdmitJob, GenerateWorkerThread). *)
THEOREM OneJobInSlot == Spec => []OneJobAtATime
BY HostInvariant, PTL DEF HostInv

(* A running thread is always the one whose handle the UI thread keeps
   (main_gui.cpp ReapWorkerHandle). *)
THEOREM NoWorkerIsLeaked == Spec => []NoLeakedWorker
BY HostInvariant, PTL DEF HostInv

(* The UI thread never enters rng_lock while a worker may be reading under it
   (main_gui.cpp configure and WM_DESTROY, rng_wrapper.c). *)
THEOREM UiNeverWaits == Spec => []UiNeverWaitsForCollector
<1>1. HostInv => UiNeverWaitsForCollector
  BY DEF HostInv, UiNeverWaitsForCollector, OneJobAtATime, UiInv, CallInv,
         Active, Working, LockedCalls
<1>2. QED
  BY <1>1, HostInvariant, PTL
=============================================================================
