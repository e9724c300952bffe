---------------------------- MODULE GuiSessionProofs ----------------------------
(***************************************************************************)
(* For every set of workers and of settings: the host uses the wrapper by  *)
(* its operations only, stop requests stay, what a frame shows is in force *)
(* and the histogram describes it, benchmarks leave no collector, and the  *)
(* critical sections go last.  Then: the host implements JobSlot.          *)
(***************************************************************************)
EXTENDS GuiHostProofs, RngWrapperProofs

(* A stop request stands in the cancel flag; the flag is only reset while the
   next job is admitted, which began with no stop asked. *)
StopInv ==
  stop_asked => benchmark_cancel_requested = 1 /\ ui \notin {"reap", "create"}

(* Which of the wrapper's calls a thread can be in at each of its places. *)
PlaceInv ==
  /\ \A w \in Worker :
       /\ call[w] \in {"self_test", "alloc"} => job[w].pc = "inited"
       /\ call[w] \in {"read", "record"} => job[w].pc = "read"
       /\ call[w] = "unset" => job[w].pc \in {"init", "timeline"}
       /\ call[w] # "status"
  /\ call[UI] \in {"idle", "unset", "status"}
  /\ call[UI] = "status" => ui = "tick_take"
  /\ call[UI] = "unset" => ui \in {"cfg_store", "destroy_delete"}

(* Between storing new settings and showing them, the UI thread knows from
   the return code which of the two hold. *)
DisplayInv ==
  /\ FrameShowsSettings
  /\ ui = "cfg_apply" =>
       IF ret[UI] = "ok" THEN current_settings = request.settings
                         ELSE g_ui_settings = current_settings

(* A job in its loop has a live collector, and the bytes it has produced came
   from the settings in force. *)
OriginInv ==
  \A w \in Worker :
    /\ job[w].pc = "inited" /\ call[w] = "idle" /\ ret[w] = "ok" =>
         rng_collector # NoSettings
    /\ job[w].pc \in {"loop", "read"} => rng_collector # NoSettings
    /\ job[w].pc = "read" => job[w].from = current_settings
    /\ job[w].produced => Active(w) /\ job[w].from = current_settings

HistInv ==
  ~(ui = "cfg_apply" /\ ret[UI] = "ok") => g_session_hist \subseteq {g_ui_settings}

BenchInv ==
  \A w \in Worker :
    /\ job[w].kind = "benchmark"
    /\ job[w].pc \in {"timeline", "publish", "leave", "clear"}
    /\ ret[w] # "alloc_failed"
    => rng_collector = NoSettings

(* The flag lags behind the collector only inside shutdown_rng. *)
HonestInv ==
  /\ (\E t \in Thread : call[t] = "unset") => rng_collector = NoSettings
  /\ (\A t \in Thread : call[t] # "unset") =>
       initialized = (rng_collector # NoSettings)

EndInv ==
  /\ g_rng_busy_lock # Free =>
       /\ g_rng_busy_lock \in Worker
       /\ job[g_rng_busy_lock].pc \in Working \ {"start", "clear"}
  /\ ui \in {"destroy_delete", "quit"} => rng_collector = NoSettings

MailInv ==
  /\ g_pending_worker_result \in Results \cup {NoResult}
  /\ frame \in [result : Results \cup {NoResult}, busy : BOOLEAN]
  /\ g_last_timeline \in [valid : BOOLEAN, pending : BOOLEAN]

SessionInv ==
  /\ ret \in [Thread -> Codes]
  /\ StopInv /\ PlaceInv /\ DisplayInv /\ OriginInv /\ HistInv
  /\ BenchInv /\ HonestInv /\ EndInv /\ MailInv
  /\ PendingTimelineHasResult

USE SettingsAssumption, FreeAssumption, ThreadAssumption

(* Whatever the host does, the wrapper sees one of its own operations. *)
LEMMA HostCallsWrapper ==
  ASSUME HostInv, [Next]_vars
  PROVE  [RngNext]_rngExceptRet
<1>1. CASE UNCHANGED rngExceptRet
  BY <1>1
<1>2. ASSUME NEW w \in Worker, WorkerStep(w)
      PROVE  RngNext \/ UNCHANGED rngExceptRet
  <2>1. CASE \/ WorkerStart(w) \/ WorkerInited(w) \/ LoopDone(w)
             \/ LoopCancelled(w) \/ ReadReturned(w) \/ RecordTimeline(w)
             \/ PublishResult(w) \/ LeaveBusyLock(w) \/ ClearBusy(w)
             \/ WorkerExit(w)
    BY <2>1 DEF rngVars, WorkerStart, WorkerInited, LoopDone, LoopCancelled,
       ReadReturned, RecordTimeline, PublishResult, LeaveBusyLock, ClearBusy,
       WorkerExit
  <2>2. CASE BenchmarkSetup(w) \/ BenchmarkCleanup(w)
    BY <2>2 DEF BenchmarkSetup, BenchmarkCleanup, RngNext
  <2>3. CASE WorkerInit(w) \/ LoopRead(w)
    BY <2>3 DEF WorkerInit, LoopRead, RngNext
  <2>4. CASE WorkerInCall(w)
    BY <2>4 DEF WorkerInCall, RngNext
  <2>5. QED
    BY <1>2, <2>1, <2>2, <2>3, <2>4 DEF WorkerStep
<1>3. ASSUME UiStep \/ UiEvent \/ TickStart
      PROVE  RngNext \/ UNCHANGED rngExceptRet
  <2>1. CASE \/ ReapDone \/ ReapTimeout \/ CreateFails
             \/ \E w \in Worker : CreateWorker(w)
             \/ ConfigureGet \/ ConfigureApply \/ WorkerStopped \/ WorkerStuck
             \/ DestroyDelete \/ ClearTimeline
    BY <2>1 DEF rngVars, ReapDone, ReapTimeout, CreateFails, CreateWorker,
       ClearTimeline, ConfigureGet, ConfigureApply, WorkerStopped, WorkerStuck, DestroyDelete
  <2>2. CASE TickStart \/ TickTake \/ TickBusy \/ TickTimeline \/ TickPost
    BY <2>2 DEF rngVars, TickStart, TickTake, TickBusy, TickTimeline, TickPost
  <2>3. CASE UiEvent
    BY <2>3 DEF UiEvent, rngVars, ControllerCreated, HandleJob, HandleInvalid,
       HandleConfigure, HandleCancel, HandleClear, HandleDestroy, clearSide
  <2>4. CASE ConfigureShutdown \/ DestroyFree
    BY <2>4 DEF ConfigureShutdown, DestroyFree, RngNext
  <2>5. CASE ConfigureStore
    BY <2>5 DEF ConfigureStore, HostInv, UiInv, At, RngNext
  <2>6. CASE TickStatus \/ UiInCall
    BY <2>6 DEF TickStatus, UiInCall, RngNext, rngVars
  <2>7. QED
    BY <1>3, <2>1, <2>2, <2>3, <2>4, <2>5, <2>6 DEF UiStep
<1>4. QED
  BY <1>1, <1>2, <1>3 DEF Next, Ended, vars, rngVars

(* A worker's step leaves the UI thread's own variables alone. *)
LEMMA WorkerKeepsUi ==
  ASSUME NEW w \in Worker, WorkerStep(w)
  PROVE  UNCHANGED uiSide
BY DEF WorkerStep, WorkerStart, BenchmarkSetup, WorkerInit, WorkerInited,
   LoopDone, LoopCancelled, LoopRead, ReadReturned, BenchmarkCleanup,
   RecordTimeline, PublishResult, LeaveBusyLock, ClearBusy, WorkerExit,
   WorkerInCall

(* The UI thread's steps that touch neither the wrapper nor a worker. *)
UiQuiet ==
  \/ ControllerCreated \/ ReapTimeout \/ CreateFails
  \/ ConfigureGet \/ ConfigureApply
  \/ TickStart \/ TickTake \/ TickBusy \/ TickTimeline \/ TickPost
  \/ \E kind \in JobKind, n \in 1..MaxChunks : HandleJob(kind, n)
  \/ \E action \in JobKind \cup {"configure"} : HandleInvalid(action)
  \/ \E s \in Settings : HandleConfigure(s)
  \/ HandleCancel \/ HandleClear \/ ClearTimeline
  \/ HandleDestroy \/ WorkerStuck \/ DestroyDelete

LEMMA UiQuietKeeps ==
  ASSUME UiQuiet
  PROVE  UNCHANGED << rngVars, workerSide >>
BY DEF UiQuiet, ControllerCreated, ReapTimeout, CreateFails, ConfigureGet,
   ConfigureApply, TickStart, TickTake, TickBusy, TickTimeline, TickPost,
   HandleJob, HandleInvalid, HandleConfigure, HandleCancel, HandleClear,
   ClearTimeline, clearSide,
   HandleDestroy, WorkerStuck, DestroyDelete

(* Every step of the host, sorted by what it can disturb. *)
LEMMA StepCases ==
  ASSUME [Next]_vars
  PROVE  \/ \E w \in Worker : WorkerStep(w)
         \/ UiQuiet
         \/ ReapDone \/ WorkerStopped \/ \E w \in Worker : CreateWorker(w)
         \/ ConfigureShutdown \/ ConfigureStore \/ DestroyFree
         \/ TickStatus \/ UiInCall
         \/ UNCHANGED vars
BY DEF Next, UiStep, UiEvent, UiQuiet, Ended

-----------------------------------------------------------------------------
(* Stop requests: HandleJob begins an admission, ReapDone resets the flag. *)
LEMMA StopStep ==
  ASSUME StopInv, [Next]_vars
  PROVE  StopInv'
<1> USE DEF StopInv, uiSide, At, Idle
<1>1. CASE \E w \in Worker : WorkerStep(w)
  BY <1>1, WorkerKeepsUi
<1>2. CASE UiQuiet
  BY <1>2 DEF UiQuiet, ControllerCreated, ReapTimeout, CreateFails,
     ConfigureGet, ConfigureApply, TickStart, TickTake, TickBusy, TickTimeline,
     TickPost, HandleJob, HandleInvalid, HandleConfigure, HandleCancel,
     HandleClear, ClearTimeline, clearSide,
     HandleDestroy, WorkerStuck, DestroyDelete, frameSide
<1>3. CASE ReapDone
  BY <1>3 DEF ReapDone
<1>4. CASE \/ WorkerStopped \/ (\E w \in Worker : CreateWorker(w))
           \/ ConfigureShutdown \/ ConfigureStore \/ DestroyFree
           \/ TickStatus \/ UiInCall
  BY <1>4 DEF WorkerStopped, CreateWorker, ConfigureShutdown, ConfigureStore,
     DestroyFree, TickStatus, UiInCall, frameSide
<1>5. CASE UNCHANGED vars
  BY <1>5 DEF vars
<1>6. QED
  BY <1>1, <1>2, <1>3, <1>4, <1>5, StepCases

(* The invariant of the host as a whole. *)
AllInv == HostInv /\ RngCore /\ SessionInv

(* Return codes are the wrapper's or the host's own. *)
LEMMA CodesStep ==
  ASSUME AllInv, [Next]_vars
  PROVE  ret' \in [Thread -> Codes]
<1> USE DEF AllInv, SessionInv, Codes, RngCodes, InitErrors, ReadErrors
<1>1. ASSUME NEW w \in Worker, WorkerStep(w)
      PROVE  ret' \in [Thread -> Codes]
  <2>1. CASE WorkerInCall(w)
    BY <2>1 DEF WorkerInCall, InCall, EntropyInit, SelfTestPasses,
       SelfTestFails, CollectorAlloc, ReadEntropySafe, RecordAttempt,
       ClearInitialized, StatusEnd, Leave
  <2>2. CASE BenchmarkSetup(w) \/ WorkerInit(w) \/ LoopRead(w) \/ BenchmarkCleanup(w)
    BY <2>2 DEF BenchmarkSetup, WorkerInit, LoopRead, BenchmarkCleanup,
       ShutdownRng, InitRng, GetRandomBytes
  <2>3. CASE \/ WorkerStart(w) \/ WorkerInited(w) \/ LoopDone(w)
             \/ LoopCancelled(w) \/ ReadReturned(w) \/ RecordTimeline(w)
             \/ PublishResult(w) \/ LeaveBusyLock(w) \/ ClearBusy(w)
             \/ WorkerExit(w)
    BY <2>3 DEF rngVars, WorkerStart, WorkerInited, LoopDone, LoopCancelled,
       ReadReturned, RecordTimeline, PublishResult, LeaveBusyLock, ClearBusy,
       WorkerExit
  <2>4. QED
    BY <1>1, <2>1, <2>2, <2>3 DEF WorkerStep
<1>2. CASE UiQuiet
  BY <1>2, UiQuietKeeps DEF rngVars
<1>3. CASE \/ ReapDone \/ WorkerStopped \/ \E w \in Worker : CreateWorker(w)
  BY <1>3 DEF ReapDone, WorkerStopped, CreateWorker, rngVars
<1>4. CASE ConfigureShutdown \/ ConfigureStore \/ DestroyFree \/ TickStatus
  BY <1>4 DEF ConfigureShutdown, ConfigureStore, DestroyFree, TickStatus,
     ShutdownRng, RngConfigure, StatusBegin, rngVars
<1>5. CASE UiInCall
  BY <1>5 DEF UiInCall, InCall, EntropyInit, SelfTestPasses,
     SelfTestFails, CollectorAlloc, ReadEntropySafe, RecordAttempt,
     ClearInitialized, StatusEnd, Leave
<1>6. CASE UNCHANGED vars
  BY <1>6 DEF vars, rngVars
<1>7. QED
  BY <1>1, <1>2, <1>3, <1>4, <1>5, <1>6, StepCases

(* Where a thread is inside the wrapper follows from where it is outside. *)
LEMMA PlaceStep ==
  ASSUME AllInv, [Next]_vars
  PROVE  PlaceInv'
<1> USE DEF AllInv, SessionInv, PlaceInv, HostInv, RngStateOK, JobOK, JobRecord,
            WorkerSteps, Working, rngVars, rngExceptRet, Returned, Goto
<1>1. ASSUME NEW w \in Worker, WorkerStep(w)
      PROVE  PlaceInv'
  <2> UNCHANGED ui
    BY <1>1, WorkerKeepsUi DEF uiSide
  <2>1. CASE WorkerInCall(w)
    BY <2>1 DEF WorkerInCall, InCall, EntropyInit, SelfTestPasses,
       SelfTestFails, CollectorAlloc, ReadEntropySafe, RecordAttempt,
       ClearInitialized, StatusEnd, Leave
  <2>2. CASE BenchmarkSetup(w) \/ BenchmarkCleanup(w)
    BY <2>2 DEF BenchmarkSetup, BenchmarkCleanup, ShutdownRng, CanEnter
  <2>3. CASE WorkerInit(w)
    BY <2>3 DEF WorkerInit, InitRng, CanEnter
  <2>4. CASE LoopRead(w)
    BY <2>4 DEF LoopRead, GetRandomBytes, CanEnter
  <2>5. CASE \/ WorkerStart(w) \/ WorkerInited(w) \/ LoopDone(w)
             \/ LoopCancelled(w) \/ ReadReturned(w) \/ RecordTimeline(w)
             \/ PublishResult(w) \/ LeaveBusyLock(w) \/ ClearBusy(w)
             \/ WorkerExit(w)
    BY <2>5 DEF WorkerStart, WorkerInited, LoopDone, LoopCancelled,
       ReadReturned, RecordTimeline, PublishResult, LeaveBusyLock, ClearBusy,
       WorkerExit, EndOfRun
  <2>6. QED
    BY <1>1, <2>1, <2>2, <2>3, <2>4, <2>5 DEF WorkerStep
<1>2. CASE UiQuiet
  <2>1. call' = call /\ job' = job
    BY <1>2, UiQuietKeeps DEF workerSide
  <2>2. call[UI] = "idle"
    BY <1>2 DEF UiQuiet, ControllerCreated, ReapTimeout, CreateFails,
       ConfigureGet, ConfigureApply, TickStart, TickTake, TickBusy,
       TickTimeline, TickPost, HandleJob, HandleInvalid, HandleConfigure,
       HandleCancel, HandleClear, ClearTimeline, clearSide,
       HandleDestroy, WorkerStuck, DestroyDelete,
       At, Idle
  <2>3. QED
    BY <2>1, <2>2
<1>3. CASE \/ ReapDone \/ WorkerStopped \/ \E w \in Worker : CreateWorker(w)
  BY <1>3 DEF ReapDone, WorkerStopped, CreateWorker, CloseHandle, IdleJob, At,
     CallInv
<1>4. CASE ConfigureShutdown \/ ConfigureStore \/ DestroyFree \/ TickStatus
  BY <1>4 DEF ConfigureShutdown, ConfigureStore, DestroyFree, TickStatus,
     ShutdownRng, RngConfigure, StatusBegin, CanEnter, At, workerSide
<1>5. CASE UiInCall
  BY <1>5 DEF UiInCall, InCall, EntropyInit, SelfTestPasses,
     SelfTestFails, CollectorAlloc, ReadEntropySafe, RecordAttempt,
     ClearInitialized, StatusEnd, Leave, uiSide
<1>6. CASE UNCHANGED vars
  BY <1>6 DEF vars, uiSide
<1>7. QED
  BY <1>1, <1>2, <1>3, <1>4, <1>5, <1>6, StepCases

(* What is on display: only ConfigureStore changes the settings in force, and
   the UI thread then shows what its return code says. *)
LEMMA DisplayStep ==
  ASSUME AllInv, [Next]_vars
  PROVE  DisplayInv'
<1> USE DEF AllInv, SessionInv, DisplayInv, FrameShowsSettings, HostInv,
            RngStateOK, UiInv, rngVars, rngExceptRet, At, Idle
<1>1. ASSUME NEW w \in Worker, WorkerStep(w)
      PROVE  DisplayInv'
  <2>1. UNCHANGED << ui, request, g_ui_settings >>
    BY <1>1, WorkerKeepsUi DEF uiSide
  <2>2. current_settings' = current_settings /\ ret'[UI] = ret[UI]
    <3>1. CASE WorkerInCall(w)
      BY <3>1 DEF WorkerInCall, InCall, EntropyInit, SelfTestPasses,
         SelfTestFails, CollectorAlloc, ReadEntropySafe, RecordAttempt,
         ClearInitialized, StatusEnd, Leave
    <3>2. CASE \/ BenchmarkSetup(w) \/ WorkerInit(w) \/ LoopRead(w)
               \/ BenchmarkCleanup(w)
      BY <3>2 DEF BenchmarkSetup, WorkerInit, LoopRead, BenchmarkCleanup,
         ShutdownRng, InitRng, GetRandomBytes
    <3>3. CASE \/ WorkerStart(w) \/ WorkerInited(w) \/ LoopDone(w)
               \/ LoopCancelled(w) \/ ReadReturned(w) \/ RecordTimeline(w)
               \/ PublishResult(w) \/ LeaveBusyLock(w) \/ ClearBusy(w)
               \/ WorkerExit(w)
      BY <3>3 DEF WorkerStart, WorkerInited, LoopDone, LoopCancelled,
         ReadReturned, RecordTimeline, PublishResult, LeaveBusyLock,
         ClearBusy, WorkerExit
    <3>4. QED
      BY <1>1, <3>1, <3>2, <3>3 DEF WorkerStep
  <2>3. QED
    BY <2>1, <2>2
<1>2. CASE ConfigureApply
  BY <1>2 DEF ConfigureApply
<1>3. CASE UiQuiet /\ ~ConfigureApply
  BY <1>3 DEF UiQuiet, ControllerCreated, ReapTimeout, CreateFails,
     ConfigureGet, TickStart, TickTake, TickBusy, TickTimeline,
     TickPost, HandleJob, HandleInvalid, HandleConfigure, HandleCancel,
     HandleClear, ClearTimeline, clearSide,
     HandleDestroy, WorkerStuck, DestroyDelete, frameSide,
     destroySide, uiSide
<1>4. CASE ConfigureStore
  BY <1>4 DEF ConfigureStore, RngConfigure
<1>5. CASE \/ ReapDone \/ WorkerStopped \/ (\E w \in Worker : CreateWorker(w))
           \/ ConfigureShutdown \/ DestroyFree \/ TickStatus
  BY <1>5 DEF ReapDone, WorkerStopped, CreateWorker, ConfigureShutdown,
     DestroyFree, TickStatus, ShutdownRng, StatusBegin, frameSide, destroySide
<1>6. CASE UiInCall
  BY <1>6 DEF UiInCall, uiSide, PlaceInv, InCall, EntropyInit, SelfTestPasses,
     SelfTestFails, CollectorAlloc, ReadEntropySafe, RecordAttempt,
     ClearInitialized, StatusEnd, Leave
<1>7. CASE UNCHANGED vars
  BY <1>7 DEF vars, uiSide
<1>8. QED
  BY <1>1, <1>2, <1>3, <1>4, <1>5, <1>6, <1>7, StepCases

(* The steps of the UI thread that change the wrapper's settings or free its
   collector come when no worker is in its job. *)
LEMMA NobodyWorks ==
  ASSUME AllInv, ConfigureShutdown \/ ConfigureStore \/ DestroyFree
  PROVE  \A w \in Worker : ~Active(w) /\ call[w] = "idle"
<1>1. \A w \in Worker : ~Active(w)
  BY DEF AllInv, HostInv, OneJobAtATime, UiInv, Active, Working,
     ConfigureShutdown, ConfigureStore, DestroyFree, At
<1>2. QED
  BY <1>1 DEF AllInv, HostInv, CallInv, Active, Working

(* A job keeps its collector, and the settings it began with. *)
LEMMA OriginStep ==
  ASSUME AllInv, [Next]_vars
  PROVE  OriginInv'
<1> USE DEF AllInv, SessionInv, OriginInv, HostInv, RngStateOK, JobOK, JobRecord,
            WorkerSteps, Working, Active, rngVars, rngExceptRet, Returned, Goto
<1>1. ASSUME NEW w \in Worker, WorkerStep(w)
      PROVE  OriginInv'
  <2> USE DEF OneJobAtATime
  <2>1. CASE WorkerInCall(w)
    BY <2>1 DEF WorkerInCall, PlaceInv, InCall, EntropyInit, SelfTestPasses,
       SelfTestFails, CollectorAlloc, ReadEntropySafe, RecordAttempt,
       ClearInitialized, StatusEnd, Leave, RngCore, InitInv
  <2>2. CASE BenchmarkSetup(w) \/ BenchmarkCleanup(w)
    BY <2>2 DEF BenchmarkSetup, BenchmarkCleanup, ShutdownRng
  <2>3. CASE WorkerInit(w)
    BY <2>3 DEF WorkerInit, InitRng, CanEnter
  <2>4. CASE LoopRead(w)
    BY <2>4 DEF LoopRead, GetRandomBytes, RngCore, CollectorMatchesSettings
  <2>5. CASE \/ WorkerStart(w) \/ WorkerInited(w) \/ LoopDone(w)
             \/ LoopCancelled(w) \/ ReadReturned(w) \/ RecordTimeline(w)
    BY <2>5 DEF WorkerStart, WorkerInited, LoopDone, LoopCancelled,
       ReadReturned, RecordTimeline, EndOfRun
  <2>6. CASE PublishResult(w) \/ LeaveBusyLock(w) \/ ClearBusy(w) \/ WorkerExit(w)
    BY <2>6 DEF PublishResult, LeaveBusyLock, ClearBusy, WorkerExit, IdleJob
  <2>7. QED
    BY <1>1, <2>1, <2>2, <2>3, <2>4, <2>5, <2>6 DEF WorkerStep
<1>2. CASE UiQuiet
  BY <1>2, UiQuietKeeps DEF workerSide
<1>3. CASE ReapDone \/ WorkerStopped
  <2>1. UNCHANGED rngVars /\ CloseHandle
    BY <1>3 DEF ReapDone, WorkerStopped
  <2>2. \A w \in Worker : job'[w] \in {IdleJob, job[w]}
    BY <2>1 DEF CloseHandle
  <2>3. QED
    BY <2>1, <2>2 DEF IdleJob
<1>4. ASSUME NEW w \in Worker, CreateWorker(w)
      PROVE  OriginInv'
  <2>1. UNCHANGED rngVars
        /\ job' = [job EXCEPT ![w] = [IdleJob EXCEPT !.pc = "start",
                     !.kind = request.action, !.todo = request.n]]
    BY <1>4 DEF CreateWorker
  <2>2. \A v \in Worker : v # w => job'[v] = job[v]
    BY <2>1
  <2>3. job'[w].pc = "start" /\ job'[w].produced = FALSE
    BY <2>1 DEF IdleJob
  <2>4. QED
    BY <2>1, <2>2, <2>3
<1>5. CASE ConfigureShutdown \/ ConfigureStore \/ DestroyFree
  <2>1. UNCHANGED job
    BY <1>5 DEF ConfigureShutdown, ConfigureStore, DestroyFree, workerSide
  <2>2. QED
    BY <1>5, <2>1, NobodyWorks
<1>6. CASE TickStatus
  BY <1>6 DEF TickStatus, StatusBegin, workerSide
<1>7. CASE UiInCall
  BY <1>7 DEF UiInCall, PlaceInv, InCall, EntropyInit, SelfTestPasses,
     SelfTestFails, CollectorAlloc, ReadEntropySafe, RecordAttempt,
     ClearInitialized, StatusEnd, Leave
<1>8. CASE UNCHANGED vars
  BY <1>8 DEF vars
<1>9. QED
  BY <1>1, <1>2, <1>3, <1>4, <1>5, <1>6, <1>7, <1>8, StepCases

(* The histogram counts one configuration: what is added comes from a job,
   and no job runs while the settings on display differ from those in force. *)
LEMMA HistStep ==
  ASSUME AllInv, [Next]_vars
  PROVE  HistInv'
<1> USE DEF AllInv, SessionInv, HistInv, DisplayInv, FrameShowsSettings, HostInv,
            RngStateOK, UiInv, rngVars, rngExceptRet, At, Idle, published
<1>1. ASSUME NEW w \in Worker, PublishResult(w)
      PROVE  HistInv'
  <2>1. UNCHANGED << rngVars, uiSide >>
    BY <1>1 DEF PublishResult
  <2>2. job[w].produced =>
          ui # "cfg_apply" /\ job[w].from = g_ui_settings
    BY DEF OriginInv, OneJobAtATime, Active
  <2>3. g_session_hist' \subseteq g_session_hist \cup {g_ui_settings}
        /\ (~job[w].produced => g_session_hist' = g_session_hist)
    BY <1>1, <2>2 DEF PublishResult
  <2>4. QED
    BY <2>1, <2>2, <2>3 DEF uiSide
<1>2. ASSUME NEW w \in Worker, WorkerStep(w), ~PublishResult(w)
      PROVE  HistInv'
  <2>1. UNCHANGED << ui, g_ui_settings >>
    BY <1>2, WorkerKeepsUi DEF uiSide
  <2>2. g_session_hist' = g_session_hist /\ ret'[UI] = ret[UI]
    <3>1. CASE WorkerInCall(w)
      BY <3>1 DEF WorkerInCall, InCall, EntropyInit, SelfTestPasses,
         SelfTestFails, CollectorAlloc, ReadEntropySafe, RecordAttempt,
         ClearInitialized, StatusEnd, Leave
    <3>2. CASE \/ BenchmarkSetup(w) \/ WorkerInit(w) \/ LoopRead(w)
               \/ BenchmarkCleanup(w)
      BY <3>2 DEF BenchmarkSetup, WorkerInit, LoopRead, BenchmarkCleanup,
         ShutdownRng, InitRng, GetRandomBytes
    <3>3. CASE \/ WorkerStart(w) \/ WorkerInited(w) \/ LoopDone(w)
               \/ LoopCancelled(w) \/ ReadReturned(w) \/ RecordTimeline(w)
               \/ LeaveBusyLock(w) \/ ClearBusy(w) \/ WorkerExit(w)
      BY <3>3 DEF WorkerStart, WorkerInited, LoopDone, LoopCancelled,
         ReadReturned, RecordTimeline, LeaveBusyLock, ClearBusy, WorkerExit
    <3>4. QED
      BY <1>2, <3>1, <3>2, <3>3 DEF WorkerStep
  <2>3. QED
    BY <2>1, <2>2
<1>3. CASE ConfigureApply
  BY <1>3 DEF ConfigureApply, ResetSessionHist
<1>4. CASE UiQuiet /\ ~ConfigureApply
  BY <1>4 DEF UiQuiet, ControllerCreated, ReapTimeout, CreateFails,
     ConfigureGet, TickStart, TickTake, TickBusy, TickTimeline,
     TickPost, HandleJob, HandleInvalid, HandleConfigure, HandleCancel,
     HandleClear, ClearTimeline, clearSide,
     HandleDestroy, WorkerStuck, DestroyDelete, frameSide,
     destroySide, uiSide, ResetSessionHist
<1>5. CASE \/ ReapDone \/ WorkerStopped \/ (\E w \in Worker : CreateWorker(w))
           \/ ConfigureShutdown \/ ConfigureStore \/ DestroyFree \/ TickStatus
  BY <1>5 DEF ReapDone, WorkerStopped, CreateWorker, ConfigureShutdown,
     ConfigureStore, DestroyFree, TickStatus, frameSide, destroySide
<1>6. CASE UiInCall
  BY <1>6 DEF UiInCall, uiSide, PlaceInv, InCall, EntropyInit, SelfTestPasses,
     SelfTestFails, CollectorAlloc, ReadEntropySafe, RecordAttempt,
     ClearInitialized, StatusEnd, Leave
<1>7. CASE UNCHANGED vars
  BY <1>7 DEF vars, uiSide
<1>8. QED
  BY <1>1, <1>2, <1>3, <1>4, <1>5, <1>6, <1>7, StepCases

(* A benchmark past its cleanup has no collector, and nobody builds one. *)
LEMMA BenchStep ==
  ASSUME AllInv, [Next]_vars
  PROVE  BenchInv'
<1> USE DEF AllInv, SessionInv, BenchInv, HostInv, RngStateOK, JobOK, JobRecord,
            WorkerSteps, Working, Active, rngVars, rngExceptRet, Returned, Goto
<1>1. ASSUME NEW w \in Worker, WorkerStep(w)
      PROVE  BenchInv'
  <2> USE DEF OneJobAtATime
  <2>1. CASE WorkerInCall(w)
    BY <2>1 DEF WorkerInCall, PlaceInv, InCall, EntropyInit, SelfTestPasses,
       SelfTestFails, CollectorAlloc, ReadEntropySafe, RecordAttempt,
       ClearInitialized, StatusEnd, Leave
  <2>2. CASE BenchmarkSetup(w) \/ BenchmarkCleanup(w)
    BY <2>2 DEF BenchmarkSetup, BenchmarkCleanup, ShutdownRng
  <2>3. CASE WorkerInit(w)
    BY <2>3 DEF WorkerInit, InitRng, CanEnter
  <2>4. CASE LoopRead(w)
    BY <2>4 DEF LoopRead, GetRandomBytes
  <2>5. CASE \/ WorkerStart(w) \/ WorkerInited(w) \/ LoopDone(w)
             \/ LoopCancelled(w) \/ ReadReturned(w) \/ RecordTimeline(w)
    BY <2>5 DEF WorkerStart, WorkerInited, LoopDone, LoopCancelled,
       ReadReturned, RecordTimeline, EndOfRun
  <2>6. CASE PublishResult(w) \/ LeaveBusyLock(w) \/ ClearBusy(w) \/ WorkerExit(w)
    BY <2>6 DEF PublishResult, LeaveBusyLock, ClearBusy, WorkerExit, IdleJob
  <2>7. QED
    BY <1>1, <2>1, <2>2, <2>3, <2>4, <2>5, <2>6 DEF WorkerStep
<1>2. CASE UiQuiet
  BY <1>2, UiQuietKeeps DEF workerSide
<1>3. CASE ReapDone \/ WorkerStopped
  <2>1. UNCHANGED rngVars /\ CloseHandle
    BY <1>3 DEF ReapDone, WorkerStopped
  <2>2. \A w \in Worker : job'[w] \in {IdleJob, job[w]}
    BY <2>1 DEF CloseHandle
  <2>3. QED
    BY <2>1, <2>2 DEF IdleJob
<1>4. ASSUME NEW w \in Worker, CreateWorker(w)
      PROVE  BenchInv'
  <2>1. UNCHANGED rngVars
        /\ job' = [job EXCEPT ![w] = [IdleJob EXCEPT !.pc = "start",
                     !.kind = request.action, !.todo = request.n]]
    BY <1>4 DEF CreateWorker
  <2>2. \A v \in Worker : v # w => job'[v] = job[v]
    BY <2>1
  <2>3. job'[w].pc = "start"
    BY <2>1 DEF IdleJob
  <2>4. QED
    BY <2>1, <2>2, <2>3
<1>5. CASE ConfigureShutdown \/ ConfigureStore \/ DestroyFree
  <2>1. UNCHANGED job
    BY <1>5 DEF ConfigureShutdown, ConfigureStore, DestroyFree, workerSide
  <2>2. QED
    BY <1>5, <2>1, NobodyWorks
<1>6. CASE TickStatus
  BY <1>6 DEF TickStatus, StatusBegin, workerSide
<1>7. CASE UiInCall
  BY <1>7 DEF UiInCall, PlaceInv, InCall, EntropyInit, SelfTestPasses,
     SelfTestFails, CollectorAlloc, ReadEntropySafe, RecordAttempt,
     ClearInitialized, StatusEnd, Leave
<1>8. CASE UNCHANGED vars
  BY <1>8 DEF vars
<1>9. QED
  BY <1>1, <1>2, <1>3, <1>4, <1>5, <1>6, <1>7, <1>8, StepCases

(* A rest of a wrapper call by a thread that no other thread's shutdown can
   overlap keeps the health flag honest. *)
LEMMA HonestCall ==
  ASSUME AllInv, NEW t \in Thread, InCall(t),
         call[t] \in {"self_test", "alloc"} =>
           \A v \in Thread : call[v] # "unset"
  PROVE  HonestInv'
<1> USE DEF AllInv, HonestInv, HostInv, RngStateOK
<1>1. CASE SelfTestPasses(t)
  BY <1>1 DEF SelfTestPasses, SessionInv
<1>2. CASE SelfTestFails(t)
  <2>1. rng_collector = NoSettings
    BY <1>2 DEF SelfTestFails, RngCore, InitInv
  <2>2. QED
    BY <1>2, <2>1 DEF SelfTestFails, Leave, SessionInv
<1>3. CASE CollectorAlloc(t)
  <2>1. \A v \in Thread : call'[v] # "unset"
    BY <1>3 DEF CollectorAlloc, Leave
  <2>2. flags[t] \in Settings /\ rng_collector = NoSettings
    BY <1>3 DEF CollectorAlloc, RngCore, InitInv
  <2>3. initialized' = (rng_collector' # NoSettings)
    <3>1. CASE rng_collector' = flags[t] /\ initialized' = TRUE
      BY <2>2, <3>1
    <3>2. CASE rng_collector' = rng_collector /\ initialized' = FALSE
      BY <2>2, <3>2
    <3>3. QED
      BY <1>3, <3>1, <3>2 DEF CollectorAlloc
  <2>4. QED
    BY <2>1, <2>3
<1>4. CASE ReadEntropySafe(t) \/ RecordAttempt(t) \/ StatusEnd(t)
  BY <1>4 DEF ReadEntropySafe, RecordAttempt, StatusEnd, Leave, SessionInv
<1>5. CASE ClearInitialized(t)
  BY <1>5 DEF ClearInitialized, SessionInv
<1>6. QED
  BY <1>1, <1>2, <1>3, <1>4, <1>5 DEF InCall, EntropyInit

LEMMA HonestStep ==
  ASSUME AllInv, [Next]_vars
  PROVE  HonestInv'
<1> USE DEF AllInv, SessionInv, HonestInv, HostInv, RngStateOK, rngVars,
            rngExceptRet
<1>1. ASSUME NEW w \in Worker, WorkerStep(w)
      PROVE  HonestInv'
  <2>1. CASE WorkerInCall(w)
    <3>1. call[w] \in {"self_test", "alloc"} =>
            \A v \in Thread : call[v] # "unset"
      BY DEF PlaceInv, OneJobAtATime, Active, Working, UiInv
    <3>2. QED
      BY <2>1, <3>1, HonestCall DEF WorkerInCall
  <2>2. CASE BenchmarkSetup(w) \/ BenchmarkCleanup(w)
    BY <2>2 DEF BenchmarkSetup, BenchmarkCleanup, ShutdownRng, CanEnter
  <2>3. CASE WorkerInit(w)
    BY <2>3 DEF WorkerInit, InitRng, CanEnter
  <2>4. CASE LoopRead(w)
    BY <2>4 DEF LoopRead, GetRandomBytes, CanEnter
  <2>5. CASE \/ WorkerStart(w) \/ WorkerInited(w) \/ LoopDone(w)
             \/ LoopCancelled(w) \/ ReadReturned(w) \/ RecordTimeline(w)
             \/ PublishResult(w) \/ LeaveBusyLock(w) \/ ClearBusy(w)
             \/ WorkerExit(w)
    BY <2>5 DEF WorkerStart, WorkerInited, LoopDone, LoopCancelled,
       ReadReturned, RecordTimeline, PublishResult, LeaveBusyLock, ClearBusy,
       WorkerExit
  <2>6. QED
    BY <1>1, <2>1, <2>2, <2>3, <2>4, <2>5 DEF WorkerStep
<1>2. CASE UiQuiet
  BY <1>2, UiQuietKeeps
<1>3. CASE \/ ReapDone \/ WorkerStopped \/ \E w \in Worker : CreateWorker(w)
  BY <1>3 DEF ReapDone, WorkerStopped, CreateWorker
<1>4. CASE ConfigureShutdown \/ DestroyFree
  BY <1>4 DEF ConfigureShutdown, DestroyFree, ShutdownRng, CanEnter
<1>5. CASE ConfigureStore \/ TickStatus
  BY <1>5 DEF ConfigureStore, TickStatus, RngConfigure, StatusBegin, CanEnter
<1>6. CASE UiInCall
  <2>1. call[UI] \notin {"self_test", "alloc"}
    BY DEF PlaceInv
  <2>2. QED
    BY <1>6, <2>1, HonestCall DEF UiInCall
<1>7. CASE UNCHANGED vars
  BY <1>7 DEF vars
<1>8. QED
  BY <1>1, <1>2, <1>3, <1>4, <1>5, <1>6, <1>7, StepCases

(* The worker's lock is held inside its job only, and once the collector is
   freed at the end nobody builds another. *)
LEMMA EndStep ==
  ASSUME AllInv, [Next]_vars
  PROVE  EndInv'
<1> USE DEF AllInv, SessionInv, EndInv, HostInv, RngStateOK, JobOK, JobRecord,
            WorkerSteps, Working, UiInv, rngVars, rngExceptRet, Returned, Goto
<1>1. ASSUME NEW w \in Worker, WorkerStep(w)
      PROVE  EndInv'
  <2> ui' = ui
    BY <1>1, WorkerKeepsUi DEF uiSide
  <2>1. CASE WorkerInCall(w)
    BY <2>1 DEF WorkerInCall, InCall, EntropyInit, SelfTestPasses, PlaceInv,
       SelfTestFails, CollectorAlloc, ReadEntropySafe, RecordAttempt,
       ClearInitialized, StatusEnd, Leave
  <2>2. CASE \/ BenchmarkSetup(w) \/ BenchmarkCleanup(w) \/ WorkerInit(w)
             \/ LoopRead(w)
    BY <2>2 DEF BenchmarkSetup, BenchmarkCleanup, WorkerInit, LoopRead,
       ShutdownRng, InitRng, GetRandomBytes
  <2>3. CASE \/ WorkerStart(w) \/ WorkerInited(w) \/ LoopDone(w)
             \/ LoopCancelled(w) \/ ReadReturned(w) \/ RecordTimeline(w)
    BY <2>3 DEF WorkerStart, WorkerInited, LoopDone, LoopCancelled,
       ReadReturned, RecordTimeline, EndOfRun
  <2>4. CASE PublishResult(w) \/ LeaveBusyLock(w) \/ ClearBusy(w) \/ WorkerExit(w)
    BY <2>4 DEF PublishResult, LeaveBusyLock, ClearBusy, WorkerExit
  <2>5. QED
    BY <1>1, <2>1, <2>2, <2>3, <2>4 DEF WorkerStep
<1>2. CASE UiQuiet
  <2>1. UNCHANGED << rngVars, workerSide >>
    BY <1>2, UiQuietKeeps
  <2>2. ui' \in {"destroy_delete", "quit"} => ui = "destroy_delete"
    BY <1>2 DEF UiQuiet, ControllerCreated, ReapTimeout, CreateFails,
       ConfigureGet, ConfigureApply, TickStart, TickTake, TickBusy,
       TickTimeline, TickPost, HandleJob, HandleInvalid, HandleConfigure,
       HandleCancel, HandleClear, ClearTimeline, clearSide,
       HandleDestroy, WorkerStuck, DestroyDelete,
       At, Idle, uiSide
  <2>3. QED
    BY <2>1, <2>2 DEF workerSide
<1>3. CASE ReapDone \/ WorkerStopped
  BY <1>3 DEF ReapDone, WorkerStopped, CloseHandle, NoLeakedWorker
<1>4. CASE \E w \in Worker : CreateWorker(w)
  BY <1>4 DEF CreateWorker
<1>5. CASE ConfigureShutdown \/ ConfigureStore \/ DestroyFree
  BY <1>5 DEF ConfigureShutdown, ConfigureStore, DestroyFree, ShutdownRng,
     RngConfigure, workerSide
<1>6. CASE TickStatus
  BY <1>6 DEF TickStatus, StatusBegin, workerSide
<1>7. CASE UiInCall
  BY <1>7 DEF UiInCall, PlaceInv, uiSide, InCall, EntropyInit, SelfTestPasses,
     SelfTestFails, CollectorAlloc, ReadEntropySafe, RecordAttempt,
     ClearInitialized, StatusEnd, Leave
<1>8. CASE UNCHANGED vars
  BY <1>8 DEF vars, uiSide
<1>9. QED
  BY <1>1, <1>2, <1>3, <1>4, <1>5, <1>6, <1>7, <1>8, StepCases

(* A result the mailbox may hold that is no mere answer. *)
RealResult == { r \in Results : r.from # "reply" }

LEMMA PublishedIsReal ==
  ASSUME NEW kind \in JobKind, NEW code
  PROVE  /\ [action |-> kind, status |-> Outcome(code), from |-> "worker"]
              \in RealResult
         /\ [action |-> kind, status |-> "failed", from |-> "start"] \in RealResult
<1>1. Outcome(code) \in {"ok", "stopped", "rejected", "failed"}
  BY DEF Outcome
<1>2. QED
  BY <1>1 DEF RealResult, Results

LEMMA NoResultIsUnreal == NoResult \notin RealResult
BY ResultAssumption DEF RealResult

LEMMA RejectionIsResult ==
  ASSUME NEW action \in JobKind \cup {"configure"}, NEW code
  PROVE  [action |-> action, status |-> Outcome(code), from |-> "reply"] \in Results
<1>1. Outcome(code) \in {"ok", "stopped", "rejected", "failed"}
  BY DEF Outcome
<1>2. QED
  BY <1>1 DEF Results

LEMMA StampedTimeline ==
  ASSUME NEW r \in [valid : BOOLEAN, pending : BOOLEAN]
  PROVE  /\ [r EXCEPT !.pending = FALSE] \in [valid : BOOLEAN, pending : BOOLEAN]
         /\ [r EXCEPT !.pending = FALSE].pending = FALSE
         /\ [r EXCEPT !.valid = FALSE] \in [valid : BOOLEAN, pending : BOOLEAN]
         /\ [r EXCEPT !.valid = FALSE].valid = FALSE
OBVIOUS

LEMMA FilledFrame ==
  ASSUME NEW f \in [result : Results \cup {NoResult}, busy : BOOLEAN],
         NEW r \in Results \cup {NoResult}, NEW b \in BOOLEAN
  PROVE  /\ [f EXCEPT !.result = r] \in [result : Results \cup {NoResult}, busy : BOOLEAN]
         /\ [f EXCEPT !.result = r].result = r
         /\ [f EXCEPT !.busy = b] \in [result : Results \cup {NoResult}, busy : BOOLEAN]
         /\ [f EXCEPT !.busy = b].result = f.result
OBVIOUS

LEMMA EmptyFrame ==
  NoFrame \in [result : Results \cup {NoResult}, busy : BOOLEAN]
BY DEF NoFrame

(* A pending serialization: the mailbox is emptied into the frame that stamps. *)
LEMMA PendingStep ==
  ASSUME AllInv, [Next]_vars
  PROVE  PendingTimelineHasResult'
<1> USE NoResultIsUnreal
    DEF AllInv, SessionInv, HostInv, JobOK, JobRecord, published, Goto,
        Returned, At, Idle, UiInv
<1>1. PendingTimelineHasResult <=>
        (g_last_timeline.valid /\ g_last_timeline.pending =>
           \/ \E w \in Worker : job[w].pc = "publish"
           \/ g_pending_worker_result \in RealResult
           \/ ui \in {"tick_busy", "tick_timeline"} /\ frame.result \in RealResult)
  BY DEF PendingTimelineHasResult, RealResult
<1>2. PendingTimelineHasResult' <=>
        (g_last_timeline'.valid /\ g_last_timeline'.pending =>
           \/ \E w \in Worker : job'[w].pc = "publish"
           \/ g_pending_worker_result' \in RealResult
           \/ ui' \in {"tick_busy", "tick_timeline"} /\ frame'.result \in RealResult)
  BY DEF PendingTimelineHasResult, RealResult
<1>3. ASSUME NEW w \in Worker, WorkerStep(w)
      PROVE  PendingTimelineHasResult'
  <2>1. UNCHANGED << ui, frame >>
    BY <1>3, WorkerKeepsUi DEF uiSide
  <2>2. CASE RecordTimeline(w)
    BY <1>2, <2>2 DEF RecordTimeline
  <2>3. CASE PublishResult(w)
    <3>1. g_pending_worker_result' \in RealResult
      BY <2>3, PublishedIsReal DEF PublishResult
    <3>2. QED
      BY <1>2, <3>1
  <2>4. CASE ~RecordTimeline(w) /\ ~PublishResult(w)
    <3>1. UNCHANGED published
      BY <1>3, <2>4 DEF WorkerStep, WorkerStart, BenchmarkSetup, WorkerInit,
         WorkerInited, LoopDone, LoopCancelled, LoopRead, ReadReturned,
         BenchmarkCleanup, LeaveBusyLock, ClearBusy, WorkerExit, WorkerInCall
    <3>2. \A v \in Worker : job[v].pc = "publish" => job'[v].pc = "publish"
      <4>1. \A v \in Worker : v # w => job'[v] = job[v]
        BY <1>3, <2>4 DEF WorkerStep, WorkerStart, BenchmarkSetup, WorkerInit,
           WorkerInited, LoopDone, LoopCancelled, LoopRead, ReadReturned, EndOfRun,
           BenchmarkCleanup, LeaveBusyLock, ClearBusy, WorkerExit, WorkerInCall
      <4>2. job[w].pc = "publish" => job' = job
        BY <1>3, <2>4 DEF WorkerStep, WorkerStart, BenchmarkSetup, WorkerInit,
           WorkerInited, LoopDone, LoopCancelled, LoopRead, ReadReturned,
           BenchmarkCleanup, LeaveBusyLock, ClearBusy, WorkerExit, WorkerInCall
      <4>3. QED
        BY <4>1, <4>2
    <3>3. QED
      BY <1>1, <1>2, <2>1, <3>1, <3>2
  <2>5. QED
    BY <2>2, <2>3, <2>4
<1>4. CASE UiQuiet
  <2>1. UNCHANGED job
    BY <1>4, UiQuietKeeps DEF workerSide
  <2>2. CASE CreateFails
    <3>1. g_pending_worker_result' \in RealResult
      BY <2>2, PublishedIsReal DEF CreateFails
    <3>2. QED
      BY <1>2, <3>1
  <2>3. CASE TickStart \/ TickTake \/ TickBusy \/ TickTimeline \/ TickPost
    <3>1. CASE TickTake
      <4>1. frame'.result = g_pending_worker_result
        BY <3>1, FilledFrame DEF TickTake, MailInv
      <4>2. QED
        BY <1>1, <1>2, <2>1, <3>1, <4>1 DEF TickTake
    <3>2. CASE TickBusy
      <4>1. frame'.result = frame.result
        BY <3>2, FilledFrame DEF TickBusy, MailInv
      <4>2. QED
        BY <1>1, <1>2, <2>1, <3>2, <4>1 DEF TickBusy
    <3>3. CASE TickTimeline
      <4>1. frame.result \in RealResult => ~g_last_timeline'.valid \/ ~g_last_timeline'.pending
        BY <3>3, StampedTimeline DEF TickTimeline, MailInv
      <4>2. g_last_timeline'.valid /\ g_last_timeline'.pending =>
              g_last_timeline.valid /\ g_last_timeline.pending
        BY <3>3, StampedTimeline DEF TickTimeline, MailInv
      <4>3. QED
        BY <1>1, <1>2, <2>1, <3>3, <4>1, <4>2 DEF TickTimeline
    <3>4. CASE TickStart \/ TickPost
      BY <1>1, <1>2, <2>1, <3>4 DEF TickStart, TickPost
    <3>5. QED
      BY <2>3, <3>1, <3>2, <3>3, <3>4
  <2>4. CASE HandleClear \/ ClearTimeline
    <3>1. CASE HandleClear
      BY <1>1, <1>2, <2>1, <3>1 DEF HandleClear, clearSide
    <3>2. CASE ClearTimeline
      <4>1. g_last_timeline'.valid = FALSE
        BY <3>2, StampedTimeline DEF ClearTimeline, MailInv
      <4>2. QED
        BY <1>1, <1>2, <2>1, <3>2, <4>1 DEF ClearTimeline, clearSide
    <3>3. QED
      BY <2>4, <3>1, <3>2
  <2>5. CASE \/ ControllerCreated \/ ConfigureGet \/ HandleCancel
             \/ HandleDestroy \/ WorkerStuck \/ DestroyDelete
    BY <1>1, <1>2, <2>1, <2>5 DEF ControllerCreated, ConfigureGet, HandleCancel,
       HandleDestroy, WorkerStuck, DestroyDelete, destroySide
  <2>6. CASE \/ ReapTimeout \/ ConfigureApply
             \/ \E kind \in JobKind, n \in 1..MaxChunks : HandleJob(kind, n)
             \/ \E action \in JobKind \cup {"configure"} : HandleInvalid(action)
             \/ \E s \in Settings : HandleConfigure(s)
    <3>1. ui \notin {"tick_busy", "tick_timeline"} /\ UNCHANGED g_last_timeline
      BY <2>6 DEF ReapTimeout, ConfigureApply, HandleJob, HandleInvalid, HandleConfigure
    <3>2. g_pending_worker_result # NoResult =>
            g_pending_worker_result' = g_pending_worker_result
      BY <2>6 DEF ReapTimeout, ConfigureApply, HandleJob, HandleInvalid, HandleConfigure,
         PublishRejection
    <3>3. QED
      BY <1>1, <1>2, <2>1, <3>1, <3>2
  <2>7. QED
    BY <1>4, <2>2, <2>3, <2>4, <2>5, <2>6 DEF UiQuiet
<1>5. CASE ReapDone \/ WorkerStopped
  <2>1. \A w \in Worker : job[w].pc = "publish" => job'[w].pc = "publish"
    BY <1>5 DEF ReapDone, WorkerStopped, CloseHandle, NoLeakedWorker
  <2>2. QED
    BY <1>1, <1>2, <1>5, <2>1 DEF ReapDone, WorkerStopped
<1>6. ASSUME NEW w \in Worker, CreateWorker(w)
      PROVE  PendingTimelineHasResult'
  <2>1. \A v \in Worker : job[v].pc = "publish" => job'[v].pc = "publish"
    BY <1>6 DEF CreateWorker
  <2>2. QED
    BY <1>1, <1>2, <1>6, <2>1 DEF CreateWorker
<1>7. CASE \/ ConfigureShutdown \/ ConfigureStore \/ DestroyFree
           \/ TickStatus \/ UiInCall
  BY <1>1, <1>2, <1>7 DEF ConfigureShutdown, ConfigureStore, DestroyFree, TickStatus,
     UiInCall, workerSide, uiSide
<1>8. CASE UNCHANGED vars
  BY <1>1, <1>2, <1>8 DEF vars, uiSide
<1>9. QED
  BY <1>3, <1>4, <1>5, <1>6, <1>7, <1>8, StepCases

(* Types of what the workers and the UI thread hand to each other. *)
LEMMA MailStep ==
  ASSUME AllInv, [Next]_vars
  PROVE  MailInv'
<1> USE DEF AllInv, SessionInv, MailInv, HostInv, UiInv, JobOK, JobRecord,
            published, At, Idle
<1>1. ASSUME NEW w \in Worker, WorkerStep(w)
      PROVE  MailInv'
  <2>1. UNCHANGED frame
    BY <1>1, WorkerKeepsUi DEF uiSide
  <2>2. CASE RecordTimeline(w)
    BY <2>1, <2>2 DEF RecordTimeline
  <2>3. CASE PublishResult(w)
    <3>1. g_pending_worker_result' \in Results
      BY <2>3, PublishedIsReal DEF PublishResult, RealResult
    <3>2. QED
      BY <2>1, <2>3, <3>1 DEF PublishResult
  <2>4. CASE ~RecordTimeline(w) /\ ~PublishResult(w)
    BY <1>1, <2>1, <2>4 DEF WorkerStep, WorkerStart, BenchmarkSetup, WorkerInit,
       WorkerInited, LoopDone, LoopCancelled, LoopRead, ReadReturned,
       BenchmarkCleanup, LeaveBusyLock, ClearBusy, WorkerExit, WorkerInCall
  <2>5. QED
    BY <2>2, <2>3, <2>4
<1>2. CASE UiQuiet
  <2>1. CASE CreateFails
    <3>1. g_pending_worker_result' \in Results
      BY <2>1, PublishedIsReal DEF CreateFails, RealResult
    <3>2. QED
      BY <2>1, <3>1 DEF CreateFails
  <2>2. CASE TickTake
    BY <2>2, FilledFrame DEF TickTake
  <2>3. CASE TickBusy
    BY <2>3, FilledFrame DEF TickBusy
  <2>4. CASE TickTimeline \/ HandleClear \/ ClearTimeline
    <3>1. \/ UNCHANGED g_last_timeline
          \/ g_last_timeline' = [g_last_timeline EXCEPT !.pending = FALSE]
          \/ g_last_timeline' = [g_last_timeline EXCEPT !.valid = FALSE]
      BY <2>4 DEF TickTimeline, HandleClear, ClearTimeline
    <3>2. UNCHANGED << frame, g_pending_worker_result >>
      BY <2>4 DEF TickTimeline, HandleClear, ClearTimeline, clearSide, uiSide
    <3>3. g_last_timeline' \in [valid : BOOLEAN, pending : BOOLEAN]
      BY <3>1, StampedTimeline, Zenon
    <3>4. QED
      BY <3>2, <3>3
  <2>5. CASE TickStart \/ TickPost
    <3>1. UNCHANGED << g_pending_worker_result, g_last_timeline >>
          /\ frame' \in {frame, NoFrame}
      BY <2>5 DEF TickStart, TickPost
    <3>2. QED
      BY <3>1, EmptyFrame
  <2>6. CASE \/ ControllerCreated \/ ConfigureGet \/ HandleCancel
             \/ HandleDestroy \/ WorkerStuck \/ DestroyDelete
    BY <2>6 DEF ControllerCreated, ConfigureGet, HandleCancel, HandleDestroy,
       WorkerStuck, DestroyDelete, destroySide
  <2>7. CASE \/ ReapTimeout \/ ConfigureApply
             \/ \E kind \in JobKind, n \in 1..MaxChunks : HandleJob(kind, n)
             \/ \E action \in JobKind \cup {"configure"} : HandleInvalid(action)
             \/ \E s \in Settings : HandleConfigure(s)
    <3>1. UNCHANGED << frame, g_last_timeline >>
      BY <2>7 DEF ReapTimeout, ConfigureApply, HandleJob, HandleInvalid,
         HandleConfigure, uiSide
    <3>2. \/ UNCHANGED g_pending_worker_result
          \/ \E action \in JobKind \cup {"configure"}, code \in Codes :
               g_pending_worker_result' =
                 [action |-> action, status |-> Outcome(code), from |-> "reply"]
      BY <2>7 DEF ReapTimeout, ConfigureApply, HandleJob, HandleInvalid,
         HandleConfigure, PublishRejection, Codes
    <3>3. QED
      BY <3>1, <3>2, RejectionIsResult
  <2>8. QED
    BY <1>2, <2>1, <2>2, <2>3, <2>4, <2>5, <2>6, <2>7 DEF UiQuiet
<1>3. CASE \/ ReapDone \/ WorkerStopped \/ (\E w \in Worker : CreateWorker(w))
           \/ ConfigureShutdown \/ ConfigureStore \/ DestroyFree
           \/ TickStatus \/ UiInCall
  BY <1>3 DEF ReapDone, WorkerStopped, CreateWorker, ConfigureShutdown,
     ConfigureStore, DestroyFree, TickStatus, UiInCall, destroySide, uiSide
<1>4. CASE UNCHANGED vars
  BY <1>4 DEF vars, uiSide
<1>5. QED
  BY <1>1, <1>2, <1>3, <1>4, StepCases

-----------------------------------------------------------------------------
(* The host starts in the invariant, and every step preserves it. *)
LEMMA InitEstablishesAll == GuiInit => AllInv
<1> SUFFICES ASSUME GuiInit PROVE AllInv
  OBVIOUS
<1>1. HostInv
  BY InitEstablishesHostInv
<1>2. RngCore
  BY InitEstablishesRngInv DEF GuiInit, RngInv
<1>3. ret \in [Thread -> Codes]
  BY DEF GuiInit, RngInit, Codes, RngCodes
<1>4. StopInv /\ PlaceInv /\ DisplayInv /\ HistInv
  BY DEF GuiInit, RngInit, StopInv, PlaceInv, DisplayInv, FrameShowsSettings,
     HistInv
<1>5. OriginInv /\ BenchInv
  BY DEF GuiInit, OriginInv, BenchInv, IdleJob
<1>6. HonestInv /\ EndInv
  BY DEF GuiInit, RngInit, HonestInv, EndInv
<1>7. MailInv /\ PendingTimelineHasResult
  BY EmptyFrame DEF GuiInit, MailInv, PendingTimelineHasResult
<1>8. QED
  BY <1>1, <1>2, <1>3, <1>4, <1>5, <1>6, <1>7 DEF AllInv, SessionInv

LEMMA StepKeepsAll ==
  ASSUME AllInv, [Next]_vars
  PROVE  AllInv'
<1>1. HostInv'
  BY StepKeepsHostInv DEF AllInv
<1>2. RngCore'
  BY HostCallsWrapper, StepPreservesRngCore DEF AllInv
<1>3. StopInv'
  BY StopStep DEF AllInv, SessionInv
<1>4. QED
  BY <1>1, <1>2, <1>3, CodesStep, PlaceStep, DisplayStep, OriginStep, HistStep,
     BenchStep, HonestStep, EndStep, MailStep, PendingStep DEF AllInv, SessionInv

LEMMA AllInvariant == Spec => []AllInv
BY InitEstablishesAll, StepKeepsAll, PTL DEF Spec

(* A stop asked of a running job stays asked until the job is gone
   (main_gui.cpp:212-222, cancelBenchmark). *)
THEOREM StopsStay == Spec => []StopIsNotForgotten
<1>1. AllInv => StopIsNotForgotten
  BY DEF AllInv, SessionInv, StopInv, StopIsNotForgotten
<1>2. QED
  BY <1>1, AllInvariant, PTL

(* A frame shows the settings the next collector is built from, though it
   reads a copy (main_gui.cpp configure, BuildTelemetryJson). *)
THEOREM FramesShowSettings == Spec => []FrameShowsSettings
<1>1. AllInv => FrameShowsSettings
  BY DEF AllInv, SessionInv, DisplayInv
<1>2. QED
  BY <1>1, AllInvariant, PTL

(* Every byte in the session histogram came from a collector with the settings
   on display, through failures, cancels and configurations in between. *)
THEOREM HistogramIsOneConfiguration == Spec => []OneConfigurationInSession
<1>1. AllInv => OneConfigurationInSession
  BY DEF AllInv, SessionInv, HistInv, OneConfigurationInSession
<1>2. QED
  BY <1>1, AllInvariant, PTL

(* run_benchmark leaves no collector behind once it had one
   (benchmark.c:51-55, 127). *)
THEOREM BenchmarksRelease == Spec => []BenchmarkReleasesCollector
<1>1. AllInv => BenchmarkReleasesCollector
  BY DEF AllInv, SessionInv, BenchInv, BenchmarkReleasesCollector
<1>2. QED
  BY <1>1, AllInvariant, PTL

(* Between calls the health panel's flag tells whether a collector lives: no
   other thread's init fits between a shutdown and the clearing of the flag
   that follows it (rng_wrapper.c shutdown_rng). *)
THEOREM HealthFlagIsHonest == Spec => []InitializedIsHonest
<1>1. AllInv => InitializedIsHonest
  BY DEF AllInv, SessionInv, HonestInv, InitializedIsHonest
<1>2. QED
  BY <1>1, AllInvariant, PTL

(* A pending serialization always has the result that will stamp it ahead of
   it (main_gui.cpp:239-241, 590-595). *)
THEOREM PendingIsStamped == Spec => []PendingTimelineHasResult
<1>1. AllInv => PendingTimelineHasResult
  BY DEF AllInv, SessionInv
<1>2. QED
  BY <1>1, AllInvariant, PTL

(* The critical sections are deleted when no worker exists, nobody is inside
   and no collector is left (main_gui.cpp WM_DESTROY). *)
THEOREM SectionsDeletedLast == Spec => []NoUseAfterDelete
<1>1. ASSUME AllInv, ui = "quit"
      PROVE  NoUseAfterDelete
  <2>1. \A w \in Worker : job[w].pc = "none" /\ call[w] = "idle"
    BY <1>1 DEF AllInv, HostInv, UiInv, CallInv
  <2>2. call[UI] = "idle"
    BY <1>1 DEF AllInv, SessionInv, PlaceInv
  <2>3. rng_lock = Free
    BY <1>1, <2>1, <2>2
       DEF AllInv, HostInv, CallInv, RngStateOK, LockedCalls
  <2>4. g_rng_busy_lock = Free /\ rng_collector = NoSettings
    BY <1>1, <2>1 DEF AllInv, SessionInv, EndInv, Working
  <2>5. QED
    BY <2>1, <2>3, <2>4 DEF NoUseAfterDelete
<1>2. AllInv => NoUseAfterDelete
  BY <1>1 DEF NoUseAfterDelete
<1>3. QED
  BY <1>2, AllInvariant, PTL

-----------------------------------------------------------------------------
(* The host implements the abstract job slot: for every set of workers and of
   settings, every step of the threads is a step of JobSlot or leaves it alone. *)

(* A claimed slot has an owner, a new job starts without a stop, and only a
   job that was asked to stop says it was cancelled. *)
OwnerInv ==
  /\ g_rng_busy = 1 /\ ui \notin {"reap", "create"} => \E w \in Worker : Active(w)
  /\ ui = "create" => benchmark_cancel_requested = 0
  /\ \A w \in Worker :
       ret[w] = "cancelled" => Active(w) /\ benchmark_cancel_requested = 1

USE SettingsAssumption, FreeAssumption, ThreadAssumption

LEMMA OwnerStep ==
  ASSUME AllInv, OwnerInv, [Next]_vars
  PROVE  OwnerInv'
<1> USE DEF AllInv, SessionInv, OwnerInv, HostInv, RngStateOK, JobOK, JobRecord,
            WorkerSteps, Working, Active, rngVars, rngExceptRet, Returned, Goto,
            At, Idle
<1>1. ASSUME NEW w \in Worker, WorkerStep(w)
      PROVE  OwnerInv'
  <2>1. UNCHANGED << ui, benchmark_cancel_requested >>
    BY <1>1, WorkerKeepsUi DEF uiSide
  <2>2. CASE WorkerInCall(w)
    BY <2>1, <2>2 DEF WorkerInCall, PlaceInv, InCall, EntropyInit, SelfTestPasses,
       SelfTestFails, CollectorAlloc, ReadEntropySafe, RecordAttempt,
       ClearInitialized, StatusEnd, Leave, ReadErrors
  <2>3. CASE BenchmarkSetup(w) \/ BenchmarkCleanup(w) \/ WorkerInit(w)
    BY <2>1, <2>3 DEF BenchmarkSetup, BenchmarkCleanup, WorkerInit, ShutdownRng,
       InitRng
  <2>4. CASE LoopRead(w)
    BY <2>1, <2>4 DEF LoopRead, GetRandomBytes
  <2>5. CASE \/ WorkerStart(w) \/ WorkerInited(w) \/ LoopDone(w)
             \/ LoopCancelled(w) \/ ReadReturned(w) \/ RecordTimeline(w)
    BY <2>1, <2>5 DEF WorkerStart, WorkerInited, LoopDone, LoopCancelled,
       ReadReturned, RecordTimeline, EndOfRun
  <2>6. CASE PublishResult(w) \/ LeaveBusyLock(w)
    BY <2>1, <2>6 DEF PublishResult, LeaveBusyLock
  <2>7. CASE ClearBusy(w) \/ WorkerExit(w)
    BY <2>1, <2>7 DEF ClearBusy, WorkerExit, IdleJob
  <2>8. QED
    BY <1>1, <2>2, <2>3, <2>4, <2>5, <2>6, <2>7 DEF WorkerStep
<1>2. CASE UiQuiet
  <2>1. UNCHANGED << rngVars, job >>
    BY <1>2, UiQuietKeeps DEF workerSide
  <2>2. \/ UNCHANGED << g_rng_busy, benchmark_cancel_requested >>
           /\ (ui' \in {"reap", "create"} <=> ui \in {"reap", "create"})
           /\ (ui' = "create" <=> ui = "create")
        \/ g_rng_busy' = 0 /\ UNCHANGED benchmark_cancel_requested /\ ui' = "idle"
        \/ UNCHANGED benchmark_cancel_requested /\ ui' = "reap"
        \/ benchmark_cancel_requested' = 1 /\ UNCHANGED g_rng_busy
           /\ ui \notin {"reap", "create"} /\ ui' # "create"
    BY <1>2 DEF UiQuiet, ControllerCreated, ReapTimeout, CreateFails,
       ConfigureGet, ConfigureApply, TickStart, TickTake, TickBusy, TickTimeline,
       TickPost, HandleJob, HandleInvalid, HandleConfigure, HandleCancel,
       HandleClear, ClearTimeline, clearSide,
       HandleDestroy, WorkerStuck, DestroyDelete, frameSide,
       destroySide, uiSide
  <2>3. QED
    BY <2>1, <2>2
<1>3. CASE ReapDone \/ WorkerStopped
  <2>1. UNCHANGED rngVars /\ CloseHandle
    BY <1>3 DEF ReapDone, WorkerStopped
  <2>2. \A w \in Worker : Active(w) => g_worker_thread = w
    BY DEF NoLeakedWorker
  <2>3. \A w \in Worker : ~Active(w)
    BY <2>1, <2>2 DEF CloseHandle
  <2>4. QED
    BY <1>3, <2>1, <2>3 DEF ReapDone, WorkerStopped, destroySide
<1>4. ASSUME NEW w \in Worker, CreateWorker(w)
      PROVE  OwnerInv'
  <2>1. job'[w].pc = "start" /\ \A v \in Worker : v # w => job'[v] = job[v]
    BY <1>4 DEF CreateWorker, IdleJob
  <2>2. QED
    BY <1>4, <2>1 DEF CreateWorker
<1>5. CASE ConfigureShutdown \/ ConfigureStore \/ DestroyFree \/ TickStatus
  BY <1>5 DEF ConfigureShutdown, ConfigureStore, DestroyFree, TickStatus,
     ShutdownRng, RngConfigure, StatusBegin, workerSide, frameSide, destroySide
<1>6. CASE UiInCall
  BY <1>6 DEF UiInCall, PlaceInv, InCall, EntropyInit, SelfTestPasses,
     SelfTestFails, CollectorAlloc, ReadEntropySafe, RecordAttempt,
     ClearInitialized, StatusEnd, Leave, uiSide
<1>7. CASE UNCHANGED vars
  BY <1>7 DEF vars, uiSide
<1>8. QED
  BY <1>1, <1>2, <1>3, <1>4, <1>5, <1>6, <1>7, StepCases

-----------------------------------------------------------------------------
(* An abstract job, as an opaque value: its fields and how they change. *)
JobOf(kind, stop, outcome) ==
  [kind |-> kind, stop |-> stop, outcome |-> outcome]

LEMMA JobFields ==
  ASSUME NEW k \in JobKind, NEW s \in BOOLEAN, NEW o \in Codes \cup {"none"}
  PROVE  LET j == JobOf(k, s, o)
         IN  /\ j # NoWorker /\ j.stop = s /\ j.outcome = o
             /\ \A c : [j EXCEPT !.outcome = c] = JobOf(k, s, c)
             /\ \A c : [j EXCEPT !.stop = c] = JobOf(k, c, o)
<1>1. JobOf(k, s, o) # NoWorker
  BY SlotAssumption DEF JobOf
<1>2. JobOf(k, s, o).stop = s /\ JobOf(k, s, o).outcome = o
  BY DEF JobOf
<1>3. ASSUME NEW c
      PROVE  [JobOf(k, s, o) EXCEPT !.outcome = c] = JobOf(k, s, c)
  BY DEF JobOf
<1>4. ASSUME NEW c
      PROVE  [JobOf(k, s, o) EXCEPT !.stop = c] = JobOf(k, c, o)
  BY DEF JobOf
<1>5. QED
  BY <1>1, <1>2, <1>3, <1>4

(* What the abstract slot holds, told from its owner: nobody, the UI thread
   on its way to starting a worker, or the worker. *)
Admitted == JobOf(request.action, FALSE, "none")

Held(w) == JobOf(job[w].kind, benchmark_cancel_requested = 1,
                 IF job[w].pc \in {"leave", "clear"} THEN ret[w] ELSE "none")

SlotFacts ==
  /\ g_rng_busy = 0 => SlotJob = NoWorker
  /\ Admitting => SlotJob = Admitted
  /\ \A w \in Worker : Active(w) => SlotJob = Held(w)

LEMMA SlotIsOwners == AllInv /\ OwnerInv => SlotFacts
<1> SUFFICES ASSUME AllInv, OwnerInv PROVE SlotFacts
  OBVIOUS
<1> USE DEF AllInv, HostInv
<1>1. g_rng_busy = 0 => SlotJob = NoWorker
  BY DEF SlotJob
<1>2. ASSUME Admitting
      PROVE  SlotJob = Admitted
  <2>1. g_rng_busy # 0
    BY <1>2 DEF Admitting, UiInv
  <2>2. (ui # "reap" /\ benchmark_cancel_requested = 1) = FALSE
    BY <1>2 DEF Admitting, OwnerInv
  <2>3. QED
    BY <1>2, <2>1, <2>2, Zenon DEF SlotJob, Admitted, JobOf
<1>3. ASSUME NEW w \in Worker, Active(w)
      PROVE  SlotJob = Held(w)
  <2>1. g_rng_busy # 0 /\ ~Admitting
    BY <1>3 DEF OneJobAtATime, Admitting
  <2>2. Owner = w
    BY <1>3 DEF OneJobAtATime, Owner
  <2>3. (ui # "reap" /\ benchmark_cancel_requested = 1)
          = (benchmark_cancel_requested = 1)
    BY <2>1, Zenon DEF Admitting
  <2>4. QED
    BY <2>1, <2>2, <2>3, Zenon DEF SlotJob, Held, JobOf
<1>4. QED
  BY <1>1, <1>2, <1>3 DEF SlotFacts

SlotStep == [Slot!SlotNext]_(Slot!slotVars)

(* A worker that keeps the slot and what the slot shows of it is unseen. *)
LEMMA WorkerUnseen ==
  ASSUME SlotFacts, SlotFacts', UNCHANGED current_settings,
         NEW w \in Worker, Active(w), Active(w)', Held(w)' = Held(w)
  PROVE  SlotStep
<1>1. SlotJob = Held(w)
  BY DEF SlotFacts
<1>2. SlotJob' = Held(w)'
  BY DEF SlotFacts
<1>3. QED
  BY <1>1, <1>2 DEF SlotStep, Slot!slotVars

LEMMA HeldByFlags ==
  ASSUME NEW w \in Worker, job'[w].kind = job[w].kind,
         benchmark_cancel_requested' = benchmark_cancel_requested,
         (IF job'[w].pc \in {"leave", "clear"} THEN ret'[w] ELSE "none")
           = (IF job[w].pc \in {"leave", "clear"} THEN ret[w] ELSE "none")
  PROVE  Held(w)' = Held(w)
BY DEF Held

(* Every step of a worker, except its answer and its last two, keeps the job
   running and its outcome open. *)
LEMMA WorkerMoves ==
  ASSUME AllInv, NEW w \in Worker, WorkerStep(w),
         ~PublishResult(w), ~ClearBusy(w), ~WorkerExit(w)
  PROVE  /\ Active(w) /\ Active(w)'
         /\ UNCHANGED current_settings
         /\ Held(w)' = Held(w)
<1> USE DEF AllInv, HostInv, JobOK, JobRecord, Active, Working, WorkerSteps
<1>1. UNCHANGED benchmark_cancel_requested
  BY WorkerKeepsUi DEF uiSide
<1>2. /\ job[w].pc \in Working /\ job'[w].pc \in Working
      /\ job'[w].kind = job[w].kind
      /\ UNCHANGED current_settings
      /\ job[w].pc \in {"leave", "clear"} <=> job'[w].pc \in {"leave", "clear"}
      /\ job[w].pc \in {"leave", "clear"} => ret'[w] = ret[w]
  <2>1. CASE WorkerInCall(w)
    BY <2>1 DEF WorkerInCall, CallInv, InCall, EntropyInit, SelfTestPasses,
       SelfTestFails, CollectorAlloc, ReadEntropySafe, RecordAttempt,
       ClearInitialized, StatusEnd, Leave
  <2>2. CASE BenchmarkSetup(w) \/ BenchmarkCleanup(w) \/ WorkerInit(w)
    BY <2>2 DEF BenchmarkSetup, BenchmarkCleanup, WorkerInit, ShutdownRng,
       InitRng, Returned, Goto, rngExceptRet, rngVars
  <2>3. CASE LoopRead(w)
    BY <2>3 DEF LoopRead, GetRandomBytes, Returned
  <2>4. CASE \/ WorkerStart(w) \/ WorkerInited(w) \/ LoopDone(w)
             \/ LoopCancelled(w) \/ ReadReturned(w) \/ RecordTimeline(w)
    BY <2>4 DEF WorkerStart, WorkerInited, LoopDone, LoopCancelled,
       ReadReturned, RecordTimeline, EndOfRun, Returned, Goto, rngExceptRet,
       rngVars
  <2>5. CASE LeaveBusyLock(w)
    BY <2>5 DEF LeaveBusyLock, Returned, Goto, rngVars, rngExceptRet
  <2>6. QED
    BY <2>1, <2>2, <2>3, <2>4, <2>5 DEF WorkerStep
<1>3. QED
  BY <1>1, <1>2, HeldByFlags

(* PublishResult is the abstract Finish. *)
LEMMA PublishFinishes ==
  ASSUME AllInv, OwnerInv, SlotFacts, SlotFacts',
         NEW w \in Worker, PublishResult(w)
  PROVE  SlotStep
<1> USE DEF AllInv, HostInv
<1>1. /\ job[w].pc = "publish" /\ job[w].kind \in JobKind
      /\ job' = [job EXCEPT ![w].pc = "leave"]
      /\ UNCHANGED << ret, current_settings, benchmark_cancel_requested >>
  BY DEF PublishResult, Returned, Goto, JobOK, JobRecord, rngVars,
     rngExceptRet, uiSide
<1>2. job'[w].pc = "leave" /\ job'[w].kind = job[w].kind
  BY <1>1 DEF JobOK, JobRecord
<1>3. Active(w) /\ Active(w)'
  BY <1>1, <1>2 DEF Active, Working
<1>4. PICK s \in BOOLEAN : s = (benchmark_cancel_requested = 1)
  OBVIOUS
<1>5. SlotJob = JobOf(job[w].kind, s, "none")
  <2>1. (IF job[w].pc \in {"leave", "clear"} THEN ret[w] ELSE "none") = "none"
    BY <1>1
  <2>2. QED
    BY <1>3, <1>4, <2>1, Zenon DEF SlotFacts, Held
<1>6. SlotJob' = JobOf(job[w].kind, s, ret[w])
  <2>1. (IF job'[w].pc \in {"leave", "clear"} THEN ret'[w] ELSE "none") = ret[w]
    BY <1>1, <1>2
  <2>2. QED
    BY <1>1, <1>2, <1>3, <1>4, <2>1, Zenon DEF SlotFacts, Held
<1>7. ret[w] \in Codes
  BY DEF SessionInv
<1>8. ret[w] = "cancelled" => s
  BY <1>4 DEF OwnerInv
<1>9. Slot!Finish(ret[w])
  <2>1. /\ SlotJob # NoWorker /\ SlotJob.stop = s /\ SlotJob.outcome = "none"
        /\ [SlotJob EXCEPT !.outcome = ret[w]] = JobOf(job[w].kind, s, ret[w])
    BY <1>1, <1>5, JobFields
  <2>2. QED
    BY <1>1, <1>6, <1>8, <2>1, Zenon DEF Slot!Finish
<1>10. QED
  BY <1>7, <1>9 DEF SlotStep, Slot!SlotNext, JobStatus

(* The end of a worker's claim is the abstract Release. *)
LEMMA ClearReleases ==
  ASSUME AllInv, SlotFacts, SlotFacts', NEW w \in Worker, ClearBusy(w)
  PROVE  SlotStep
<1> USE DEF AllInv, HostInv
<1>1. /\ job[w].pc = "clear" /\ job[w].kind \in JobKind
      /\ g_rng_busy' = 0
      /\ UNCHANGED current_settings
  BY DEF ClearBusy, Returned, JobOK, JobRecord, rngExceptRet
<1>2. Active(w)
  BY <1>1 DEF Active, Working
<1>3. ret[w] \in Codes /\ ret[w] # "none"
  BY DEF SessionInv, Codes, RngCodes, InitErrors, ReadErrors
<1>4. PICK s \in BOOLEAN : s = (benchmark_cancel_requested = 1)
  OBVIOUS
<1>5. SlotJob = JobOf(job[w].kind, s, ret[w])
  <2>1. (IF job[w].pc \in {"leave", "clear"} THEN ret[w] ELSE "none") = ret[w]
    BY <1>1
  <2>2. QED
    BY <1>2, <1>4, <2>1, Zenon DEF SlotFacts, Held
<1>6. SlotJob' = NoWorker
  BY <1>1 DEF SlotFacts
<1>7. SlotJob # NoWorker /\ SlotJob.outcome = ret[w]
  BY <1>1, <1>3, <1>5, JobFields
<1>8. Slot!Release
  BY <1>1, <1>3, <1>6, <1>7 DEF Slot!Release
<1>9. QED
  BY <1>8 DEF SlotStep, Slot!SlotNext

(* Nobody works while a dead thread's exit is pending: the slot is empty, or
   the UI thread holds it and is waiting for that exit. *)
LEMMA ExitUnseen ==
  ASSUME AllInv, OwnerInv, SlotFacts, SlotFacts', NEW w \in Worker, WorkerExit(w)
  PROVE  SlotStep
<1> USE DEF AllInv, HostInv
<1>1. /\ job[w].pc = "ending"
      /\ UNCHANGED << ui, request, g_rng_busy, current_settings >>
  BY DEF WorkerExit, Returned, rngVars, rngExceptRet, uiSide
<1>2. \A v \in Worker : ~Active(v)
  BY <1>1 DEF NoLeakedWorker, Active, Working
<1>3. Admitting \/ g_rng_busy = 0
  BY <1>2 DEF OwnerInv, Admitting
<1>4. SlotJob' = SlotJob
  BY <1>1, <1>3 DEF SlotFacts, Admitting, Admitted
<1>5. QED
  BY <1>1, <1>4 DEF SlotStep, Slot!slotVars

LEMMA WorkerImplements ==
  ASSUME AllInv, OwnerInv, SlotFacts, SlotFacts', NEW w \in Worker, WorkerStep(w)
  PROVE  SlotStep
BY WorkerMoves, WorkerUnseen, PublishFinishes, ClearReleases, ExitUnseen

-----------------------------------------------------------------------------
(* A step of the UI thread that neither admits nor stops a job is unseen. *)
LEMMA UiUnseen ==
  ASSUME OwnerInv, SlotFacts, SlotFacts', ~Admitting, ~Admitting',
         AllInv,
         UNCHANGED << job, g_rng_busy, benchmark_cancel_requested,
                      current_settings >>,
         \A w \in Worker : ret'[w] = ret[w]
  PROVE  SlotStep
<1>1. CASE g_rng_busy = 0
  BY <1>1 DEF SlotFacts, SlotStep, Slot!slotVars
<1>2. CASE g_rng_busy # 0
  <2>1. PICK w \in Worker : Active(w)
    BY <1>2 DEF AllInv, HostInv, OwnerInv, Admitting
  <2>2. Active(w)'
    BY <2>1 DEF Active
  <2>3. Held(w)' = Held(w)
    BY HeldByFlags
  <2>4. QED
    BY <2>1, <2>2, <2>3, WorkerUnseen
<1>3. QED
  BY <1>1, <1>2

LEMMA UiUnseenSteps ==
  ASSUME AllInv, OwnerInv, SlotFacts, SlotFacts',
         \/ ControllerCreated \/ ConfigureGet \/ ConfigureApply
         \/ TickStart \/ TickTake \/ TickBusy \/ TickTimeline \/ TickPost
         \/ \E action \in JobKind \cup {"configure"} : HandleInvalid(action)
         \/ \E s \in Settings : HandleConfigure(s)
         \/ HandleClear \/ ClearTimeline \/ WorkerStuck \/ DestroyDelete
         \/ ConfigureShutdown \/ DestroyFree \/ TickStatus \/ UiInCall
  PROVE  SlotStep
<1> USE DEF AllInv, HostInv, At, Idle, Admitting, workerSide, uiSide, frameSide,
            destroySide, published, rngVars, rngExceptRet, RngStateOK
<1>1. CASE \/ ControllerCreated \/ ConfigureGet \/ ConfigureApply
           \/ TickStart \/ TickTake \/ TickBusy \/ TickTimeline \/ TickPost
  BY <1>1, UiUnseen DEF ControllerCreated, ConfigureGet, ConfigureApply,
     TickStart, TickTake, TickBusy, TickTimeline, TickPost
<1>2. CASE \/ \E action \in JobKind \cup {"configure"} : HandleInvalid(action)
           \/ \E s \in Settings : HandleConfigure(s)
           \/ HandleClear \/ ClearTimeline \/ WorkerStuck \/ DestroyDelete
  BY <1>2, UiUnseen DEF HandleInvalid, HandleConfigure, HandleClear,
     ClearTimeline, clearSide, WorkerStuck, DestroyDelete
<1>3. CASE ConfigureShutdown \/ DestroyFree \/ TickStatus
  BY <1>3, UiUnseen DEF ConfigureShutdown, DestroyFree, TickStatus, ShutdownRng,
     StatusBegin
<1>4. CASE UiInCall
  BY <1>4, UiUnseen DEF UiInCall, SessionInv, PlaceInv, InCall, EntropyInit,
     SelfTestPasses, SelfTestFails, CollectorAlloc, ReadEntropySafe,
     RecordAttempt, ClearInitialized, StatusEnd, Leave
<1>5. QED
  BY <1>1, <1>2, <1>3, <1>4

LEMMA AdmissionImplements ==
  ASSUME AllInv, OwnerInv, SlotFacts, SlotFacts',
         NEW k \in JobKind, NEW n \in 1..MaxChunks, HandleJob(k, n)
  PROVE  SlotStep
<1> USE DEF AllInv, HostInv
<1>1. CASE g_rng_busy # 0
  BY <1>1, UiUnseen DEF HandleJob, Idle, Admitting, workerSide, rngVars,
     rngExceptRet
<1>2. CASE g_rng_busy = 0
  <2>1. /\ SlotJob = NoWorker
        /\ Admitting' /\ request'.action = k
        /\ UNCHANGED current_settings
    BY <1>2 DEF HandleJob, SlotFacts, Admitting, NoRequest, rngVars, rngExceptRet
  <2>2. SlotJob' = JobOf(k, FALSE, "none")
    BY <2>1 DEF SlotFacts, Admitted
  <2>3. Slot!Admit(k)
    BY <2>1, <2>2 DEF Slot!Admit, JobOf
  <2>4. QED
    BY <2>3 DEF SlotStep, Slot!SlotNext
<1>3. QED
  BY <1>1, <1>2

(* An admission given up, by the wait for the last thread or by CreateThread. *)
LEMMA GiveUpImplements ==
  ASSUME AllInv, OwnerInv, SlotFacts, SlotFacts', ReapTimeout \/ CreateFails
  PROVE  SlotStep
<1>1. /\ Admitting /\ request.action \in JobKind
      /\ g_rng_busy' = 0
      /\ UNCHANGED current_settings
  BY DEF AllInv, HostInv, UiInv, ReapTimeout, CreateFails, At, Admitting,
     rngVars, rngExceptRet
<1>2. SlotJob = JobOf(request.action, FALSE, "none") /\ SlotJob' = NoWorker
  BY <1>1 DEF SlotFacts, Admitted
<1>3. SlotJob # NoWorker /\ SlotJob.outcome = "none" /\ ~SlotJob.stop
  <2>1. PICK s \in BOOLEAN : s = FALSE
    OBVIOUS
  <2>2. SlotJob = JobOf(request.action, s, "none")
    BY <1>2, <2>1
  <2>3. QED
    BY <1>1, <2>1, <2>2, JobFields
<1>4. Slot!GiveUp
  BY <1>1, <1>2, <1>3 DEF Slot!GiveUp
<1>5. QED
  BY <1>4 DEF SlotStep, Slot!SlotNext

(* Cancel and the window's end are the abstract Stop while a job runs. *)
LEMMA StopImplements ==
  ASSUME AllInv, OwnerInv, SlotFacts, SlotFacts', HandleCancel \/ HandleDestroy
  PROVE  SlotStep
<1> USE DEF AllInv, HostInv
<1>1. /\ ~Admitting
      /\ benchmark_cancel_requested' = 1
      /\ UNCHANGED << job, ret, g_rng_busy, current_settings >>
  BY DEF HandleCancel, HandleDestroy, At, Idle, Admitting, workerSide,
     destroySide, rngVars, rngExceptRet
<1>2. CASE g_rng_busy = 0
  BY <1>1, <1>2 DEF SlotFacts, SlotStep, Slot!slotVars
<1>3. CASE g_rng_busy # 0
  <2>1. PICK w \in Worker : Active(w)
    BY <1>1, <1>3 DEF OwnerInv, Admitting
  <2>2. Active(w)'
    BY <1>1, <2>1 DEF Active
  <2>3. PICK s \in BOOLEAN : s = (benchmark_cancel_requested = 1)
    OBVIOUS
  <2>4. PICK o : o = IF job[w].pc \in {"leave", "clear"} THEN ret[w] ELSE "none"
    OBVIOUS
  <2>5. o \in Codes \cup {"none"} /\ job[w].kind \in JobKind
    BY <2>4 DEF SessionInv, JobOK, JobRecord
  <2>6. SlotJob = JobOf(job[w].kind, s, o)
    BY <2>1, <2>3, <2>4, Zenon DEF SlotFacts, Held
  <2>7. SlotJob' = JobOf(job[w].kind, TRUE, o)
    <3>1. (benchmark_cancel_requested' = 1) = TRUE
      BY <1>1
    <3>2. QED
      BY <1>1, <2>2, <2>4, <3>1, Zenon DEF SlotFacts, Held
  <2>8. /\ SlotJob # NoWorker
        /\ [SlotJob EXCEPT !.stop = TRUE] = JobOf(job[w].kind, TRUE, o)
    <3>1. /\ SlotJob # NoWorker
          /\ \A c : [SlotJob EXCEPT !.stop = c] = JobOf(job[w].kind, c, o)
      BY <2>5, <2>6, JobFields
    <3>2. QED
      BY <3>1, Zenon
  <2>9. Slot!Stop
    BY <1>1, <2>7, <2>8 DEF Slot!Stop
  <2>10. QED
    BY <2>9 DEF SlotStep, Slot!SlotNext
<1>4. QED
  BY <1>2, <1>3

(* Settings change only while the slot is empty. *)
LEMMA ConfigureImplements ==
  ASSUME AllInv, OwnerInv, SlotFacts, SlotFacts', ConfigureStore
  PROVE  SlotStep
<1> USE DEF AllInv, HostInv
<1>1. g_rng_busy = 0 /\ g_rng_busy' = 0 /\ request.settings \in Settings
  BY DEF ConfigureStore, At, OwnerInv, OneJobAtATime, UiInv
<1>2. SlotJob = NoWorker /\ SlotJob' = NoWorker
  BY <1>1 DEF SlotFacts
<1>3. current_settings' = request.settings \/ UNCHANGED current_settings
  BY <1>1 DEF ConfigureStore, RngConfigure
<1>4. CASE current_settings' = request.settings
  <2>1. Slot!Configure(request.settings)
    BY <1>2, <1>4 DEF Slot!Configure
  <2>2. QED
    BY <1>1, <2>1 DEF SlotStep, Slot!SlotNext
<1>5. CASE UNCHANGED current_settings
  BY <1>2, <1>5 DEF SlotStep, Slot!slotVars
<1>6. QED
  BY <1>3, <1>4, <1>5

(* Waiting for the last thread leaves the claim, or the empty slot, alone. *)
LEMMA WaitUnseen ==
  ASSUME AllInv, OwnerInv, SlotFacts, SlotFacts', ReapDone \/ WorkerStopped
  PROVE  SlotStep
<1> USE DEF AllInv, HostInv
<1>1. CASE ReapDone
  <2>1. Admitting /\ Admitting' /\ UNCHANGED << request, current_settings >>
    BY <1>1 DEF ReapDone, At, Admitting, rngVars, rngExceptRet
  <2>2. QED
    BY <2>1 DEF SlotFacts, Admitted, SlotStep, Slot!slotVars
<1>2. CASE WorkerStopped
  <2>1. /\ ~Admitting /\ CloseHandle
        /\ UNCHANGED << g_rng_busy, current_settings >>
    BY <1>2 DEF WorkerStopped, At, Admitting, destroySide, rngVars, rngExceptRet
  <2>2. \A w \in Worker : ~Active(w)
    BY <2>1 DEF CloseHandle, NoLeakedWorker, Active, Working
  <2>3. g_rng_busy = 0
    BY <2>1, <2>2 DEF OwnerInv, Admitting
  <2>4. QED
    BY <2>1, <2>3 DEF SlotFacts, SlotStep, Slot!slotVars
<1>3. QED
  BY <1>1, <1>2

(* The new thread takes over the claim as the UI thread made it. *)
LEMMA CreateUnseen ==
  ASSUME AllInv, OwnerInv, SlotFacts, SlotFacts', NEW w \in Worker, CreateWorker(w)
  PROVE  SlotStep
<1> USE DEF AllInv, HostInv
<1>1. /\ Admitting
      /\ job'[w].pc = "start" /\ job'[w].kind = request.action
      /\ benchmark_cancel_requested' # 1
      /\ UNCHANGED current_settings
  BY DEF CreateWorker, At, Admitting, OwnerInv, JobOK, IdleJob, rngVars,
     rngExceptRet
<1>2. Active(w)'
  BY <1>1 DEF Active, Working
<1>3. SlotJob = JobOf(request.action, FALSE, "none")
  BY <1>1 DEF SlotFacts, Admitted
<1>4. SlotJob' = JobOf(request.action, FALSE, "none")
  <2>1. (benchmark_cancel_requested' = 1) = FALSE
    BY <1>1
  <2>2. (IF job'[w].pc \in {"leave", "clear"} THEN ret'[w] ELSE "none") = "none"
    BY <1>1
  <2>3. QED
    BY <1>1, <1>2, <2>1, <2>2, Zenon DEF SlotFacts, Held
<1>5. QED
  BY <1>1, <1>3, <1>4 DEF SlotStep, Slot!slotVars

-----------------------------------------------------------------------------
LEMMA StepImplements ==
  ASSUME AllInv, OwnerInv, SlotFacts, SlotFacts', [Next]_vars
  PROVE  SlotStep
<1>1. CASE UNCHANGED vars
  <2>1. UNCHANGED << job, ret, ui, request, g_rng_busy, current_settings,
                     benchmark_cancel_requested >>
    BY <1>1 DEF vars, rngVars, rngExceptRet, uiSide
  <2>2. CASE Admitting
    BY <2>1, <2>2 DEF SlotFacts, Admitting, Admitted, SlotStep, Slot!slotVars
  <2>3. CASE ~Admitting
    BY <2>1, <2>3, UiUnseen DEF Admitting
  <2>4. QED
    BY <2>2, <2>3
<1>2. CASE UiQuiet
  BY <1>2, UiUnseenSteps, AdmissionImplements, GiveUpImplements, StopImplements
     DEF UiQuiet
<1>3. QED
  BY <1>1, <1>2, StepCases, WorkerImplements, WaitUnseen, CreateUnseen,
     ConfigureImplements, UiUnseenSteps

(* The host is a job slot: one job at a time owns the collector, a stop stays
   with the job it was meant for, a job ends cancelled only if it was stopped,
   and settings change only between jobs (main_gui.cpp TryAdmitJob, the worker
   threads, configure, cancelBenchmark). *)
THEOREM HostIsJobSlot == Spec => ImplementsJobSlot
<1>1. GuiInit => AllInv /\ OwnerInv
  <2>1. GuiInit => OwnerInv
    BY DEF GuiInit, RngInit, OwnerInv
  <2>2. QED
    BY <2>1, InitEstablishesAll
<1>2. AllInv /\ OwnerInv /\ [Next]_vars => AllInv' /\ OwnerInv'
  BY StepKeepsAll, OwnerStep
<1>3. Spec => [](AllInv /\ OwnerInv)
  BY <1>1, <1>2, PTL DEF Spec
<1>4. GuiInit => Slot!SlotInit
  BY DEF GuiInit, RngInit, SlotJob, Slot!SlotInit
<1>5. AllInv /\ OwnerInv /\ SlotFacts /\ SlotFacts' /\ [Next]_vars => SlotStep
  BY StepImplements
<1>6. QED
  BY <1>3, <1>4, <1>5, SlotIsOwners, PTL
     DEF Spec, ImplementsJobSlot, Slot!SlotSpec, SlotStep

-----------------------------------------------------------------------------
(* The types of the host. *)

(* The types of what the host adds to the wrapper's state. *)
Requests == [action : JobKind \cup {"configure", "none"}, n : 0 .. MaxChunks,
             settings : Settings \cup {NoSettings}]

RequestInv ==
  /\ request \in Requests
  /\ ui \in {"reap", "create"} => request.n > 0

(* A read is only under way while chunks are left to be produced. *)
ChunksInv ==
  \A w \in Worker : /\ job[w].todo \in 0 .. MaxChunks
                    /\ job[w].pc = "read" => job[w].todo > 0

FlagsInv ==
  /\ benchmark_cancel_requested \in {0, 1}
  /\ stop_asked \in BOOLEAN
  /\ g_worker_thread \in Worker \cup {NoWorker}
  /\ g_ui_settings \in Settings
  /\ g_session_hist \subseteq Settings

HostTypeOK ==
  /\ RngStateOK /\ ret \in [Thread -> Codes]
  /\ ui \in UiSteps
  /\ MailInv
  /\ job \in [Worker -> [pc : WorkerSteps, kind : JobKind, todo : 0 .. MaxChunks,
                         produced : BOOLEAN, from : Settings \cup {NoSettings}]]
  /\ g_rng_busy \in {0, 1} /\ g_rng_busy_lock \in Worker \cup {Free}
  /\ RequestInv
  /\ FlagsInv

LEMMA NoRequestIsOne == NoRequest \in Requests
BY ChunkAssumption DEF NoRequest, Requests

LEMMA MadeRequest ==
  ASSUME NEW r \in Requests, NEW a \in JobKind \cup {"configure", "none"},
         NEW k \in 0 .. MaxChunks, NEW s \in Settings \cup {NoSettings}
  PROVE  /\ [r EXCEPT !.action = a, !.n = k] \in Requests
         /\ [r EXCEPT !.action = a, !.n = k].n = k
         /\ [r EXCEPT !.action = a, !.settings = s] \in Requests
BY DEF Requests

LEMMA JobRequest ==
  ASSUME NEW kind \in JobKind, NEW k \in 1 .. MaxChunks
  PROVE  LET r == [NoRequest EXCEPT !.action = kind, !.n = k]
         IN  r \in Requests /\ r.n = k
<1>1. k \in 0 .. MaxChunks
  BY ChunkAssumption
<1>2. NoSettings \in Settings \cup {NoSettings} /\ kind \in JobKind \cup {"configure", "none"}
  OBVIOUS
<1>3. QED
  BY <1>1, <1>2, MadeRequest, NoRequestIsOne, Zenon

LEMMA ConfigureRequest ==
  ASSUME NEW s \in Settings
  PROVE  [NoRequest EXCEPT !.action = "configure", !.settings = s] \in Requests
<1>1. 0 \in 0 .. MaxChunks
  BY ChunkAssumption
<1>2. s \in Settings \cup {NoSettings} /\ "configure" \in JobKind \cup {"configure", "none"}
  OBVIOUS
<1>3. QED
  BY <1>1, <1>2, MadeRequest, NoRequestIsOne, Zenon

LEMMA RequestStep ==
  ASSUME RequestInv, [Next]_vars
  PROVE  RequestInv'
<1> USE DEF RequestInv, At, Idle
<1>1. CASE \E w \in Worker : WorkerStep(w)
  BY <1>1, WorkerKeepsUi DEF uiSide
<1>2. ASSUME NEW kind \in JobKind, NEW n \in 1 .. MaxChunks, HandleJob(kind, n)
      PROVE  RequestInv'
  <2>1. CASE g_rng_busy # 0
    BY <1>2, <2>1 DEF HandleJob
  <2>2. CASE g_rng_busy = 0
    <3>1. PICK r \in Requests :
            r.n = n /\ r = [NoRequest EXCEPT !.action = kind, !.n = n]
      BY JobRequest, Zenon
    <3>2. request' = r /\ r.n > 0
      BY <1>2, <2>2, <3>1 DEF HandleJob
    <3>3. QED
      BY <3>2
  <2>3. QED
    BY <2>1, <2>2
<1>3. ASSUME NEW s \in Settings, HandleConfigure(s)
      PROVE  RequestInv'
  BY <1>3, ConfigureRequest DEF HandleConfigure
<1>4. CASE \/ ReapTimeout \/ CreateFails \/ ConfigureApply
           \/ \E w \in Worker : CreateWorker(w)
  BY <1>4, NoRequestIsOne DEF ReapTimeout, CreateFails, ConfigureApply, CreateWorker
<1>5. CASE \/ ControllerCreated \/ ConfigureGet
           \/ TickStart \/ TickTake \/ TickBusy \/ TickTimeline \/ TickPost
           \/ \E action \in JobKind \cup {"configure"} : HandleInvalid(action)
           \/ HandleCancel \/ HandleClear \/ ClearTimeline
           \/ HandleDestroy \/ WorkerStuck
           \/ DestroyDelete
  BY <1>5 DEF ControllerCreated, ConfigureGet, TickStart, TickTake, TickBusy,
     TickTimeline, TickPost, HandleInvalid, HandleCancel, HandleClear,
     ClearTimeline, clearSide,
     HandleDestroy, WorkerStuck, DestroyDelete, frameSide, destroySide, uiSide
<1>6. CASE ReapDone
  BY <1>6 DEF ReapDone
<1>7. CASE \/ WorkerStopped \/ ConfigureShutdown \/ ConfigureStore
           \/ DestroyFree \/ TickStatus \/ UiInCall
  BY <1>7 DEF WorkerStopped, ConfigureShutdown, ConfigureStore, DestroyFree,
     TickStatus, UiInCall, frameSide, destroySide, uiSide
<1>8. CASE UNCHANGED vars
  BY <1>8 DEF vars, uiSide
<1>9. QED
  BY <1>1, <1>2, <1>3, <1>4, <1>5, <1>6, <1>7, <1>8, StepCases DEF UiQuiet

LEMMA ReadTakesChunk ==
  ASSUME NEW r \in JobRecord
  PROVE  LET s == [r EXCEPT !.pc = "loop", !.produced = TRUE, !.todo = @ - 1]
         IN  s.pc = "loop" /\ s.todo = r.todo - 1
BY DEF JobRecord

LEMMA ChunksStep ==
  ASSUME HostInv, RequestInv, ChunksInv, [Next]_vars
  PROVE  ChunksInv'
<1> USE ChunkAssumption DEF HostInv, ChunksInv, JobOK, JobRecord, Returned, Goto
<1>1. ASSUME NEW w \in Worker, WorkerStep(w)
      PROVE  ChunksInv'
  <2>1. CASE WorkerInCall(w)
    BY <2>1 DEF WorkerInCall
  <2>2. CASE LoopRead(w)
    BY <2>2 DEF LoopRead
  <2>3. CASE ReadReturned(w) /\ ret[w] = "ok"
    <3>1. /\ job[w].todo > 0
          /\ job' = [job EXCEPT ![w] = [job[w] EXCEPT !.pc = "loop", !.produced = TRUE,
                                                      !.todo = @ - 1]]
      BY <2>3 DEF ReadReturned
    <3>2. \A v \in Worker : v # w => job'[v] = job[v]
      BY <3>1
    <3>3. job'[w].pc = "loop" /\ job'[w].todo = job[w].todo - 1
      BY <3>1, ReadTakesChunk
    <3>4. QED
      BY <3>1, <3>2, <3>3
  <2>4. CASE ReadReturned(w) /\ ret[w] # "ok"
    BY <2>4 DEF ReadReturned, EndOfRun
  <2>5. CASE \/ WorkerStart(w) \/ BenchmarkSetup(w) \/ WorkerInit(w)
             \/ WorkerInited(w) \/ LoopDone(w) \/ LoopCancelled(w)
             \/ BenchmarkCleanup(w) \/ RecordTimeline(w) \/ PublishResult(w)
             \/ LeaveBusyLock(w) \/ WorkerExit(w)
    BY <2>5 DEF WorkerStart, BenchmarkSetup, WorkerInit, WorkerInited, LoopDone,
       LoopCancelled, BenchmarkCleanup, RecordTimeline, PublishResult,
       LeaveBusyLock, WorkerExit, EndOfRun
  <2>6. CASE ClearBusy(w)
    BY <2>6 DEF ClearBusy, IdleJob
  <2>7. QED
    BY <1>1, <2>1, <2>2, <2>3, <2>4, <2>5, <2>6 DEF WorkerStep
<1>2. CASE UiQuiet
  BY <1>2, UiQuietKeeps DEF workerSide
<1>3. CASE ReapDone \/ WorkerStopped
  <2>1. CloseHandle
    BY <1>3 DEF ReapDone, WorkerStopped
  <2>2. \A w \in Worker : job'[w] \in {IdleJob, job[w]}
    BY <2>1 DEF CloseHandle
  <2>3. QED
    BY <2>2 DEF IdleJob
<1>4. ASSUME NEW w \in Worker, CreateWorker(w)
      PROVE  ChunksInv'
  <2>1. /\ job' = [job EXCEPT ![w] = [IdleJob EXCEPT !.pc = "start",
                     !.kind = request.action, !.todo = request.n]]
        /\ request.n \in 0 .. MaxChunks
    BY <1>4 DEF CreateWorker, RequestInv, Requests
  <2>2. \A v \in Worker : v # w => job'[v] = job[v]
    BY <2>1
  <2>3. job'[w].pc = "start" /\ job'[w].todo = request.n
    BY <2>1 DEF IdleJob
  <2>4. QED
    BY <2>1, <2>2, <2>3
<1>5. CASE \/ ConfigureShutdown \/ ConfigureStore \/ DestroyFree
           \/ TickStatus \/ UiInCall
  BY <1>5 DEF ConfigureShutdown, ConfigureStore, DestroyFree, TickStatus,
     UiInCall, workerSide
<1>6. CASE UNCHANGED vars
  BY <1>6 DEF vars
<1>7. QED
  BY <1>1, <1>2, <1>3, <1>4, <1>5, <1>6, StepCases

LEMMA FlagsStep ==
  ASSUME AllInv, FlagsInv, [Next]_vars
  PROVE  FlagsInv'
<1> USE DEF FlagsInv, At, Idle
<1>1. ASSUME NEW w \in Worker, WorkerStep(w)
      PROVE  FlagsInv'
  <2>1. UNCHANGED << benchmark_cancel_requested, stop_asked, g_worker_thread, g_ui_settings >>
    BY <1>1, WorkerKeepsUi DEF uiSide
  <2>2. g_session_hist' \subseteq Settings
    <3>1. CASE PublishResult(w)
      <4>1. job[w].produced => job[w].from \in Settings
        BY DEF AllInv, HostInv, SessionInv, OriginInv, RngStateOK
      <4>2. QED
        BY <3>1, <4>1 DEF PublishResult
    <3>2. CASE ~PublishResult(w)
      BY <1>1, <3>2 DEF WorkerStep, WorkerStart, BenchmarkSetup, WorkerInit,
         WorkerInited, LoopDone, LoopCancelled, LoopRead, ReadReturned,
         BenchmarkCleanup, RecordTimeline, LeaveBusyLock, ClearBusy, WorkerExit,
         WorkerInCall, published
    <3>3. QED
      BY <3>1, <3>2
  <2>3. QED
    BY <2>1, <2>2
<1>2. CASE ConfigureApply
  <2>1. ret[UI] = "ok" => request.settings \in Settings
    BY <1>2 DEF ConfigureApply, AllInv, HostInv, SessionInv, DisplayInv, RngStateOK
  <2>2. QED
    BY <1>2, <2>1 DEF ConfigureApply, ResetSessionHist
<1>3. CASE UiQuiet /\ ~ConfigureApply
  BY <1>3 DEF UiQuiet, ControllerCreated, ReapTimeout, CreateFails,
     ConfigureGet, TickStart, TickTake, TickBusy, TickTimeline,
     TickPost, HandleJob, HandleInvalid, HandleConfigure, HandleCancel,
     HandleClear, ClearTimeline, clearSide,
     HandleDestroy, WorkerStuck, DestroyDelete, frameSide,
     destroySide, uiSide, published, ResetSessionHist
<1>4. CASE ReapDone \/ WorkerStopped
  BY <1>4 DEF ReapDone, WorkerStopped, CloseHandle, destroySide, published
<1>5. CASE \/ \E w \in Worker : CreateWorker(w)
           \/ ConfigureShutdown \/ ConfigureStore \/ DestroyFree \/ TickStatus \/ UiInCall
  BY <1>5 DEF CreateWorker, ConfigureShutdown, ConfigureStore, DestroyFree,
     TickStatus, UiInCall, frameSide, destroySide, uiSide, published
<1>6. CASE UNCHANGED vars
  BY <1>6 DEF vars, uiSide, published
<1>7. QED
  BY <1>1, <1>2, <1>3, <1>4, <1>5, <1>6, StepCases

LEMMA TypedInvariant == Spec => [](AllInv /\ RequestInv /\ ChunksInv /\ FlagsInv)
<1>1. GuiInit => AllInv /\ RequestInv /\ ChunksInv /\ FlagsInv
  <2>1. GuiInit => RequestInv
    BY NoRequestIsOne DEF GuiInit, RequestInv
  <2>2. GuiInit => ChunksInv
    BY ChunkAssumption DEF GuiInit, ChunksInv, IdleJob
  <2>3. GuiInit => FlagsInv
    <3>0. GuiInit => g_ui_settings = current_settings /\ g_session_hist = {}
                     /\ current_settings = DefaultSettings
      BY Zenon DEF GuiInit, RngInit
    <3>1. GuiInit => g_ui_settings \in Settings /\ g_session_hist \subseteq Settings
      <4>1. DefaultSettings \in Settings
        BY SettingsAssumption
      <4>2. {} \subseteq Settings
        OBVIOUS
      <4>3. QED
        BY <3>0, <4>1, <4>2, Zenon
    <3>2. GuiInit => benchmark_cancel_requested = 0 /\ stop_asked = FALSE
                     /\ g_worker_thread = NoWorker
      BY DEF GuiInit
    <3>3. QED
      BY <3>1, <3>2, Zenon DEF FlagsInv
  <2>4. QED
    BY <2>1, <2>2, <2>3, InitEstablishesAll
<1>2. AllInv /\ RequestInv /\ ChunksInv /\ FlagsInv /\ [Next]_vars
        => (AllInv /\ RequestInv /\ ChunksInv /\ FlagsInv)'
  BY StepKeepsAll, RequestStep, ChunksStep, FlagsStep DEF AllInv
<1>3. QED
  BY <1>1, <1>2, PTL DEF Spec

(* Types of the host's state: among them, that the chunks of a job are never
   counted below zero, and that what is in the mailbox, in the frame and in the
   histogram is a result, a frame and settings (main_gui.cpp:49-130). *)
THEOREM HostTypes == Spec => []HostTypeOK
<1>1. AllInv /\ RequestInv /\ ChunksInv /\ FlagsInv => HostTypeOK
  <2> SUFFICES ASSUME AllInv, RequestInv, ChunksInv, FlagsInv PROVE HostTypeOK
    OBVIOUS
  <2>1. job \in [Worker -> [pc : WorkerSteps, kind : JobKind, todo : 0 .. MaxChunks,
                            produced : BOOLEAN, from : Settings \cup {NoSettings}]]
    BY DEF AllInv, HostInv, JobOK, JobRecord, ChunksInv
  <2>2. QED
    BY <2>1 DEF AllInv, HostInv, SessionInv, UiInv, EndInv, HostTypeOK
<1>2. QED
  BY <1>1, TypedInvariant, PTL
=============================================================================
