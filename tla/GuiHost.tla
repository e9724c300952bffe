------------------------------- MODULE GuiHost -------------------------------
(***************************************************************************)
(* The host process of the dashboard (app/main_gui.cpp, app/benchmark.c):  *)
(* the UI thread, which handles bridge messages, the telemetry timer and   *)
(* the window's destruction one at a time, and the worker threads it       *)
(* starts for Generate and Benchmark.  They meet in the busy flag, the     *)
(* cancel flag, the result mailbox, the session histogram, the timeline    *)
(* and the collector of RngWrapper.                                        *)
(*                                                                         *)
(* A step is what runs between two points where the other thread can be    *)
(* noticed: a critical section, an interlocked operation, a wait.  The     *)
(* worker-thread lock is only ever taken by the UI thread and is left out. *)
(***************************************************************************)
EXTENDS RngWrapper

CONSTANTS
  Worker,     \* worker threads; a slot is free again when its handle is closed
  UI,         \* the UI thread
  MaxChunks,  \* bound on the chunks of a generate and calls of a benchmark
  NoResult,   \* an invalid g_pending_worker_result
  NoWorker    \* a NULL g_worker_thread

ASSUME ThreadAssumption ==
  /\ Thread = Worker \cup {UI}
  /\ UI \notin Worker
  /\ NoWorker \notin Worker

ASSUME ChunkAssumption == MaxChunks \in Nat \ {0}

VARIABLES
  ui,            \* what the UI thread is doing
  request,       \* the bridge message it is working on
  frame,         \* the telemetry frame it is building
  job,           \* each worker thread: program counter and locals
  g_rng_busy,
  g_rng_busy_lock,     \* owner of g_rng_busy_lock
  benchmark_cancel_requested,
  g_worker_thread,
  g_pending_worker_result,
  g_session_hist, \* the settings whose collectors' bytes it counts
  g_ui_settings,
  g_last_timeline,
  stop_asked     \* history: a stop was handled since the last admission

(* Written by the UI thread only; written by both sides. *)
uiSide == << ui, request, frame, benchmark_cancel_requested, g_worker_thread,
             g_ui_settings, stop_asked >>
published == << g_pending_worker_result, g_session_hist, g_last_timeline >>

vars == << rngVars, uiSide, published, job, g_rng_busy, g_rng_busy_lock >>

-----------------------------------------------------------------------------
JobKind == {"generate", "benchmark"}
Codes == RngCodes \cup {"busy", "invalid", "cancelled"}

(* What the page tells apart in a result's status (index.html:1080-1083). *)
Outcome(code) ==
  CASE code = "ok"                  -> "ok"
    [] code = "cancelled"           -> "stopped"
    [] code \in {"busy", "invalid"} -> "rejected"
    [] OTHER                        -> "failed"

(* A result in the mailbox was put there by a worker, by a CreateThread that
   failed, or by the UI thread answering a message itself. *)
Results == [action : JobKind \cup {"configure"},
            status : {"ok", "stopped", "rejected", "failed"},
            from : {"worker", "start", "reply"}]

(* An empty mailbox holds no result, a free slot no job. *)
ASSUME ResultAssumption == NoResult \notin Results
ASSUME SlotAssumption ==
  NoWorker \notin [kind : JobKind, stop : BOOLEAN, outcome : Codes \cup {"none"}]

NoFrame == [result |-> NoResult, busy |-> FALSE]
IdleJob == [pc |-> "none", kind |-> "generate", todo |-> 0,
            produced |-> FALSE, from |-> NoSettings]
NoRequest == [action |-> "none", n |-> 0, settings |-> NoSettings]

UiSteps == { "boot", "idle", "tick_status", "tick_take", "tick_busy",
             "tick_timeline", "tick_post", "clear_timeline", "reap", "create",
             "cfg_get", "cfg_shutdown", "cfg_store", "cfg_apply", "destroy_wait",
             "destroy_free", "destroy_delete", "quit", "exited" }

(* From "start" to "clear" a worker owns the job slot. *)
Working == { "start", "malloc", "init", "inited", "loop", "read", "cleanup",
             "timeline", "publish", "leave", "clear" }
WorkerSteps == Working \cup { "none", "ending", "exited" }

GuiInit ==
  /\ RngInit
  /\ ui = "boot"
  /\ request = NoRequest
  /\ frame = NoFrame
  /\ job = [w \in Worker |-> IdleJob]
  /\ g_rng_busy = 0
  /\ g_rng_busy_lock = Free
  /\ benchmark_cancel_requested = 0
  /\ g_worker_thread = NoWorker
  /\ g_pending_worker_result = NoResult
  /\ g_session_hist = {}
  /\ g_ui_settings = current_settings
  /\ g_last_timeline = [valid |-> FALSE, pending |-> FALSE]
  /\ stop_asked = FALSE

Goto(w, pc) == job' = [job EXCEPT ![w].pc = pc]

(* PublishRejection: an answer that gives way to any unread result. *)
PublishRejection(action, status) ==
  g_pending_worker_result' =
    IF g_pending_worker_result = NoResult
    THEN [action |-> action, status |-> Outcome(status), from |-> "reply"]
    ELSE g_pending_worker_result

ResetSessionHist == g_session_hist' = {}

-----------------------------------------------------------------------------
(* Worker threads: GenerateWorkerThread, and BenchmarkWorkerThread around
   run_benchmark.  A call of the wrapper moves the thread to the place where
   it goes on once the call has returned. *)
Returned(w, pc) == job[w].pc = pc /\ call[w] = "idle"

(* Faulty variant: a cancelled benchmark returns past its cleanup. *)
EndOfRunSkipsCleanup(w) ==
  Goto(w, IF job[w].kind = "benchmark" /\ benchmark_cancel_requested = 0
          THEN "cleanup" ELSE "timeline")

EndOfRun(w) ==
  Goto(w, IF job[w].kind = "benchmark" THEN "cleanup" ELSE "timeline")

(* Faulty variant: the job resets the cancel flag itself. *)
WorkerStartResetsFlag(w) ==
  /\ Returned(w, "start")
  /\ g_rng_busy_lock = Free
  /\ g_rng_busy_lock' = w
  /\ benchmark_cancel_requested' = 0
  /\ Goto(w, IF job[w].kind = "benchmark" THEN "malloc" ELSE "init")
  /\ UNCHANGED << rngVars, ui, request, frame, g_worker_thread, g_ui_settings,
                  stop_asked, published, g_rng_busy >>

WorkerStart(w) ==
  /\ Returned(w, "start")
  /\ g_rng_busy_lock = Free
  /\ g_rng_busy_lock' = w
  /\ Goto(w, IF job[w].kind = "benchmark" THEN "malloc" ELSE "init")
  /\ UNCHANGED << rngVars, uiSide, published, g_rng_busy >>

(* run_benchmark starts from a fresh collector, or returns before it touches
   one if its buffer cannot be allocated. *)
BenchmarkSetup(w) ==
  /\ Returned(w, "malloc")
  /\ \/ ShutdownRng(w) /\ Goto(w, "init")
     \/ /\ ret' = [ret EXCEPT ![w] = "alloc_failed"]
        /\ Goto(w, "timeline")
        /\ UNCHANGED rngExceptRet
  /\ UNCHANGED << uiSide, published, g_rng_busy, g_rng_busy_lock >>

WorkerInit(w) ==
  /\ Returned(w, "init")
  /\ InitRng(w)
  /\ Goto(w, "inited")
  /\ UNCHANGED << uiSide, published, g_rng_busy, g_rng_busy_lock >>

(* A generate allocates its buffer only now, and may fail to. *)
WorkerInited(w) ==
  /\ Returned(w, "inited")
  /\ \/ ret[w] = "ok" /\ Goto(w, "loop") /\ UNCHANGED ret
     \/ ret[w] # "ok" /\ EndOfRun(w) /\ UNCHANGED ret
     \/ /\ ret[w] = "ok" /\ job[w].kind = "generate"
        /\ ret' = [ret EXCEPT ![w] = "alloc_failed"]
        /\ EndOfRun(w)
  /\ UNCHANGED << rngExceptRet, uiSide, published, g_rng_busy, g_rng_busy_lock >>

(* The loop's head: done, told to stop, or one more read. *)
LoopDone(w) ==
  /\ Returned(w, "loop")
  /\ job[w].todo = 0
  /\ EndOfRun(w)
  /\ UNCHANGED << rngVars, uiSide, published, g_rng_busy, g_rng_busy_lock >>

LoopCancelled(w) ==
  /\ Returned(w, "loop")
  /\ job[w].todo > 0 /\ benchmark_cancel_requested = 1
  /\ ret' = [ret EXCEPT ![w] = "cancelled"]
  /\ EndOfRun(w)
  /\ UNCHANGED << rngExceptRet, uiSide, published, g_rng_busy, g_rng_busy_lock >>

LoopRead(w) ==
  /\ Returned(w, "loop")
  /\ job[w].todo > 0 /\ benchmark_cancel_requested = 0
  /\ GetRandomBytes(w)
  /\ job' = [job EXCEPT ![w].pc = "read", ![w].from = rng_collector]
  /\ UNCHANGED << uiSide, published, g_rng_busy, g_rng_busy_lock >>

ReadReturned(w) ==
  /\ Returned(w, "read")
  /\ IF ret[w] = "ok"
     THEN job' = [job EXCEPT ![w].pc = "loop", ![w].produced = TRUE,
                             ![w].todo = @ - 1]
     ELSE EndOfRun(w)
  /\ UNCHANGED << rngVars, uiSide, published, g_rng_busy, g_rng_busy_lock >>

BenchmarkCleanup(w) ==
  /\ Returned(w, "cleanup")
  /\ ShutdownRng(w)
  /\ Goto(w, "timeline")
  /\ UNCHANGED << uiSide, published, g_rng_busy, g_rng_busy_lock >>

RecordTimeline(w) ==
  /\ Returned(w, "timeline")
  /\ g_last_timeline' = [valid |-> TRUE, pending |-> TRUE]
  /\ Goto(w, "publish")
  /\ UNCHANGED << rngVars, uiSide, g_pending_worker_result, g_session_hist,
                  g_rng_busy, g_rng_busy_lock >>

(* Faulty variant: the slot is freed with the result, before the lock. *)
PublishFreesSlot(w) ==
  /\ Returned(w, "publish")
  /\ g_pending_worker_result' =
       [action |-> job[w].kind, status |-> Outcome(ret[w]), from |-> "worker"]
  /\ g_session_hist' = g_session_hist \cup
       (IF job[w].kind = "generate" /\ job[w].produced THEN {job[w].from} ELSE {})
  /\ g_rng_busy' = 0
  /\ Goto(w, "leave")
  /\ UNCHANGED << rngVars, uiSide, g_last_timeline, g_rng_busy_lock >>

(* Under g_result_lock: the result, whatever was in the mailbox, and the
   bytes of a generate in the session histogram. *)
PublishResult(w) ==
  /\ Returned(w, "publish")
  /\ g_pending_worker_result' =
       [action |-> job[w].kind, status |-> Outcome(ret[w]), from |-> "worker"]
  /\ g_session_hist' = g_session_hist \cup
       (IF job[w].kind = "generate" /\ job[w].produced THEN {job[w].from} ELSE {})
  /\ Goto(w, "leave")
  /\ UNCHANGED << rngVars, uiSide, g_last_timeline, g_rng_busy, g_rng_busy_lock >>

LeaveBusyLock(w) ==
  /\ Returned(w, "leave")
  /\ g_rng_busy_lock' = Free
  /\ Goto(w, "clear")
  /\ UNCHANGED << rngVars, uiSide, published, g_rng_busy >>

(* The busy flag falls while the thread is still alive; its locals end. *)
ClearBusy(w) ==
  /\ Returned(w, "clear")
  /\ g_rng_busy' = 0
  /\ job' = [job EXCEPT ![w] = [IdleJob EXCEPT !.pc = "ending"]]
  /\ ret' = [ret EXCEPT ![w] = "ok"]
  /\ UNCHANGED << rngExceptRet, uiSide, published, g_rng_busy_lock >>

WorkerExit(w) ==
  /\ Returned(w, "ending")
  /\ Goto(w, "exited")
  /\ UNCHANGED << rngVars, uiSide, published, g_rng_busy, g_rng_busy_lock >>

(* The step of the wrapper or the library a worker's call is in. *)
WorkerInCall(w) ==
  /\ InCall(w)
  /\ UNCHANGED << uiSide, published, job, g_rng_busy, g_rng_busy_lock >>

WorkerStep(w) ==
  /\ ui # "exited"
  /\ \/ WorkerStart(w) \/ BenchmarkSetup(w) \/ WorkerInit(w) \/ WorkerInited(w)
     \/ LoopDone(w) \/ LoopCancelled(w) \/ LoopRead(w) \/ ReadReturned(w)
     \/ BenchmarkCleanup(w) \/ RecordTimeline(w) \/ PublishResult(w)
     \/ LeaveBusyLock(w) \/ ClearBusy(w) \/ WorkerExit(w) \/ WorkerInCall(w)

-----------------------------------------------------------------------------
(* The UI thread.  It takes a message, a timer tick or the window's end only
   when it is idle, and finishes it before the next. *)
Idle == ui = "idle" /\ call[UI] = "idle"
At(step) == ui = step /\ call[UI] = "idle"

(* What a UI step leaves alone unless it says otherwise. *)
workerSide == << job, g_rng_busy_lock >>

(* Startup: the WebView2 controller is created, or fails and the window is
   destroyed before a timer or a message handler exists. *)
ControllerCreated ==
  /\ At("boot")
  /\ ui' = "idle"
  /\ UNCHANGED << rngVars, workerSide, published, request, frame, g_rng_busy,
                  benchmark_cancel_requested, g_worker_thread, g_ui_settings,
                  stop_asked >>

(* generate or benchmark with n chunks or calls.  TryAdmitJob claims the busy
   flag first; a refusal is answered at once. *)
HandleJob(kind, n) ==
  /\ Idle
  /\ IF g_rng_busy # 0
     THEN /\ PublishRejection(kind, "busy")
          /\ UNCHANGED << ui, request, g_rng_busy, stop_asked >>
     ELSE /\ g_rng_busy' = 1
          /\ ui' = "reap"
          /\ request' = [NoRequest EXCEPT !.action = kind, !.n = n]
          /\ stop_asked' = FALSE
          /\ UNCHANGED g_pending_worker_result
  /\ UNCHANGED << rngVars, workerSide, g_session_hist, g_last_timeline, frame,
                  benchmark_cancel_requested, g_worker_thread, g_ui_settings >>

(* A number out of range; configure reads the stored settings before that. *)
HandleInvalid(action) ==
  /\ Idle
  /\ action = "configure" => g_rng_busy = 0 /\ rng_lock = Free
  /\ PublishRejection(action, "invalid")
  /\ UNCHANGED << rngVars, workerSide, uiSide, g_session_hist, g_last_timeline,
                  g_rng_busy >>

(* The previous thread's handle is closed once that thread is gone, which
   frees its slot. *)
CloseHandle ==
  /\ g_worker_thread # NoWorker => job[g_worker_thread].pc = "exited"
  /\ g_worker_thread' = NoWorker
  /\ job' = [w \in Worker |-> IF w = g_worker_thread THEN IdleJob ELSE job[w]]

(* Faulty variants: the handle is dropped without waiting for the thread; the
   cancel flag keeps what the last job left in it. *)
ReapDoneNoWait ==
  /\ At("reap")
  /\ g_worker_thread' = NoWorker
  /\ benchmark_cancel_requested' = 0
  /\ ui' = "create"
  /\ UNCHANGED << rngVars, workerSide, published, g_rng_busy, request, frame,
                  g_ui_settings, stop_asked >>

(* ReapWorkerHandle succeeds; the cancel flag is reset for the new job. *)
ReapDone ==
  /\ At("reap")
  /\ CloseHandle
  /\ benchmark_cancel_requested' = 0
  /\ ui' = "create"
  /\ UNCHANGED << rngVars, published, g_rng_busy, g_rng_busy_lock, request,
                  frame, g_ui_settings, stop_asked >>

(* The previous thread is still alive after two seconds. *)
ReapTimeout ==
  /\ At("reap")
  /\ g_worker_thread # NoWorker /\ job[g_worker_thread].pc # "exited"
  /\ g_rng_busy' = 0
  /\ PublishRejection(request.action, "busy")
  /\ ui' = "idle"
  /\ request' = NoRequest
  /\ UNCHANGED << rngVars, workerSide, g_session_hist, g_last_timeline, frame,
                  benchmark_cancel_requested, g_worker_thread, g_ui_settings,
                  stop_asked >>

CreateWorker(w) ==
  /\ At("create")
  /\ job[w].pc = "none"
  /\ job' = [job EXCEPT ![w] = [IdleJob EXCEPT !.pc = "start",
                !.kind = request.action, !.todo = request.n]]
  /\ g_worker_thread' = w
  /\ ui' = "idle"
  /\ request' = NoRequest
  /\ UNCHANGED << rngVars, published, g_rng_busy, g_rng_busy_lock, frame,
                  benchmark_cancel_requested, g_ui_settings, stop_asked >>

(* Faulty variant: the slot stays claimed. *)
CreateFailsKeepsSlot ==
  /\ At("create")
  /\ g_pending_worker_result' =
       [action |-> request.action, status |-> "failed", from |-> "start"]
  /\ ui' = "idle"
  /\ request' = NoRequest
  /\ UNCHANGED << rngVars, workerSide, g_session_hist, g_last_timeline, frame,
                  g_rng_busy, benchmark_cancel_requested, g_worker_thread,
                  g_ui_settings, stop_asked >>

(* CreateThread fails: PublishWorkerStartFailure. *)
CreateFails ==
  /\ At("create")
  /\ g_pending_worker_result' =
       [action |-> request.action, status |-> "failed", from |-> "start"]
  /\ g_rng_busy' = 0
  /\ ui' = "idle"
  /\ request' = NoRequest
  /\ UNCHANGED << rngVars, workerSide, g_session_hist, g_last_timeline, frame,
                  benchmark_cancel_requested, g_worker_thread, g_ui_settings,
                  stop_asked >>

(* cancelBenchmark stops whichever job is running. *)
HandleCancel ==
  /\ Idle
  /\ g_rng_busy # 0
  /\ benchmark_cancel_requested' = 1
  /\ stop_asked' = TRUE
  /\ UNCHANGED << rngVars, workerSide, published, ui, request, frame, g_rng_busy,
                  g_worker_thread, g_ui_settings >>

clearSide == << request, frame, benchmark_cancel_requested, g_worker_thread,
                g_ui_settings, stop_asked >>

(* Faulty variant: the initialized flag is cleared with the counters. *)
HandleClearForgets ==
  /\ Idle
  /\ ResetSessionHist
  /\ initialized' = FALSE
  /\ ui' = "clear_timeline"
  /\ UNCHANGED << rng_collector, current_settings, entropy_self_test_complete,
                  rng_lock, cb_switch_blocked, fips_cb, tested, call, flags, ret,
                  workerSide, clearSide, g_pending_worker_result,
                  g_last_timeline, g_rng_busy >>

(* clearHistory, one lock after another; the health monitor keeps its
   initialized flag. *)
HandleClear ==
  /\ Idle
  /\ ResetSessionHist
  /\ ui' = "clear_timeline"
  /\ UNCHANGED << rngVars, workerSide, clearSide, g_pending_worker_result,
                  g_last_timeline, g_rng_busy >>

ClearTimeline ==
  /\ At("clear_timeline")
  /\ g_last_timeline' = [g_last_timeline EXCEPT !.valid = FALSE]
  /\ ui' = "idle"
  /\ UNCHANGED << rngVars, workerSide, clearSide, g_pending_worker_result,
                  g_session_hist, g_rng_busy >>

(* Faulty variant: settings are taken while a job runs. *)
HandleConfigureWhileBusy(s) ==
  /\ Idle
  /\ ui' = "cfg_get"
  /\ request' = [NoRequest EXCEPT !.action = "configure", !.settings = s]
  /\ UNCHANGED << rngVars, workerSide, published, frame, g_rng_busy,
                  benchmark_cancel_requested, g_worker_thread, g_ui_settings,
                  stop_asked >>

(* configure: refused while a job runs, else the stored settings are read
   and the fields present in the message replaced. *)
HandleConfigure(s) ==
  /\ Idle
  /\ IF g_rng_busy # 0
     THEN PublishRejection("configure", "busy") /\ UNCHANGED << ui, request >>
     ELSE /\ ui' = "cfg_get"
          /\ request' = [NoRequest EXCEPT !.action = "configure", !.settings = s]
          /\ UNCHANGED g_pending_worker_result
  /\ UNCHANGED << rngVars, workerSide, g_session_hist, g_last_timeline, frame,
                  g_rng_busy, benchmark_cancel_requested, g_worker_thread,
                  g_ui_settings, stop_asked >>

ConfigureGet ==
  /\ At("cfg_get")
  /\ rng_lock = Free
  /\ ui' = "cfg_shutdown"
  /\ UNCHANGED << rngVars, workerSide, published, request, frame, g_rng_busy,
                  benchmark_cancel_requested, g_worker_thread, g_ui_settings,
                  stop_asked >>

ConfigureShutdown ==
  /\ At("cfg_shutdown")
  /\ ShutdownRng(UI)
  /\ ui' = "cfg_store"
  /\ UNCHANGED << workerSide, published, request, frame, g_rng_busy,
                  benchmark_cancel_requested, g_worker_thread, g_ui_settings,
                  stop_asked >>

ConfigureStore ==
  /\ At("cfg_store")
  /\ RngConfigure(UI, request.settings)
  /\ ui' = "cfg_apply"
  /\ UNCHANGED << workerSide, published, request, frame, g_rng_busy,
                  benchmark_cancel_requested, g_worker_thread, g_ui_settings,
                  stop_asked >>

(* Faulty variants: the settings on display are not renewed; the session
   histogram goes on across configurations. *)
ConfigureApplyStale ==
  /\ At("cfg_apply")
  /\ PublishRejection("configure", ret[UI])
  /\ ResetSessionHist
  /\ ui' = "idle"
  /\ request' = NoRequest
  /\ UNCHANGED << rngVars, workerSide, g_last_timeline, frame, g_rng_busy,
                  benchmark_cancel_requested, g_worker_thread, g_ui_settings,
                  stop_asked >>

ConfigureApplyKeepsHist ==
  /\ At("cfg_apply")
  /\ IF ret[UI] = "ok" THEN g_ui_settings' = request.settings
                       ELSE UNCHANGED g_ui_settings
  /\ PublishRejection("configure", ret[UI])
  /\ ui' = "idle"
  /\ request' = NoRequest
  /\ UNCHANGED << rngVars, workerSide, g_session_hist, g_last_timeline, frame,
                  g_rng_busy, benchmark_cancel_requested, g_worker_thread,
                  stop_asked >>

ConfigureApply ==
  /\ At("cfg_apply")
  /\ IF ret[UI] = "ok"
     THEN g_ui_settings' = request.settings /\ ResetSessionHist
     ELSE UNCHANGED << g_ui_settings, g_session_hist >>
  /\ PublishRejection("configure", ret[UI])
  /\ ui' = "idle"
  /\ request' = NoRequest
  /\ UNCHANGED << rngVars, workerSide, g_last_timeline, frame, g_rng_busy,
                  benchmark_cancel_requested, g_worker_thread, stop_asked >>

-----------------------------------------------------------------------------
(* WM_TIMER: BuildTelemetryJson, then the post to the page. *)
frameSide == << request, g_rng_busy, benchmark_cancel_requested,
                g_worker_thread, g_ui_settings, stop_asked >>

TickStart ==
  /\ Idle
  /\ ui' = "tick_status"
  /\ UNCHANGED << rngVars, workerSide, published, frameSide, frame >>

(* rng_get_status_json never waits: no collector or a busy lock means no
   library status in this frame. *)
TickStatus ==
  /\ At("tick_status")
  /\ \/ StatusBegin(UI)
     \/ (rng_lock # Free \/ rng_collector = NoSettings) /\ UNCHANGED rngVars
  /\ ui' = "tick_take"
  /\ UNCHANGED << workerSide, published, frameSide, frame >>

(* Faulty variant: the mailbox is not emptied. *)
TickTakeKeeps ==
  /\ At("tick_take")
  /\ frame' = [frame EXCEPT !.result = g_pending_worker_result]
  /\ ui' = "tick_busy"
  /\ UNCHANGED << rngVars, workerSide, published, frameSide >>

TickTake ==
  /\ At("tick_take")
  /\ frame' = [frame EXCEPT !.result = g_pending_worker_result]
  /\ g_pending_worker_result' = NoResult
  /\ ui' = "tick_busy"
  /\ UNCHANGED << rngVars, workerSide, g_session_hist, g_last_timeline, frameSide >>

TickBusy ==
  /\ At("tick_busy")
  /\ frame' = [frame EXCEPT !.busy = (g_rng_busy # 0)]
  /\ ui' = "tick_timeline"
  /\ UNCHANGED << rngVars, workerSide, published, frameSide >>

(* Faulty variant: the stamp leaves the timeline pending. *)
TickTimelineKeepsPending ==
  /\ At("tick_timeline")
  /\ ui' = "tick_post"
  /\ UNCHANGED << rngVars, workerSide, published, frameSide, frame >>

(* A frame with a result stamps a pending serialization. *)
TickTimeline ==
  /\ At("tick_timeline")
  /\ g_last_timeline' =
       IF g_last_timeline.valid /\ frame.result # NoResult
       THEN [g_last_timeline EXCEPT !.pending = FALSE]
       ELSE g_last_timeline
  /\ ui' = "tick_post"
  /\ UNCHANGED << rngVars, workerSide, g_pending_worker_result, g_session_hist,
                  frameSide, frame >>

(* PostWebMessageAsJson; a failed post loses the frame. *)
TickPost ==
  /\ At("tick_post")
  /\ ui' = "idle"
  /\ frame' = NoFrame
  /\ UNCHANGED << rngVars, workerSide, published, frameSide >>

-----------------------------------------------------------------------------
(* WM_DESTROY: cancel, wait for the worker, free the collector, delete the
   critical sections. *)
destroySide == << request, frame, g_rng_busy, g_ui_settings >>

HandleDestroy ==
  /\ At("boot") \/ Idle
  /\ benchmark_cancel_requested' = 1
  /\ stop_asked' = TRUE
  /\ ui' = "destroy_wait"
  /\ UNCHANGED << rngVars, workerSide, published, destroySide, g_worker_thread >>

(* Faulty variants: the end does not wait for the thread; it waits for a
   thread that was never started. *)
WorkerStoppedNoWait ==
  /\ At("destroy_wait")
  /\ g_worker_thread' = NoWorker
  /\ ui' = "destroy_free"
  /\ UNCHANGED << rngVars, workerSide, published, destroySide,
                  benchmark_cancel_requested, stop_asked >>

WorkerStoppedNeedsHandle ==
  /\ At("destroy_wait")
  /\ g_worker_thread # NoWorker
  /\ CloseHandle
  /\ ui' = "destroy_free"
  /\ UNCHANGED << rngVars, published, g_rng_busy_lock, destroySide,
                  benchmark_cancel_requested, stop_asked >>

WorkerStopped ==
  /\ At("destroy_wait")
  /\ CloseHandle
  /\ ui' = "destroy_free"
  /\ UNCHANGED << rngVars, published, g_rng_busy_lock, destroySide,
                  benchmark_cancel_requested, stop_asked >>

(* The worker is not gone after ten seconds: ExitProcess. *)
WorkerStuck ==
  /\ At("destroy_wait")
  /\ g_worker_thread # NoWorker /\ job[g_worker_thread].pc # "exited"
  /\ ui' = "exited"
  /\ UNCHANGED << rngVars, workerSide, published, destroySide, g_worker_thread,
                  benchmark_cancel_requested, stop_asked >>

DestroyFree ==
  /\ At("destroy_free")
  /\ ShutdownRng(UI)
  /\ ui' = "destroy_delete"
  /\ UNCHANGED << workerSide, published, destroySide, g_worker_thread,
                  benchmark_cancel_requested, stop_asked >>

DestroyDelete ==
  /\ At("destroy_delete")
  /\ ui' = "quit"
  /\ UNCHANGED << rngVars, workerSide, published, destroySide, g_worker_thread,
                  benchmark_cancel_requested, stop_asked >>

(* The UI thread inside a call of the wrapper. *)
UiInCall ==
  /\ InCall(UI)
  /\ UNCHANGED << uiSide, published, job, g_rng_busy, g_rng_busy_lock >>

(* What the UI thread does of its own accord once it has begun. *)
UiStep ==
  \/ ReapDone \/ ReapTimeout
  \/ \E w \in Worker : CreateWorker(w)
  \/ CreateFails
  \/ ClearTimeline
  \/ ConfigureGet \/ ConfigureShutdown \/ ConfigureStore \/ ConfigureApply
  \/ TickStatus \/ TickTake \/ TickBusy \/ TickTimeline \/ TickPost
  \/ WorkerStopped \/ WorkerStuck \/ DestroyFree \/ DestroyDelete
  \/ UiInCall

(* What reaches it from outside. *)
UiEvent ==
  \/ ControllerCreated
  \/ \E kind \in JobKind, n \in 1..MaxChunks : HandleJob(kind, n)
  \/ \E action \in JobKind \cup {"configure"} : HandleInvalid(action)
  \/ \E s \in Settings : HandleConfigure(s)
  \/ HandleCancel \/ HandleClear \/ HandleDestroy

Ended ==
  /\ ui \in {"quit", "exited"}
  /\ UNCHANGED vars

Next ==
  \/ \E w \in Worker : WorkerStep(w)
  \/ UiStep \/ UiEvent \/ TickStart
  \/ Ended

Spec == GuiInit /\ [][Next]_vars

(* Windows schedules every runnable thread.  A worker waiting for rng_lock
   competes only with the moment the telemetry tick holds it, hence strong
   fairness.  The timer fires between messages, however many arrive. *)
FairSpec ==
  /\ Spec
  /\ \A w \in Worker : SF_vars(WorkerStep(w))
  /\ WF_vars(UiStep)
  /\ SF_vars(TickStart)

-----------------------------------------------------------------------------
Active(w) == job[w].pc \in Working

(* The busy flag protects the collector: a worker is only ever between its
   start and its last statement while the flag is set, never two at once, and
   never while the UI thread admits a job or applies settings. *)
OneJobAtATime ==
  \A w \in Worker : Active(w) =>
    /\ g_rng_busy = 1
    /\ \A v \in Worker : Active(v) => v = w
    /\ ui \notin {"reap", "create", "cfg_get", "cfg_shutdown", "cfg_store",
                  "cfg_apply"}

(* The UI thread never has to wait for a worker inside rng_lock (a whole
   collector read, or the self-test): wherever it enters that lock without
   trying, no worker is inside. *)
UiNeverWaitsForCollector ==
  ui \in {"cfg_get", "cfg_shutdown", "cfg_store", "destroy_free"} =>
    rng_lock \notin Worker

(* A worker thread that still runs is the one g_worker_thread names, so the
   next admission and the window's end wait for it: no handle is leaked. *)
NoLeakedWorker ==
  \A w \in Worker : job[w].pc # "none" => g_worker_thread = w

(* The critical sections are deleted after the last thread that uses them. *)
NoUseAfterDelete ==
  ui = "quit" =>
    /\ \A w \in Worker : job[w].pc = "none"
    /\ g_rng_busy_lock = Free /\ rng_lock = Free /\ rng_collector = NoSettings

(* Every frame shows the settings the next collector will be built from,
   though it reads the UI thread's own copy of them. *)
FrameShowsSettings ==
  ui # "cfg_apply" => g_ui_settings = current_settings

(* The session histogram describes one collector configuration: every byte
   in it came from a collector with the settings shown beside it. *)
OneConfigurationInSession ==
  ui # "cfg_apply" => g_session_hist \subseteq {g_ui_settings}

(* A stop asked of a running job is not forgotten while the job runs: a
   Cancel after admission is never erased. *)
StopIsNotForgotten ==
  \A w \in Worker : Active(w) /\ stop_asked => benchmark_cancel_requested = 1

(* Between calls of the wrapper the health panel's initialized flag says
   whether a collector lives, through failures, Clear and configure. *)
InitializedIsHonest ==
  (\A t \in Thread : call[t] = "idle") =>
    initialized = (rng_collector # NoSettings)

(* A timeline whose serialization is still pending has a result on its way
   that will stamp it: being published, in the mailbox or in the frame. *)
PendingTimelineHasResult ==
  LET real == { r \in Results : r.from # "reply" } IN
  g_last_timeline.valid /\ g_last_timeline.pending =>
    \/ \E w \in Worker : job[w].pc = "publish"
    \/ g_pending_worker_result \in real
    \/ ui \in {"tick_busy", "tick_timeline"} /\ frame.result \in real

(* A benchmark that got as far as its own collector leaves none behind. *)
BenchmarkReleasesCollector ==
  \A w \in Worker :
    /\ job[w].kind = "benchmark"
    /\ job[w].pc \in {"publish", "leave", "clear"}
    /\ ret[w] # "alloc_failed"
    => rng_collector = NoSettings

(* Every admitted job gives its slot back, unless the process exits. *)
SlotIsFreed == (g_rng_busy = 1) ~> (g_rng_busy = 0 \/ ui = "exited")

(* A result in the mailbox is delivered by some frame or the process ends. *)
ResultIsTaken ==
  (g_pending_worker_result # NoResult) ~>
    (g_pending_worker_result = NoResult \/ ui \in {"quit", "exited"})

(* Closing the window ends the process, whatever the worker is doing. *)
DestroyEnds == (ui = "destroy_wait") ~> (ui \in {"quit", "exited"})

(* main_gui.cpp:179-182: an unread generated sample is never overwritten. *)
GeneratedSample ==
  [action |-> "generate", status |-> "ok", from |-> "worker"]

UnreadResultSurvives ==
  [][ g_pending_worker_result = GeneratedSample
      => g_pending_worker_result' \in {NoResult, GeneratedSample} ]_vars

(* main_gui.cpp:239-240: the frame that delivers a job's result is the one
   that stamps its serialization. *)
ResultFrameStamps ==
  [][ g_last_timeline.pending /\ ~g_last_timeline'.pending
      => frame.result.from # "reply" ]_vars

-----------------------------------------------------------------------------
(* The host as a job slot. *)
JobStatus == Codes

Owner == CHOOSE w \in Worker : Active(w)
Admitting == ui \in {"reap", "create"}

SlotJob ==
  IF g_rng_busy = 0 THEN NoWorker
  ELSE [ kind |-> IF Admitting THEN request.action ELSE job[Owner].kind,
         stop |-> ui # "reap" /\ benchmark_cancel_requested = 1,
         outcome |-> IF ~Admitting /\ job[Owner].pc \in {"leave", "clear"}
                     THEN ret[Owner] ELSE "none" ]

Slot == INSTANCE JobSlot WITH
  Kind <- JobKind, Status <- JobStatus, NoJob <- NoWorker,
  slot <- SlotJob, settings <- current_settings

(* The host implements the abstract job slot. *)
ImplementsJobSlot == Slot!SlotSpec
=============================================================================
