------------------------------ MODULE RngWrapper ------------------------------
(***************************************************************************)
(* The single process-wide entropy collector of app/rng_wrapper.c and the  *)
(* lock that guards it.  A thread that runs init_rng() or                  *)
(* get_random_bytes() keeps rng_lock for the whole call, which spans       *)
(* several steps of the vendored library, so those calls are split into    *)
(* the steps another thread can observe.  Calls that do a bounded amount   *)
(* of work under the lock are one step.                                    *)
(*                                                                         *)
(* Library functions (jent_...) are the steps EntropyInit, CollectorAlloc  *)
(* and ReadEntropySafe; they may take any outcome their API allows.        *)
(***************************************************************************)
EXTENDS Naturals

CONSTANTS
  Thread,          \* threads that may call the wrapper
  Settings,        \* values of rng_settings
  DefaultSettings, \* what rng_settings_defaults() stores
  FipsSettings,    \* settings with force_fips or ntg1
  NoSettings,      \* a NULL rng_settings pointer, and "no collector"
  Free             \* the owner of an unlocked critical section

ASSUME SettingsAssumption ==
  /\ DefaultSettings \in Settings
  /\ FipsSettings \subseteq Settings
  /\ NoSettings \notin Settings

ASSUME FreeAssumption == Free \notin Thread

VARIABLES
  rng_collector,              \* settings the live collector was built from
  current_settings,
  entropy_self_test_complete,
  rng_lock,                   \* owner of the critical section
  initialized,                \* health monitor: current_stats.initialized
  cb_switch_blocked,          \* library: jent_health_cb_switch_blocked
  fips_cb,                    \* library: a FIPS failure callback is stored
  tested,                     \* history: settings of the last passed self-test
  call,                       \* where each thread is inside the wrapper
  flags,                      \* init_rng's local copy of the settings
  ret                         \* each thread's last return code

rngExceptRet == << rng_collector, current_settings, entropy_self_test_complete,
                   rng_lock, initialized, cb_switch_blocked, fips_cb, tested,
                   call, flags >>

rngVars == << rngExceptRet, ret >>

-----------------------------------------------------------------------------
(* Error codes of rng_wrapper.h; the GUI adds its own. *)
InitErrors == { "self_test_failed", "alloc_failed" }
ReadErrors == { "generation_failed", "short_read" }
RngCodes   == {"ok", "not_initialized", "already_running"}
                 \cup InitErrors \cup ReadErrors

(* Calls that hold rng_lock while they run ... *)
LockedCalls == { "self_test", "alloc", "read", "status" }
(* ... and the tails get_random_bytes and shutdown_rng run after it. *)
Calls == { "idle", "record", "unset" } \cup LockedCalls

RngInit ==
  /\ rng_collector = NoSettings
  /\ current_settings = DefaultSettings
  /\ entropy_self_test_complete = FALSE
  /\ rng_lock = Free
  /\ initialized = FALSE
  /\ cb_switch_blocked = FALSE
  /\ fips_cb = FALSE
  /\ tested = NoSettings
  /\ call = [t \in Thread |-> "idle"]
  /\ flags = [t \in Thread |-> NoSettings]
  /\ ret = [t \in Thread |-> "ok"]

(* EnterCriticalSection(&rng_lock) at the head of a call of thread t. *)
CanEnter(t) == call[t] = "idle" /\ rng_lock = Free

(* Thread t leaves rng_lock and goes on at c with return code r. *)
Leave(t, c, r) ==
  /\ rng_lock' = Free
  /\ call' = [call EXCEPT ![t] = c]
  /\ ret' = [ret EXCEPT ![t] = r]

-----------------------------------------------------------------------------
(* init_rng: nothing to do for a live collector, else the self-test (unless
   it passed already) and the allocation, with the settings read here. *)
InitRng(t) ==
  /\ CanEnter(t)
  /\ IF rng_collector # NoSettings
     THEN /\ ret' = [ret EXCEPT ![t] = "ok"]
          /\ UNCHANGED << rng_lock, call, flags >>
     ELSE /\ rng_lock' = t
          /\ flags' = [flags EXCEPT ![t] = current_settings]
          /\ call' = [call EXCEPT ![t] = IF entropy_self_test_complete
                                         THEN "alloc" ELSE "self_test"]
          /\ UNCHANGED ret
  /\ UNCHANGED << rng_collector, current_settings, entropy_self_test_complete,
                  initialized, cb_switch_blocked, fips_cb, tested >>

(* jent_entropy_init_ex blocks the callback switch before anything else. *)
SelfTestPasses(t) ==
  /\ call[t] = "self_test"
  /\ cb_switch_blocked' = TRUE
  /\ entropy_self_test_complete' = TRUE
  /\ tested' = flags[t]
  /\ call' = [call EXCEPT ![t] = "alloc"]
  /\ UNCHANGED << rng_collector, current_settings, rng_lock, initialized,
                  fips_cb, flags, ret >>

SelfTestFails(t) ==
  /\ call[t] = "self_test"
  /\ cb_switch_blocked' = TRUE
  /\ initialized' = FALSE
  /\ Leave(t, "idle", "self_test_failed")
  /\ flags' = [flags EXCEPT ![t] = NoSettings]
  /\ UNCHANGED << rng_collector, current_settings, entropy_self_test_complete,
                  fips_cb, tested >>

EntropyInit(t) == SelfTestPasses(t) \/ SelfTestFails(t)

(* jent_set_fips_failure_callback: refused once the switch is blocked. *)
SetFipsFailureCallback ==
  fips_cb' = (fips_cb \/ ~cb_switch_blocked)

(* The callback is set on every init, its result ignored; then the
   collector is allocated. *)
CollectorAlloc(t) ==
  /\ call[t] = "alloc"
  /\ SetFipsFailureCallback
  /\ \/ /\ rng_collector' = flags[t]
        /\ initialized' = TRUE
        /\ Leave(t, "idle", "ok")
     \/ /\ initialized' = FALSE
        /\ Leave(t, "idle", "alloc_failed")
        /\ UNCHANGED rng_collector
  /\ flags' = [flags EXCEPT ![t] = NoSettings]
  /\ UNCHANGED << current_settings, entropy_self_test_complete,
                  cb_switch_blocked, tested >>

-----------------------------------------------------------------------------
(* get_random_bytes, up to the first read: without a collector the lock is
   left at once and the failed attempt recorded after it. *)
GetRandomBytes(t) ==
  /\ CanEnter(t)
  /\ IF rng_collector = NoSettings
     THEN /\ call' = [call EXCEPT ![t] = "record"]
          /\ ret' = [ret EXCEPT ![t] = "not_initialized"]
          /\ UNCHANGED rng_lock
     ELSE /\ rng_lock' = t
          /\ call' = [call EXCEPT ![t] = "read"]
          /\ UNCHANGED ret
  /\ UNCHANGED << rng_collector, current_settings, entropy_self_test_complete,
                  initialized, cb_switch_blocked, fips_cb, tested, flags >>

(* The loop of jent_read_entropy_safe calls.  A reset inside the library
   raises the collector's rate and memory; rng_collector keeps naming the
   settings the replaced collector descends from. *)
ReadEntropySafe(t) ==
  /\ call[t] = "read"
  /\ \E r \in {"ok"} \cup ReadErrors : Leave(t, "record", r)
  /\ UNCHANGED << rng_collector, current_settings, entropy_self_test_complete,
                  initialized, cb_switch_blocked, fips_cb, tested, flags >>

(* health_monitor_record_generation_attempt, after the lock was left. *)
RecordAttempt(t) ==
  /\ call[t] = "record"
  /\ call' = [call EXCEPT ![t] = "idle"]
  /\ UNCHANGED << rng_collector, current_settings, entropy_self_test_complete,
                  rng_lock, initialized, cb_switch_blocked, fips_cb, tested,
                  flags, ret >>

-----------------------------------------------------------------------------
(* shutdown_rng: free under the lock, clear the health flag after it. *)
ShutdownRng(t) ==
  /\ CanEnter(t)
  /\ rng_collector' = NoSettings
  /\ call' = [call EXCEPT ![t] = "unset"]
  /\ UNCHANGED << current_settings, entropy_self_test_complete, rng_lock,
                  initialized, cb_switch_blocked, fips_cb, tested, flags, ret >>

ClearInitialized(t) ==
  /\ call[t] = "unset"
  /\ initialized' = FALSE
  /\ call' = [call EXCEPT ![t] = "idle"]
  /\ UNCHANGED << rng_collector, current_settings, entropy_self_test_complete,
                  rng_lock, cb_switch_blocked, fips_cb, tested, flags, ret >>

(* Faulty variants of rng_configure: no check for a live collector; the old
   self-test kept. *)
RngConfigureUnguarded(t, s) ==
  /\ CanEnter(t) /\ s \in Settings
  /\ current_settings' = s
  /\ entropy_self_test_complete' = FALSE
  /\ ret' = [ret EXCEPT ![t] = "ok"]
  /\ UNCHANGED << rng_collector, rng_lock, initialized, cb_switch_blocked,
                  fips_cb, tested, call, flags >>

RngConfigureKeepsTest(t, s) ==
  /\ CanEnter(t) /\ s \in Settings
  /\ rng_collector = NoSettings
  /\ current_settings' = s
  /\ ret' = [ret EXCEPT ![t] = "ok"]
  /\ UNCHANGED << rng_collector, entropy_self_test_complete, rng_lock,
                  initialized, cb_switch_blocked, fips_cb, tested, call, flags >>

(* rng_configure(s), s possibly NULL: refused while a collector lives, and
   otherwise the earlier self-test no longer counts. *)
RngConfigure(t, s) ==
  /\ CanEnter(t)
  /\ IF rng_collector # NoSettings
     THEN /\ ret' = [ret EXCEPT ![t] = "already_running"]
          /\ UNCHANGED << current_settings, entropy_self_test_complete >>
     ELSE /\ ret' = [ret EXCEPT ![t] = "ok"]
          /\ current_settings' = IF s = NoSettings THEN DefaultSettings ELSE s
          /\ entropy_self_test_complete' = FALSE
  /\ UNCHANGED << rng_collector, rng_lock, initialized, cb_switch_blocked,
                  fips_cb, tested, call, flags >>

(* Faulty variant: jent_status without the lock. *)
StatusBeginUnlocked(t) ==
  /\ call[t] = "idle" /\ rng_collector # NoSettings
  /\ call' = [call EXCEPT ![t] = "status"]
  /\ UNCHANGED << rng_collector, current_settings, entropy_self_test_complete,
                  rng_lock, initialized, cb_switch_blocked, fips_cb, tested,
                  flags, ret >>

(* rng_get_status_json: TryEnterCriticalSection succeeded on a live
   collector, and jent_status reads it until the lock is left. *)
StatusBegin(t) ==
  /\ CanEnter(t)
  /\ rng_collector # NoSettings
  /\ rng_lock' = t
  /\ call' = [call EXCEPT ![t] = "status"]
  /\ UNCHANGED << rng_collector, current_settings, entropy_self_test_complete,
                  initialized, cb_switch_blocked, fips_cb, tested, flags, ret >>

StatusEnd(t) ==
  /\ call[t] = "status"
  /\ Leave(t, "idle", ret[t])
  /\ UNCHANGED << rng_collector, current_settings, entropy_self_test_complete,
                  initialized, cb_switch_blocked, fips_cb, tested, flags >>

-----------------------------------------------------------------------------
(* The part of a call after its head. *)
InCall(t) ==
  \/ EntropyInit(t)
  \/ CollectorAlloc(t)
  \/ ReadEntropySafe(t)
  \/ RecordAttempt(t)
  \/ ClearInitialized(t)
  \/ StatusEnd(t)

RngNext ==
  \E t \in Thread :
    \/ InCall(t)
    \/ InitRng(t)
    \/ GetRandomBytes(t)
    \/ ShutdownRng(t)
    \/ StatusBegin(t)
    \/ \E s \in Settings \cup {NoSettings} : RngConfigure(t, s)

RngSpec == RngInit /\ [][RngNext]_rngVars

-----------------------------------------------------------------------------
(* Types of the wrapper's state; the settings in force are always settings,
   also after rng_configure(NULL). *)
RngStateOK ==
  /\ rng_collector \in Settings \cup {NoSettings}
  /\ current_settings \in Settings
  /\ entropy_self_test_complete \in BOOLEAN
  /\ rng_lock \in Thread \cup {Free}
  /\ initialized \in BOOLEAN
  /\ cb_switch_blocked \in BOOLEAN
  /\ fips_cb \in BOOLEAN
  /\ tested \in Settings \cup {NoSettings}
  /\ call \in [Thread -> Calls]
  /\ flags \in [Thread -> Settings \cup {NoSettings}]

RngTypeOK == RngStateOK /\ ret \in [Thread -> RngCodes]

(* A thread whose call dereferences the collector owns rng_lock, so no two
   threads (a worker in a read that may reallocate it, and the telemetry
   tick in jent_status) ever use it at once. *)
CollectorExclusive ==
  \A t \in Thread : call[t] \in LockedCalls => rng_lock = t

(* A live collector was built from the settings in force: rng_configure
   cannot slip a change between init_rng reading them and its allocation,
   nor under a collector that is already running. *)
CollectorMatchesSettings ==
  rng_collector # NoSettings => rng_collector = current_settings

(* A collector only lives under settings whose own startup self-test passed:
   an earlier self-test under other settings is never reused for it. *)
CollectorWasSelfTested ==
  rng_collector # NoSettings => tested = rng_collector

(* rng_wrapper.c:112-118 says that a health failure of a collector in
   FIPS/NTG.1 mode reaches fips_failure_handler; it can only if the library
   accepted the handler before that collector was built. *)
FipsHandlerInstalled ==
  rng_collector \in FipsSettings => fips_cb
=============================================================================
