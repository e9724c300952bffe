----------------------------- MODULE JentTesting -----------------------------
(***************************************************************************)
(* The raw entropy test interface of the kernel module                     *)
(* (jitterentropy_testing.c).  Every time stamp that any Jitter RNG        *)
(* instance takes is offered to one ring buffer; a read() of the debugfs   *)
(* file opens a recording, measures, drains the ring and closes the        *)
(* recording, chunk by chunk.  The other instances (the character device,  *)
(* the hwrng device, the crypto API) store concurrently, and boot_raw_     *)
(* hires_test is a module parameter that root may write at any time.       *)
(***************************************************************************)
EXTENDS Integers, Sequences, FiniteSets

CONSTANTS
  Reader,        \* threads that read() the debugfs file
  Producer,      \* threads that measure for another interface
  Free,          \* nobody: the value of a lock that is not held
  RB_SIZE,       \* JENT_TEST_RINGBUFFER_SIZE
  CHUNK,         \* JENT_TESTING_DATA_SIZE in words
  MaxWords,      \* bound on the words of a request
  MaxStores,     \* bound on the samples stored
  MaxReads,      \* bound on the calls of read()
  MaxSets        \* bound on the writes of the module parameter

ASSUME ActorAssumption ==
  Free \notin Reader \cup Producer /\ Reader \cap Producer = {}
ASSUME RingAssumption ==
  /\ RB_SIZE \in Nat \ {0} /\ CHUNK \in Nat \ {0} /\ CHUNK < RB_SIZE

Actor == Reader \cup Producer

VARIABLES
  rb, rb_reader, rb_writer,  \* struct jent_testing
  enabled,                   \* jent_testing_enabled
  boot,                      \* boot_raw_hires_test
  lock,                      \* the ring's spin lock
  read_lock,                 \* jent_testing_read_lock
  st,                        \* where an actor is in jent_testing_store
  pc, s,                     \* where a reader is, and its locals
  stores,                    \* history: samples stored; a sample is its number
  opened,                    \* history: stores when the last recording opened
  booting, bootread,         \* history: boot phase not over; words read in it
  reads, sets                \* counters of the bounds

ring == << rb, rb_reader, rb_writer, stores >>
modes == << enabled, boot, booting >>
locks == << lock, read_lock >>
ghosts == << opened, bootread, reads, sets >>
vars == << ring, modes, locks, ghosts, st, pc, s >>

(* A request: words and whether a fraction of a word follows, raw if single
   measurements are wanted instead of jent_read_entropy.  left: words still
   to be measured; want: words the drain still has room for; tail: that this
   chunk ends in a fraction; snap: the writer as the drain saw it. *)
NoRequest == [ words |-> 0, fraction |-> FALSE, raw |-> FALSE, left |-> 0,
               want |-> 0, tail |-> FALSE, snap |-> 0, out |-> << >>,
               error |-> FALSE, mixed |-> FALSE ]

Goto(r, from, to) == pc[r] = from /\ pc' = [pc EXCEPT ![r] = to]

HaveData == rb_writer % RB_SIZE # rb_reader % RB_SIZE

-----------------------------------------------------------------------------
(* jent_testing_store: the check without the lock, the body under it, the
   wake-up after it. *)
Wanted == enabled \/ boot = 1

(* Faulty variant: the wrap-around is looked for in the running counters. *)
PushedUnmasked(writer) ==
  IF writer = rb_reader THEN rb_reader + 1 ELSE rb_reader

(* The reader after the writer moved: pushed on if it was caught up with. *)
Pushed(writer) ==
  IF writer % RB_SIZE = rb_reader % RB_SIZE THEN rb_reader + 1 ELSE rb_reader

(* Faulty variant: the boot recording stops one sample too late. *)
BootFullLate == boot # 0 /\ rb_writer > RB_SIZE

BootFull == boot # 0 /\ rb_writer >= RB_SIZE

(* Faulty variant: the sleeping reader is not woken. *)
StoreBodyNoWake(a) ==
  /\ st[a] = "body" /\ lock = Free /\ ~BootFull
  /\ rb' = [rb EXCEPT ![rb_writer % RB_SIZE] = stores + 1]
  /\ stores' = stores + 1
  /\ rb_writer' = rb_writer + 1
  /\ rb_reader' = Pushed(rb_writer')
  /\ st' = [st EXCEPT ![a] = "none"]
  /\ UNCHANGED << modes, locks, ghosts, pc, s >>

StoreBody(a) ==
  /\ st[a] = "body" /\ lock = Free /\ ~BootFull
  /\ rb' = [rb EXCEPT ![rb_writer % RB_SIZE] = stores + 1]
  /\ stores' = stores + 1
  /\ rb_writer' = rb_writer + 1
  /\ rb_reader' = Pushed(rb_writer')
  /\ st' = [st EXCEPT ![a] = "wake"]
  /\ UNCHANGED << modes, locks, ghosts, pc, s >>

StoreFull(a) ==
  /\ st[a] = "body" /\ lock = Free /\ BootFull
  /\ lock' = a
  /\ st' = [st EXCEPT ![a] = "stop"]
  /\ UNCHANGED << ring, modes, ghosts, read_lock, pc, s >>

StoreStop(a) ==
  /\ st[a] = "stop"
  /\ boot' = 2
  /\ lock' = Free
  /\ st' = [st EXCEPT ![a] = "none"]
  /\ UNCHANGED << ring, enabled, booting, ghosts, read_lock, pc, s >>

StoreWake(a) ==
  /\ st[a] = "wake"
  /\ pc' = [r \in Reader |-> IF pc[r] = "sleep" THEN "wait" ELSE pc[r]]
  /\ st' = [st EXCEPT ![a] = "none"]
  /\ UNCHANGED << ring, modes, locks, ghosts, s >>

(* An instance of another interface takes a time stamp that is recorded. *)
Produce(a) ==
  /\ st[a] = "none" /\ Wanted /\ stores < MaxStores
  /\ st' = [st EXCEPT ![a] = "body"]
  /\ UNCHANGED << ring, modes, locks, ghosts, pc, s >>

-----------------------------------------------------------------------------
(* jent_testing_extract_user. *)
Read(r) ==
  /\ reads < MaxReads
  /\ Goto(r, "idle", "lock")
  /\ reads' = reads + 1
  /\ UNCHANGED << ring, modes, locks, opened, bootread, sets, st, s >>

(* The request matters only once the reader has the lock. *)
Requested(r) ==
  \E words \in 0 .. MaxWords, fraction, raw \in BOOLEAN :
    /\ words > 0 \/ fraction
    /\ s' = [s EXCEPT ![r] = [NoRequest EXCEPT !.words = words,
                               !.fraction = fraction, !.raw = raw]]

LockRead(r) ==
  /\ read_lock = Free
  /\ Goto(r, "lock", "alloc")
  /\ read_lock' = r
  /\ Requested(r)
  /\ UNCHANGED << ring, modes, ghosts, lock, st >>

LockInterrupted(r) ==
  /\ read_lock # Free
  /\ Goto(r, "lock", "idle")
  /\ UNCHANGED << ring, modes, locks, ghosts, st, s >>

(* The new collector's start-up, and the measurement that primes a chunk, are
   offered to the ring like any other. *)
Prime(r) ==
  /\ pc[r] \in {"alloc", "init"} /\ st[r] = "none" /\ Wanted /\ stores < MaxStores
  /\ st' = [st EXCEPT ![r] = "body"]
  /\ UNCHANGED << ring, modes, locks, ghosts, pc, s >>

Alloc(r) ==
  /\ st[r] = "none"
  /\ \/ Goto(r, "alloc", "init")
     \/ Goto(r, "alloc", "unlock")
  /\ UNCHANGED << ring, modes, locks, ghosts, st, s >>

(* A signal between the chunks of a large request. *)
SignalBreak(r) ==
  /\ st[r] = "none"
  /\ Goto(r, "init", "unlock")
  /\ UNCHANGED << ring, modes, locks, ghosts, st, s >>

(* Faulty variant: the priming measurement counts as one of the words. *)
NextChunkPrimed(r) ==
  LET words == IF s[r].words > CHUNK THEN CHUNK ELSE s[r].words IN
  /\ st[r] = "none"
  /\ Goto(r, "init", IF boot # 0 THEN "measure" ELSE "open")
  /\ s' = [s EXCEPT ![r].left = IF words > 0 THEN words - 1 ELSE 0,
                    ![r].want = words, ![r].out = << >>,
                    ![r].tail = s[r].fraction /\ s[r].words < CHUNK,
                    ![r].mixed = boot # 0]
  /\ UNCHANGED << ring, modes, locks, ghosts, st >>

(* The next chunk, measured into the boot recording if that is not over. *)
NextChunk(r) ==
  LET words == IF s[r].words > CHUNK THEN CHUNK ELSE s[r].words IN
  /\ st[r] = "none"
  /\ Goto(r, "init", IF boot # 0 THEN "measure" ELSE "open")
  /\ s' = [s EXCEPT ![r].left = words, ![r].want = words, ![r].out = << >>,
                    ![r].tail = s[r].fraction /\ s[r].words < CHUNK,
                    ![r].mixed = boot # 0]
  /\ UNCHANGED << ring, modes, locks, ghosts, st >>

(* Faulty variant: the reset of the last recording's end is relied upon. *)
OpenUnreset(r) ==
  /\ lock = Free
  /\ Goto(r, "open", "enable")
  /\ opened' = stores
  /\ UNCHANGED << ring, modes, locks, bootread, reads, sets, st, s >>

Open(r) ==
  /\ lock = Free
  /\ Goto(r, "open", "enable")
  /\ rb_reader' = 0 /\ rb_writer' = 0
  /\ opened' = stores
  /\ UNCHANGED << rb, stores, modes, locks, bootread, reads, sets, st, s >>

Enable(r) ==
  /\ Goto(r, "enable", "measure")
  /\ enabled' = TRUE
  /\ UNCHANGED << ring, boot, booting, locks, ghosts, st, s >>

(* One time stamp of the session's own collector: at least one for each of the
   words, more as long as they are recorded. *)
Measure(r) ==
  /\ pc[r] = "measure" /\ st[r] = "none"
  /\ s[r].left > 0 \/ Wanted
  /\ Wanted => stores < MaxStores
  /\ s' = [s EXCEPT ![r].left = IF @ > 0 THEN @ - 1 ELSE 0]
  /\ st' = [st EXCEPT ![r] = IF Wanted THEN "body" ELSE "none"]
  /\ UNCHANGED << ring, modes, locks, ghosts, pc >>

Measured(r) ==
  /\ st[r] = "none" /\ s[r].left = 0
  /\ Goto(r, "measure", "read")
  /\ UNCHANGED << ring, modes, locks, ghosts, st, s >>

MeasureFails(r) ==
  /\ st[r] = "none" /\ ~s[r].raw
  /\ Goto(r, "measure", "fini")
  /\ s' = [s EXCEPT ![r].error = TRUE]
  /\ UNCHANGED << ring, modes, locks, ghosts, st >>

-----------------------------------------------------------------------------
(* jent_testing_reader.  The writer is read before the lock is taken. *)
Snapshot(r) ==
  /\ Goto(r, "read", "look")
  /\ s' = [s EXCEPT ![r].snap = rb_writer]
  /\ UNCHANGED << ring, modes, locks, ghosts, st >>

Drained(r) == s[r].snap = 0 \/ s[r].snap = rb_reader

NoData(r) ==
  /\ lock = Free /\ Drained(r)
  /\ Goto(r, "look", "drained")
  /\ s' = [s EXCEPT ![r].snap = 0]
  /\ UNCHANGED << ring, modes, locks, ghosts, st >>

(* The lock is released: the end of the boot recording, or a sleep. *)
EndOrWait(r) ==
  /\ Goto(r, "drained", IF boot # 0 THEN "clear" ELSE "wait")
  /\ UNCHANGED << ring, modes, locks, ghosts, st, s >>

NoRoom(r) ==
  /\ lock = Free /\ ~Drained(r) /\ s[r].want = 0
  /\ Goto(r, "look", "fini")
  /\ s' = [s EXCEPT ![r].snap = 0]
  /\ UNCHANGED << ring, modes, locks, ghosts, st >>

CopyWord(r) ==
  /\ lock = Free /\ ~Drained(r) /\ s[r].want > 0
  /\ Goto(r, "look", IF s[r].want = 1 /\ ~s[r].tail THEN "fini" ELSE "read")
  /\ s' = [s EXCEPT ![r].out = Append(@, rb[rb_reader % RB_SIZE]),
                    ![r].want = @ - 1, ![r].snap = 0]
  /\ rb_reader' = rb_reader + 1
  /\ bootread' = IF booting THEN bootread + 1 ELSE bootread
  /\ UNCHANGED << rb, rb_writer, stores, modes, locks, opened, reads, sets, st >>

(* All boot data was gathered: regular collection from now on. *)
ClearBoot(r) ==
  /\ Goto(r, "clear", "fini")
  /\ boot' = 0 /\ booting' = FALSE
  /\ UNCHANGED << ring, enabled, locks, ghosts, st, s >>

Wait(r) ==
  /\ Goto(r, "wait", IF HaveData THEN "read" ELSE "sleep")
  /\ UNCHANGED << ring, modes, locks, ghosts, st, s >>

Interrupted(r) ==
  /\ \/ Goto(r, "wait", "fini")
     \/ Goto(r, "sleep", "fini")
  /\ s' = [s EXCEPT ![r].error = TRUE]
  /\ UNCHANGED << ring, modes, locks, ghosts, st >>

-----------------------------------------------------------------------------
(* jent_testing_fini and the copy to the caller. *)
Fini(r) ==
  /\ Goto(r, "fini", IF boot # 0 THEN "copy" ELSE "disable")
  /\ UNCHANGED << ring, modes, locks, ghosts, st, s >>

Disable(r) ==
  /\ Goto(r, "disable", "close")
  /\ enabled' = FALSE
  /\ UNCHANGED << ring, boot, booting, locks, ghosts, st, s >>

Close(r) ==
  /\ lock = Free
  /\ Goto(r, "close", "copy")
  /\ rb_reader' = 0 /\ rb_writer' = 0
  /\ UNCHANGED << rb, stores, modes, locks, ghosts, st, s >>

CopyOut(r) ==
  LET got == Len(s[r].out)
      rest == s[r].words - got
      done == s[r].error \/ got = 0 \/ (rest = 0 /\ ~s[r].fraction)
  IN  /\ Goto(r, "copy", IF done THEN "unlock" ELSE "init")
      /\ s' = [s EXCEPT ![r].words = rest, ![r].out = << >>,
                        ![r].want = 0, ![r].left = 0]
      /\ UNCHANGED << ring, modes, locks, ghosts, st >>

CopyFaults(r) ==
  /\ Goto(r, "copy", "unlock")
  /\ UNCHANGED << ring, modes, locks, ghosts, st, s >>

UnlockRead(r) ==
  /\ Goto(r, "unlock", "idle")
  /\ read_lock' = Free
  /\ s' = [s EXCEPT ![r] = NoRequest]
  /\ UNCHANGED << ring, modes, ghosts, lock, st >>

-----------------------------------------------------------------------------
SetBoot(v) ==
  /\ sets < MaxSets
  /\ boot' = v /\ booting' = FALSE
  /\ sets' = sets + 1
  /\ UNCHANGED << ring, enabled, locks, opened, bootread, reads, st, pc, s >>

Store(a) == StoreBody(a) \/ StoreFull(a) \/ StoreStop(a) \/ StoreWake(a)

Session(r) ==
  \/ LockRead(r) \/ LockInterrupted(r) \/ Prime(r) \/ Alloc(r)
  \/ SignalBreak(r) \/ NextChunk(r) \/ Open(r) \/ Enable(r)
  \/ Measure(r) \/ Measured(r) \/ MeasureFails(r)
  \/ Snapshot(r) \/ NoData(r) \/ EndOrWait(r) \/ NoRoom(r) \/ CopyWord(r)
  \/ ClearBoot(r)
  \/ Wait(r) \/ Interrupted(r)
  \/ Fini(r) \/ Disable(r) \/ Close(r)
  \/ CopyOut(r) \/ CopyFaults(r) \/ UnlockRead(r)

Next ==
  \/ \E a \in Actor : Store(a)
  \/ \E a \in Producer : Produce(a)
  \/ \E r \in Reader : Read(r) \/ Session(r)
  \/ \E v \in 0 .. 1 : SetBoot(v)

Init ==
  /\ rb = [i \in 0 .. RB_SIZE - 1 |-> 0]
  /\ rb_reader = 0 /\ rb_writer = 0
  /\ enabled = FALSE
  /\ boot \in 0 .. 1 /\ booting = (boot = 1)
  /\ lock = Free /\ read_lock = Free
  /\ st = [a \in Actor |-> "none"]
  /\ pc = [r \in Reader |-> "idle"]
  /\ s = [r \in Reader |-> NoRequest]
  /\ stores = 0 /\ opened = 0 /\ bootread = 0 /\ reads = 0 /\ sets = 0

Spec == Init /\ [][Next]_vars

(* A thread inside jent_testing_store runs on; nothing obliges a reader to
   read, a signal to come or another instance to measure. *)
FairSpec == Spec /\ \A a \in Actor : WF_vars(Store(a))

-----------------------------------------------------------------------------
(* The unread part of the ring never reaches the ring's size, and what lies
   in it are the samples stored last, in their order, whatever was pushed
   out and however many threads store. *)
UnreadAreNewest ==
  LET n == rb_writer - rb_reader IN
  /\ n \in 0 .. RB_SIZE - 1
  /\ \A i \in 1 .. n : rb[(rb_writer - i) % RB_SIZE] = stores - i + 1

(* jitterentropy_testing.c:19-25 and 354-360: a runtime recording delivers
   samples that were stored after it was opened, in their order and none
   twice, although stores that began under an earlier recording may end now. *)
RecordingIsFresh ==
  \A r \in Reader :
    LET out == s[r].out IN
    /\ \A i \in 1 .. Len(out) - 1 : out[i] < out[i + 1]
    /\ ~s[r].mixed /\ pc[r] \in {"read", "look", "drained", "wait", "sleep"}
         => \A i \in 1 .. Len(out) : out[i] > opened

(* A read of whole words into a recording of its own lives on the samples of
   its own collector: it does not sleep, also if the module parameter is
   written while it measures or drains.  A fractional request does sleep: it
   needs a sample that only another instance, or nobody, stores. *)
OwnSamplesSuffice ==
  \A r \in Reader : pc[r] = "sleep" => s[r].tail \/ s[r].mixed

(* jitterentropy_testing.c:127-136: the boot recording keeps the first
   samples: it stops in time, no slot is written twice, and at most the very
   first sample is pushed past before somebody reads. *)
BootKeepsEarliest ==
  booting =>
    /\ stores <= RB_SIZE
    /\ \A i \in 1 .. stores : rb[i - 1] = i
    /\ rb_reader <= bootread + 1

(* No wake-up is lost: a reader does not sleep on beside a sample. *)
SleeperIsWoken ==
  \A r \in Reader : (pc[r] = "sleep" /\ HaveData) ~> pc[r] # "sleep"
=============================================================================
