-------------------------- MODULE JentTestingProofs --------------------------
(***************************************************************************)
(* Proofs about JentTesting, for any number of readers and of storing      *)
(* threads and any ring longer than a chunk: the ring's arithmetic, then   *)
(* what a store and a session do, then one lemma for each action and part  *)
(* of the invariant.  A drain uses a writer position that others have      *)
(* moved on; the invariant says, for each place of a reader, what of it is *)
(* still true.                                                             *)
(***************************************************************************)
EXTENDS JentTesting, SequenceTheorems, TLAPS

(* Where a reader can be; Draining while it empties the ring into its chunk,
   Recording while the recording is its own, Chunk while a chunk is under way. *)
Places ==
  { "idle", "lock", "alloc", "init", "open", "enable", "measure", "read",
    "look", "drained", "wait", "sleep", "clear", "fini", "disable", "close",
    "copy", "unlock" }

Draining  == { "read", "look", "drained", "wait", "sleep" }
Recording == { "enable", "measure" } \cup Draining
Chunk     == { "open" } \cup Recording

(* What is known of a request by itself. *)
Request ==
  [ words : Nat, fraction : BOOLEAN, raw : BOOLEAN, left : Nat,
    want : 0 .. CHUNK, tail : BOOLEAN, snap : Nat, out : Seq(Nat),
    error : BOOLEAN, mixed : BOOLEAN ]

TypeOK ==
  /\ rb \in [0 .. RB_SIZE - 1 -> Nat]
  /\ rb_reader \in Nat /\ rb_writer \in Nat
  /\ enabled \in BOOLEAN /\ booting \in BOOLEAN /\ boot \in 0 .. 2
  /\ read_lock \in Reader \cup {Free}
  /\ st \in [Actor -> { "none", "body", "stop", "wake" }]
  /\ pc \in [Reader -> Places]
  /\ s \in [Reader -> Request]
  /\ stores \in Nat /\ opened \in Nat /\ bootread \in Nat

(* One reader at a time is past the read lock. *)
OneSession == \A r \in Reader : pc[r] \notin { "idle", "lock" } => read_lock = r

Unread == rb_writer - rb_reader

(* If the reader index overtook the writer a drain saw, the ring is full. *)
LookIsSafe(r) ==
  pc[r] = "look" =>
    /\ s[r].snap <= rb_writer
    /\ rb_reader > s[r].snap => Unread = RB_SIZE - 1

(* What a drain has taken precedes what is left. *)
Ascending(out) == \A i \in 1 .. Len(out) - 1 : out[i] < out[i + 1]

TakenIsOlder(r) ==
  /\ pc[r] \in { "open", "enable", "measure" } => s[r].out = << >>
  /\ Ascending(s[r].out)
  /\ pc[r] \in Draining =>
       \A i \in 1 .. Len(s[r].out) : s[r].out[i] <= stores - Unread

(* A recording begins with its opening. *)
TakenIsFresh(r) ==
  ~s[r].mixed /\ pc[r] \in Recording =>
    /\ rb_writer = stores - opened
    /\ \A i \in 1 .. Len(s[r].out) : s[r].out[i] > opened

(* The words of a chunk that is being gathered. *)
WordsFit(r) ==
  /\ Len(s[r].out) + s[r].want <= s[r].words
  /\ pc[r] \in { "alloc", "init" } => s[r].words > 0 \/ s[r].fraction
  /\ pc[r] \in Chunk => s[r].want > 0 \/ s[r].tail

(* What is in the ring or will be put there by the session is enough. *)
Coming(r) == s[r].left + IF st[r] = "body" THEN 1 ELSE 0

EnoughComes(r) ==
  ~s[r].mixed =>
    /\ pc[r] \in { "open", "enable" } => s[r].left >= s[r].want
    /\ pc[r] = "measure" => enabled
    /\ pc[r] \in { "enable", "measure" } =>
         rb_reader = 0 \/ Unread = RB_SIZE - 1
    /\ pc[r] = "measure" =>
         Unread = RB_SIZE - 1 \/ Unread + Coming(r) >= s[r].want
    /\ pc[r] \in Draining => Unread >= s[r].want

NoSleep(r) == pc[r] = "sleep" => s[r].tail \/ s[r].mixed

ReaderInv(r) ==
  /\ LookIsSafe(r) /\ TakenIsOlder(r) /\ TakenIsFresh(r) /\ WordsFit(r)
  /\ EnoughComes(r) /\ NoSleep(r)

BootPhase ==
  booting =>
    /\ boot # 0 /\ rb_writer = stores
    /\ \A r \in Reader : pc[r] \notin { "open", "enable", "disable", "close" }

Inv ==
  /\ TypeOK /\ OneSession /\ UnreadAreNewest
  /\ \A r \in Reader : ReaderInv(r)
  /\ BootPhase /\ BootKeepsEarliest

-----------------------------------------------------------------------------
(* Remainders. *)
LEMMA SlotRange == ASSUME NEW x \in Nat PROVE x % RB_SIZE \in 0 .. RB_SIZE - 1
BY RingAssumption, Z3

LEMMA SlotQuotient ==
  ASSUME NEW a \in Nat
  PROVE  /\ a \div RB_SIZE \in Int
         /\ a % RB_SIZE = a - RB_SIZE * (a \div RB_SIZE)
<1>1. \A n \in Nat \ {0} : \A x \in Nat :
        x \div n \in Int /\ x % n = x - n * (x \div n)
  BY Z3
<1>2. QED
  BY <1>1, RingAssumption

LEMMA SlotUnique ==
  ASSUME NEW a \in Nat, NEW q \in Int, NEW m \in 0 .. RB_SIZE - 1,
         a = RB_SIZE * q + m
  PROVE  a % RB_SIZE = m
BY RingAssumption, Z3

LEMMA SlotsDiffer ==
  ASSUME NEW a \in Nat, NEW b \in Nat, a < b, b - a < RB_SIZE
  PROVE  a % RB_SIZE # b % RB_SIZE
<1> DEFINE p == a \div RB_SIZE
           q == b \div RB_SIZE
<1>1. /\ RB_SIZE \in Nat /\ p \in Int /\ q \in Int
      /\ a % RB_SIZE = a - RB_SIZE * p
      /\ b % RB_SIZE = b - RB_SIZE * q
  BY SlotQuotient, RingAssumption
<1> HIDE DEF p, q
<1>2. RB_SIZE * q - RB_SIZE * p = RB_SIZE * (q - p)
  BY <1>1, Z3
<1>3. q - p <= 0 => RB_SIZE * (q - p) <= 0
  BY <1>1, Z3
<1>4. q - p >= 1 => RB_SIZE * (q - p) >= RB_SIZE
  BY <1>1, Z3
<1>5. ASSUME a % RB_SIZE = b % RB_SIZE PROVE FALSE
  <2>1. RB_SIZE * p \in Int /\ RB_SIZE * q \in Int
    BY <1>1
  <2>2. b - a = RB_SIZE * (q - p)
    BY <1>1, <1>2, <1>5, <2>1
  <2>3. QED
    BY <1>1, <1>3, <1>4, <2>2
<1>6. QED
  BY <1>5

LEMMA SlotsMeet ==
  ASSUME NEW a \in Nat PROVE (a + RB_SIZE) % RB_SIZE = a % RB_SIZE
<1> DEFINE p == a \div RB_SIZE
           m == a % RB_SIZE
<1>1. /\ RB_SIZE \in Nat /\ p \in Int /\ m \in 0 .. RB_SIZE - 1
      /\ m = a - RB_SIZE * p
  BY SlotQuotient, SlotRange, RingAssumption
<1> HIDE DEF p, m
<1>2. RB_SIZE * (p + 1) = RB_SIZE * p + RB_SIZE
  BY <1>1, Z3
<1>3. RB_SIZE * p \in Int
  BY <1>1
<1>4. a + RB_SIZE = RB_SIZE * (p + 1) + m
  BY <1>1, <1>2, <1>3
<1>5. a + RB_SIZE \in Nat /\ p + 1 \in Int
  BY <1>1
<1>6. (a + RB_SIZE) % RB_SIZE = m
  BY <1>1, <1>4, <1>5, SlotUnique
<1>7. QED
  BY <1>6 DEF m

LEMMA SlotOfSmall ==
  ASSUME NEW a \in Nat, a < RB_SIZE PROVE a % RB_SIZE = a
BY RingAssumption, Z3

-----------------------------------------------------------------------------
-----------------------------------------------------------------------------
(* Requests.  What an action leaves of a request, field by field. *)
LEMMA NoRequestTyped == NoRequest \in Request
<1>1. 0 \in Nat /\ 0 \in 0 .. CHUNK /\ << >> \in Seq(Nat) /\ FALSE \in BOOLEAN
  BY RingAssumption
<1>2. QED
  BY <1>1, Zenon DEF NoRequest, Request

LEMMA RequestedFields ==
  ASSUME TypeOK, NEW r \in Reader, Requested(r)
  PROVE  /\ s' \in [Reader -> Request]
         /\ \A q \in Reader \ {r} : s'[q] = s[q]
         /\ s'[r].words > 0 \/ s'[r].fraction
         /\ s'[r].out = << >> /\ s'[r].want = 0 /\ s'[r].left = 0
         /\ ~s'[r].mixed
<1>1. PICK words \in 0 .. MaxWords, fraction \in BOOLEAN, raw \in BOOLEAN :
        /\ words > 0 \/ fraction
        /\ s' = [s EXCEPT ![r] = [NoRequest EXCEPT !.words = words,
                               !.fraction = fraction, !.raw = raw]]
  BY Zenon DEF Requested
<1> DEFINE q == [NoRequest EXCEPT !.words = words, !.fraction = fraction,
                                  !.raw = raw]
<1>2. words \in Nat
  OBVIOUS
<1>3. q \in Request
  BY <1>2, NoRequestTyped DEF Request
<1>4. /\ q.words = words /\ q.fraction = fraction /\ q.out = << >>
      /\ q.want = 0 /\ q.left = 0 /\ q.mixed = FALSE
  BY Zenon DEF NoRequest
<1>5. s' = [s EXCEPT ![r] = q]
  BY <1>1
<1>6. s \in [Reader -> Request]
  BY DEF TypeOK
<1> HIDE DEF q
<1>7. s'[r] = q /\ s' \in [Reader -> Request] /\ \A p \in Reader \ {r} : s'[p] = s[p]
  BY <1>3, <1>5, <1>6
<1>8. QED
  BY <1>1, <1>4, <1>7

(* The words of the next chunk. *)
ChunkOf(r) == IF s[r].words > CHUNK THEN CHUNK ELSE s[r].words

LEMMA ChunkFields ==
  ASSUME TypeOK, NEW r \in Reader, NextChunk(r)
  PROVE  /\ s' \in [Reader -> Request]
         /\ \A q \in Reader \ {r} : s'[q] = s[q]
         /\ s'[r].words = s[r].words /\ s'[r].out = << >>
         /\ s'[r].want = ChunkOf(r) /\ s'[r].left = ChunkOf(r)
         /\ s'[r].tail <=> s[r].fraction /\ s[r].words < CHUNK
         /\ s'[r].mixed <=> boot # 0
<1>1. s[r] \in Request /\ s \in [Reader -> Request]
  BY DEF TypeOK
<1>2. ChunkOf(r) \in Nat /\ ChunkOf(r) \in 0 .. CHUNK
  BY <1>1, RingAssumption DEF ChunkOf, Request
<1>3. PICK tail \in BOOLEAN : tail = (s[r].fraction /\ s[r].words < CHUNK)
  OBVIOUS
<1>4. PICK mixed \in BOOLEAN : mixed = (boot # 0)
  OBVIOUS
<1> DEFINE q == [s[r] EXCEPT !.left = ChunkOf(r), !.want = ChunkOf(r),
                             !.out = << >>, !.tail = tail, !.mixed = mixed]
<1>5. s' = [s EXCEPT ![r].left = ChunkOf(r), ![r].want = ChunkOf(r),
                     ![r].out = << >>,
                     ![r].tail = s[r].fraction /\ s[r].words < CHUNK,
                     ![r].mixed = boot # 0]
  BY Zenon DEF NextChunk, ChunkOf
<1>6. s' = [s EXCEPT ![r] = q]
  BY <1>1, <1>3, <1>4, <1>5, Zenon
<1>7. << >> \in Seq(Nat)
  OBVIOUS
<1>8. q \in Request
  BY <1>1, <1>2, <1>7 DEF Request
<1>9. /\ q.words = s[r].words /\ q.out = << >>
      /\ q.want = ChunkOf(r) /\ q.left = ChunkOf(r) /\ q.tail = tail
      /\ q.mixed = mixed
  BY <1>1 DEF Request
<1> HIDE DEF q
<1>10. s'[r] = q /\ s' \in [Reader -> Request] /\ \A p \in Reader \ {r} : s'[p] = s[p]
  BY <1>1, <1>6, <1>8
<1>11. QED
  BY <1>3, <1>4, <1>9, <1>10

LEMMA MeasureFields ==
  ASSUME TypeOK, NEW r \in Reader, Measure(r)
  PROVE  /\ s' \in [Reader -> Request]
         /\ \A q \in Reader \ {r} : s'[q] = s[q]
         /\ \E left \in Nat :
              /\ left = IF s[r].left > 0 THEN s[r].left - 1 ELSE 0
              /\ s'[r] = [s[r] EXCEPT !.left = left]
<1>1. s[r] \in Request /\ s \in [Reader -> Request]
  BY DEF TypeOK
<1>2. PICK left \in Nat : left = IF s[r].left > 0 THEN s[r].left - 1 ELSE 0
  BY <1>1 DEF Request
<1>3. s' = [s EXCEPT ![r].left = IF s[r].left > 0 THEN s[r].left - 1 ELSE 0]
  BY Zenon DEF Measure
<1>4. s' = [s EXCEPT ![r].left = left]
  BY <1>2, <1>3, Zenon
<1>5. QED
  BY <1>1, <1>2, <1>4 DEF Request

LEMMA CopyOutFields ==
  ASSUME TypeOK, NEW r \in Reader, CopyOut(r), WordsFit(r)
  PROVE  /\ s' \in [Reader -> Request]
         /\ \A q \in Reader \ {r} : s'[q] = s[q]
         /\ s'[r].words = s[r].words - Len(s[r].out)
         /\ s'[r].fraction = s[r].fraction /\ s'[r].mixed = s[r].mixed
         /\ s'[r].out = << >> /\ s'[r].want = 0
<1>1. s[r] \in Request /\ s \in [Reader -> Request]
  BY DEF TypeOK
<1>2. PICK rest \in Nat : rest = s[r].words - Len(s[r].out)
  BY <1>1 DEF Request, WordsFit
<1>3. s' = [s EXCEPT ![r].words = s[r].words - Len(s[r].out), ![r].out = << >>,
                     ![r].want = 0, ![r].left = 0]
  BY Zenon DEF CopyOut
<1>4. s' = [s EXCEPT ![r].words = rest, ![r].out = << >>,
                     ![r].want = 0, ![r].left = 0]
  BY <1>2, <1>3, Zenon
<1>5. << >> \in Seq(Nat) /\ 0 \in Nat /\ 0 \in 0 .. CHUNK
  BY RingAssumption
<1>6. QED
  BY <1>1, <1>2, <1>4, <1>5 DEF Request

LEMMA CopyWordFields ==
  ASSUME TypeOK, NEW r \in Reader, CopyWord(r)
  PROVE  /\ s' \in [Reader -> Request]
         /\ \A q \in Reader \ {r} : s'[q] = s[q]
         /\ s'[r].words = s[r].words /\ s'[r].tail = s[r].tail
         /\ s'[r].mixed = s[r].mixed
         /\ s'[r].out = Append(s[r].out, rb[rb_reader % RB_SIZE])
         /\ s'[r].want = s[r].want - 1
<1>1. s[r] \in Request /\ s \in [Reader -> Request]
  BY DEF TypeOK
<1>2. PICK want \in 0 .. CHUNK : want = s[r].want - 1
  BY <1>1 DEF Request, CopyWord
<1>3. rb[rb_reader % RB_SIZE] \in Nat
  BY SlotRange DEF TypeOK
<1>4. PICK out \in Seq(Nat) : out = Append(s[r].out, rb[rb_reader % RB_SIZE])
  <2>1. s[r].out \in Seq(Nat)
    BY <1>1 DEF Request
  <2>2. Append(s[r].out, rb[rb_reader % RB_SIZE]) \in Seq(Nat)
    BY <1>3, <2>1
  <2>3. QED
    BY <2>2, Zenon
<1>5. s' = [s EXCEPT ![r].out = Append(s[r].out, rb[rb_reader % RB_SIZE]),
                    ![r].want = s[r].want - 1, ![r].snap = 0]
  BY Zenon DEF CopyWord
<1>6. s' = [s EXCEPT ![r].out = out, ![r].want = want, ![r].snap = 0]
  BY <1>2, <1>4, <1>5, Zenon
<1>7. QED
  BY <1>1, <1>2, <1>4, <1>6 DEF Request

-----------------------------------------------------------------------------
(* Types. *)
LEMMA InitTypes == Init => TypeOK
<1>1. SUFFICES ASSUME Init PROVE TypeOK
  OBVIOUS
<1>2. enabled \in BOOLEAN /\ booting \in BOOLEAN
  BY <1>1, Zenon DEF Init
<1>3. boot \in 0 .. 2
  BY <1>1 DEF Init
<1>4. QED
  BY <1>1, <1>2, <1>3, RingAssumption, NoRequestTyped DEF Init, TypeOK, Places

LEMMA StoreTypes ==
  ASSUME TypeOK, NEW a \in Actor, Store(a)
  PROVE  TypeOK'
<1> USE DEF TypeOK, ring, modes, locks, ghosts
<1>1. CASE StoreBody(a)
  <2>1. rb_writer % RB_SIZE \in 0 .. RB_SIZE - 1
    BY SlotRange
  <2>2. rb_reader' \in Nat
    BY <1>1 DEF StoreBody, Pushed
  <2>3. QED
    BY <1>1, <2>1, <2>2 DEF StoreBody
<1>2. CASE StoreFull(a)
  BY <1>2 DEF StoreFull
<1>3. CASE StoreStop(a)
  BY <1>3 DEF StoreStop
<1>4. CASE StoreWake(a)
  BY <1>4 DEF StoreWake, Places
<1>5. QED
  BY <1>1, <1>2, <1>3, <1>4 DEF Store

LEMMA SnapChanged ==
  ASSUME TypeOK, NEW r \in Reader, NEW n \in Nat, s' = [s EXCEPT ![r].snap = n]
  PROVE  s' \in [Reader -> Request] /\ \A q \in Reader \ {r} : s'[q] = s[q]
<1>1. s \in [Reader -> Request] /\ s[r] \in Request
  BY DEF TypeOK
<1>2. [s[r] EXCEPT !.snap = n] \in Request
  BY <1>1 DEF Request
<1>3. QED
  BY <1>1, <1>2, Zenon

LEMMA ErrorSet ==
  ASSUME TypeOK, NEW r \in Reader, s' = [s EXCEPT ![r].error = TRUE]
  PROVE  s' \in [Reader -> Request] /\ \A q \in Reader \ {r} : s'[q] = s[q]
<1>1. s \in [Reader -> Request] /\ s[r] \in Request
  BY DEF TypeOK
<1>2. PICK e \in BOOLEAN : e = TRUE
  OBVIOUS
<1>3. [s[r] EXCEPT !.error = e] \in Request
  BY <1>1 DEF Request
<1>4. QED
  BY <1>1, <1>2, <1>3, Zenon

(* A reader's step changes its own request only. *)
LEMMA RequestTypes ==
  ASSUME TypeOK, NEW r \in Reader, Read(r) \/ Session(r), WordsFit(r)
  PROVE  s' \in [Reader -> Request] /\ \A q \in Reader \ {r} : s'[q] = s[q]
<1> USE DEF TypeOK, ring, modes, locks, ghosts
<1>1. CASE LockRead(r)
  BY <1>1, RequestedFields DEF LockRead
<1>2. CASE NextChunk(r)
  BY <1>2, ChunkFields
<1>3. CASE Measure(r)
  BY <1>3, MeasureFields
<1>4. CASE MeasureFails(r)
  BY <1>4, ErrorSet DEF MeasureFails
<1>5. CASE Snapshot(r)
  <2>1. s' = [s EXCEPT ![r].snap = rb_writer] /\ rb_writer \in Nat
    BY <1>5 DEF Snapshot
  <2>2. QED
    BY <2>1, SnapChanged
<1>6. CASE NoData(r) \/ NoRoom(r)
  <2>1. s' = [s EXCEPT ![r].snap = 0]
    BY <1>6 DEF NoData, NoRoom
  <2>2. QED
    BY <2>1, SnapChanged
<1>7. CASE CopyWord(r)
  BY <1>7, CopyWordFields
<1>8. CASE Interrupted(r)
  BY <1>8, ErrorSet DEF Interrupted
<1>9. CASE CopyOut(r)
  BY <1>9, CopyOutFields
<1>10. CASE UnlockRead(r)
  BY <1>10, NoRequestTyped DEF UnlockRead
<1>11. QED
  BY <1>1, <1>2, <1>3, <1>4, <1>5, <1>6, <1>7, <1>8, <1>9, <1>10
  DEF Session, Read, LockInterrupted, Prime, Alloc, SignalBreak, Open, Enable,
      Measured, EndOrWait, ClearBoot, Wait, Fini, Disable, Close, CopyFaults

(* A reader's step moves that reader only. *)
LEMMA PlaceTypes ==
  ASSUME TypeOK, NEW r \in Reader, Read(r) \/ Session(r)
  PROVE  /\ pc' \in [Reader -> Places] /\ \A q \in Reader \ {r} : pc'[q] = pc[q]
         /\ st' \in [Actor -> { "none", "body", "stop", "wake" }]
         /\ \A q \in Actor \ {r} : st'[q] = st[q]
<1> USE DEF TypeOK, ring, modes, locks, ghosts, Actor, Goto, Places
<1>1. CASE Read(r) \/ LockRead(r) \/ LockInterrupted(r) \/ Prime(r) \/ Alloc(r)
           \/ SignalBreak(r) \/ NextChunk(r)
  BY <1>1 DEF Read, LockRead, LockInterrupted, Prime, Alloc, SignalBreak, NextChunk
<1>2. CASE Open(r) \/ Enable(r) \/ Measure(r) \/ Measured(r) \/ MeasureFails(r)
           \/ Snapshot(r) \/ NoData(r) \/ EndOrWait(r)
  BY <1>2 DEF Open, Enable, Measure, Measured, MeasureFails, Snapshot, NoData,
     EndOrWait
<1>3. CASE NoRoom(r) \/ CopyWord(r) \/ ClearBoot(r) \/ Wait(r) \/ Interrupted(r)
  BY <1>3 DEF NoRoom, CopyWord, ClearBoot, Wait, Interrupted
<1>4. CASE Fini(r) \/ Disable(r) \/ Close(r) \/ CopyOut(r) \/ CopyFaults(r)
           \/ UnlockRead(r)
  BY <1>4 DEF Fini, Disable, Close, CopyOut, CopyFaults, UnlockRead
<1>5. QED
  BY <1>1, <1>2, <1>3, <1>4 DEF Session

LEMMA SharedTypes ==
  ASSUME TypeOK, NEW r \in Reader, Read(r) \/ Session(r)
  PROVE  /\ rb' \in [0 .. RB_SIZE - 1 -> Nat]
         /\ rb_reader' \in Nat /\ rb_writer' \in Nat
         /\ boot' \in 0 .. 2
         /\ read_lock' \in Reader \cup {Free}
         /\ stores' \in Nat /\ opened' \in Nat /\ bootread' \in Nat
<1> USE DEF TypeOK, ring, modes, locks, ghosts
<1>1. CASE Read(r) \/ LockRead(r) \/ LockInterrupted(r) \/ Prime(r) \/ Alloc(r)
           \/ SignalBreak(r) \/ NextChunk(r)
  BY <1>1 DEF Read, LockRead, LockInterrupted, Prime, Alloc, SignalBreak, NextChunk
<1>2. CASE Open(r) \/ Enable(r) \/ Measure(r) \/ Measured(r) \/ MeasureFails(r)
           \/ Snapshot(r) \/ NoData(r) \/ EndOrWait(r)
  BY <1>2 DEF Open, Enable, Measure, Measured, MeasureFails, Snapshot, NoData,
     EndOrWait
<1>3. CASE NoRoom(r) \/ CopyWord(r) \/ ClearBoot(r) \/ Wait(r) \/ Interrupted(r)
  BY <1>3 DEF NoRoom, CopyWord, ClearBoot, Wait, Interrupted
<1>4. CASE Fini(r) \/ Disable(r) \/ Close(r) \/ CopyOut(r) \/ CopyFaults(r)
           \/ UnlockRead(r)
  BY <1>4 DEF Fini, Disable, Close, CopyOut, CopyFaults, UnlockRead
<1>5. QED
  BY <1>1, <1>2, <1>3, <1>4 DEF Session

LEMMA FlagTypes ==
  ASSUME TypeOK, NEW r \in Reader, Read(r) \/ Session(r)
  PROVE  enabled' \in BOOLEAN /\ booting' \in BOOLEAN
<1>1. enabled \in BOOLEAN /\ booting \in BOOLEAN
  BY DEF TypeOK
<1>2. CASE Enable(r)
  BY <1>1, <1>2, Zenon DEF Enable
<1>3. CASE Disable(r)
  BY <1>1, <1>3, Zenon DEF Disable
<1>4. CASE ClearBoot(r)
  BY <1>1, <1>4, Zenon DEF ClearBoot
<1>5. QED
  BY <1>1, <1>2, <1>3, <1>4
  DEF Session, modes, Read, LockRead, LockInterrupted, Prime, Alloc, SignalBreak,
      NextChunk, Open, Measure, Measured, MeasureFails, Snapshot, NoData,
      EndOrWait, NoRoom,
      CopyWord, Wait, Interrupted, Fini, Close, CopyOut, CopyFaults, UnlockRead

LEMMA TypesStep ==
  ASSUME TypeOK, \A r \in Reader : WordsFit(r), [Next]_vars
  PROVE  TypeOK'
<1>1. ASSUME NEW a \in Producer, Produce(a) PROVE TypeOK'
  BY <1>1 DEF Produce, TypeOK, Actor, ring, modes, locks, ghosts
<1>2. ASSUME NEW r \in Reader, Read(r) \/ Session(r) PROVE TypeOK'
  BY <1>2, RequestTypes, PlaceTypes, SharedTypes, FlagTypes DEF TypeOK
<1>3. ASSUME NEW v \in 0 .. 1, SetBoot(v) PROVE TypeOK'
  <2>1. booting' \in BOOLEAN
    BY <1>3, Zenon DEF SetBoot
  <2>2. QED
    BY <1>3, <2>1 DEF SetBoot, TypeOK, ring, locks
<1>4. CASE UNCHANGED vars
  BY <1>4 DEF vars, TypeOK, ring, modes, locks, ghosts
<1>5. QED
  BY <1>1, <1>2, <1>3, <1>4, StoreTypes DEF Next
-----------------------------------------------------------------------------
(* The ring. *)
LEMMA StoreEffect ==
  ASSUME TypeOK, UnreadAreNewest, NEW a \in Actor, StoreBody(a)
  PROVE  /\ rb_writer' = rb_writer + 1 /\ stores' = stores + 1
         /\ \/ /\ Unread < RB_SIZE - 1
               /\ rb_reader' = rb_reader /\ Unread' = Unread + 1
            \/ /\ Unread = RB_SIZE - 1
               /\ rb_reader' = rb_reader + 1 /\ Unread' = RB_SIZE - 1
<1>1. /\ rb_writer' = rb_writer + 1 /\ stores' = stores + 1
      /\ rb_reader' = IF (rb_writer + 1) % RB_SIZE = rb_reader % RB_SIZE
                      THEN rb_reader + 1 ELSE rb_reader
  BY DEF StoreBody, Pushed
<1>2. /\ rb_reader \in Nat /\ rb_writer + 1 \in Nat /\ rb_writer \in Nat
      /\ Unread \in 0 .. RB_SIZE - 1 /\ RB_SIZE \in Nat
  BY RingAssumption DEF TypeOK, UnreadAreNewest, Unread
<1>3. CASE Unread < RB_SIZE - 1
  <2> DEFINE w == rb_writer + 1
  <2>1. w \in Nat /\ rb_reader < w /\ w - rb_reader < RB_SIZE
    BY <1>2, <1>3 DEF Unread
  <2> HIDE DEF w
  <2>2. rb_reader % RB_SIZE # w % RB_SIZE
    BY <1>2, <2>1, SlotsDiffer
  <2>3. QED
    BY <1>1, <1>2, <1>3, <2>2 DEF Unread, w
<1>4. CASE Unread = RB_SIZE - 1
  <2>1. rb_writer + 1 = rb_reader + RB_SIZE
    BY <1>2, <1>4 DEF Unread
  <2>2. (rb_writer + 1) % RB_SIZE = rb_reader % RB_SIZE
    BY <1>2, <2>1, SlotsMeet
  <2>3. QED
    BY <1>1, <1>2, <1>4, <2>2 DEF Unread
<1>5. QED
  BY <1>2, <1>3, <1>4

LEMMA StoreKeepsUnread ==
  ASSUME TypeOK, UnreadAreNewest, NEW a \in Actor, StoreBody(a)
  PROVE  UnreadAreNewest'
<1>1. /\ rb_writer' = rb_writer + 1 /\ stores' = stores + 1
      /\ rb_writer \in Nat /\ rb_reader \in Nat /\ stores \in Nat
      /\ RB_SIZE \in Nat /\ RB_SIZE > 0
      /\ Unread \in 0 .. RB_SIZE - 1 /\ Unread' \in 0 .. RB_SIZE - 1
      /\ Unread' <= Unread + 1 /\ Unread = rb_writer - rb_reader
      /\ Unread' = rb_writer' - rb_reader'
  BY StoreEffect, RingAssumption DEF TypeOK, UnreadAreNewest, Unread
<1>2. /\ rb \in [0 .. RB_SIZE - 1 -> Nat]
      /\ rb' = [rb EXCEPT ![rb_writer % RB_SIZE] = stores + 1]
      /\ rb_writer % RB_SIZE \in 0 .. RB_SIZE - 1
  BY SlotRange DEF TypeOK, StoreBody
<1>3. ASSUME NEW i \in 1 .. Unread'
      PROVE  rb'[(rb_writer' - i) % RB_SIZE] = stores' - i + 1
  <2>1. CASE i = 1
    <3>1. rb_writer' - i = rb_writer
      BY <1>1, <2>1
    <3>2. QED
      BY <1>1, <1>2, <2>1, <3>1
  <2>2. CASE i > 1
    <3> DEFINE x == rb_writer - (i - 1)
    <3>1. /\ rb_writer' - i = x /\ x \in Nat /\ x < rb_writer
          /\ rb_writer - x < RB_SIZE /\ i - 1 \in 1 .. Unread
      BY <1>1, <2>2
    <3>2. x % RB_SIZE # rb_writer % RB_SIZE
      BY <1>1, <3>1, SlotsDiffer
    <3>3. x % RB_SIZE \in 0 .. RB_SIZE - 1
      BY <3>1, SlotRange
    <3>4. rb[x % RB_SIZE] = stores - (i - 1) + 1
      BY <3>1 DEF UnreadAreNewest, Unread
    <3>5. rb'[x % RB_SIZE] = stores - (i - 1) + 1
      BY <1>2, <3>2, <3>3, <3>4
    <3>6. QED
      BY <1>1, <3>1, <3>5
  <2>3. QED
    BY <1>1, <2>1, <2>2
<1>4. QED
  BY <1>1, <1>3 DEF UnreadAreNewest

(* A drain that copies a word takes the oldest unread sample, also when the
   index it compares with the writer it saw has overtaken that. *)
LEMMA CopyTakesOldest ==
  ASSUME TypeOK, UnreadAreNewest, NEW r \in Reader, LookIsSafe(r), CopyWord(r)
  PROVE  /\ Unread \in 1 .. RB_SIZE - 1
         /\ rb[rb_reader % RB_SIZE] = stores - Unread + 1
         /\ rb_reader' = rb_reader + 1 /\ Unread' = Unread - 1
<1>1. /\ pc[r] = "look" /\ ~Drained(r) /\ rb_reader' = rb_reader + 1
      /\ rb_writer' = rb_writer
  BY DEF CopyWord, Goto
<1>2. /\ rb_reader \in Nat /\ rb_writer \in Nat /\ s[r].snap \in Nat
      /\ RB_SIZE \in Nat /\ RB_SIZE > 1
      /\ Unread \in 0 .. RB_SIZE - 1 /\ Unread = rb_writer - rb_reader
  BY RingAssumption DEF TypeOK, Request, UnreadAreNewest, Unread
<1>3. Unread # 0
  BY <1>1, <1>2 DEF LookIsSafe, Drained
<1>4. rb_writer - Unread = rb_reader /\ Unread \in 1 .. rb_writer - rb_reader
  BY <1>2, <1>3
<1>5. rb[rb_reader % RB_SIZE] = stores - Unread + 1
  BY <1>4 DEF UnreadAreNewest
<1>6. Unread' = rb_writer' - rb_reader'
  BY DEF Unread
<1>7. QED
  BY <1>1, <1>2, <1>3, <1>5, <1>6

LEMMA UnreadStep ==
  ASSUME TypeOK, UnreadAreNewest, \A r \in Reader : LookIsSafe(r), [Next]_vars
  PROVE  UnreadAreNewest'
<1>1. CASE UNCHANGED ring
  BY <1>1 DEF ring, UnreadAreNewest
<1>2. ASSUME NEW a \in Actor, Store(a) PROVE UnreadAreNewest'
  BY <1>1, <1>2, StoreKeepsUnread DEF Store, StoreFull, StoreStop, StoreWake
<1>3. ASSUME NEW r \in Reader, Open(r) \/ Close(r) PROVE UnreadAreNewest'
  BY <1>3, RingAssumption DEF Open, Close, UnreadAreNewest
<1>4. ASSUME NEW r \in Reader, CopyWord(r) PROVE UnreadAreNewest'
  <2>1. /\ Unread \in 1 .. RB_SIZE - 1 /\ Unread' = Unread - 1
        /\ Unread = rb_writer - rb_reader /\ Unread' = rb_writer' - rb_reader'
        /\ UNCHANGED << rb, rb_writer, stores >>
    BY <1>4, CopyTakesOldest DEF Unread, CopyWord
  <2>2. QED
    BY <2>1, RingAssumption DEF UnreadAreNewest
<1>5. ASSUME NEW r \in Reader, Read(r) \/ Session(r),
             ~Open(r), ~Close(r), ~CopyWord(r)
      PROVE  UNCHANGED ring
  BY <1>5
  DEF Session, Read, LockRead, LockInterrupted, Prime, Alloc, SignalBreak,
      NextChunk, Enable, Measure, Measured, MeasureFails, Snapshot, NoData,
      EndOrWait, NoRoom,
      ClearBoot, Wait, Interrupted, Fini, Disable, CopyOut, CopyFaults, UnlockRead
<1>6. QED
  BY <1>1, <1>2, <1>3, <1>4, <1>5 DEF Next, Produce, SetBoot, vars

-----------------------------------------------------------------------------
(* One session. *)
InSession(r) == pc[r] \notin { "idle", "lock" }

(* What a step outside the session leaves alone. *)
LEMMA StepOutside ==
  ASSUME TypeOK, NEW r \in Reader, Read(r) \/ Session(r), ~InSession(r)
  PROVE  /\ UNCHANGED << ring, enabled, opened, st >>
         /\ \/ ~InSession(r)' /\ s'[r] = s[r] /\ UNCHANGED read_lock
            \/ LockRead(r)
<1> USE DEF TypeOK, InSession, Goto, ring, modes, locks, ghosts
<1>1. CASE Read(r)
  BY <1>1 DEF Read
<1>2. CASE LockInterrupted(r)
  BY <1>2 DEF LockInterrupted
<1>3. CASE LockRead(r)
  BY <1>3 DEF LockRead
<1>4. QED
  BY <1>1, <1>2, <1>3
  DEF Session, Prime, Alloc, SignalBreak, NextChunk, Open, Enable, Measure,
      Measured, MeasureFails, Snapshot, NoData,
      EndOrWait, NoRoom, CopyWord, ClearBoot, Wait,
      Interrupted, Fini, Disable, Close, CopyOut, CopyFaults, UnlockRead

(* A step of the session keeps the lock, or gives it back. *)
LEMMA StepInside ==
  ASSUME TypeOK, NEW r \in Reader, Read(r) \/ Session(r), InSession(r)
  PROVE  \/ UNCHANGED read_lock
         \/ ~InSession(r)'
<1> USE DEF TypeOK, InSession, Goto, locks
<1>1. CASE UnlockRead(r)
  BY <1>1 DEF UnlockRead
<1>2. QED
  BY <1>1
  DEF Session, Read, LockRead, LockInterrupted, Prime, Alloc, SignalBreak,
      NextChunk, Open, Enable, Measure, Measured, MeasureFails, Snapshot, NoData,
      EndOrWait,
      NoRoom, CopyWord, ClearBoot, Wait, Interrupted, Fini, Disable, Close, CopyOut,
      CopyFaults

LEMMA OneSessionStep ==
  ASSUME TypeOK, OneSession, [Next]_vars
  PROVE  OneSession'
<1> USE DEF OneSession, InSession
<1>1. ASSUME NEW r \in Reader, Read(r) \/ Session(r) PROVE OneSession'
  <2>1. \A q \in Reader \ {r} : pc'[q] = pc[q]
    BY <1>1, PlaceTypes
  <2>2. CASE InSession(r)
    BY <1>1, <2>1, <2>2, StepInside
  <2>3. CASE ~InSession(r)
    <3>1. CASE LockRead(r)
      <4>1. read_lock = Free /\ read_lock' = r
        BY <3>1 DEF LockRead
      <4>2. \A q \in Reader : read_lock # q
        BY <4>1, ActorAssumption
      <4>3. QED
        BY <2>1, <4>1, <4>2
    <3>2. QED
      BY <1>1, <2>1, <2>3, <3>1, StepOutside
  <2>4. QED
    BY <2>2, <2>3
<1>2. ASSUME NEW a \in Actor, Store(a) PROVE OneSession'
  BY <1>2 DEF Store, StoreBody, StoreFull, StoreStop, StoreWake, locks
<1>3. CASE UNCHANGED << pc, read_lock >>
  BY <1>3
<1>4. QED
  BY <1>1, <1>2, <1>3 DEF Next, Produce, SetBoot, vars, locks
-----------------------------------------------------------------------------
(* The boot phase. *)
LEMMA BootPhaseReader ==
  ASSUME TypeOK, BootPhase, NEW r \in Reader, Read(r) \/ Session(r)
  PROVE  booting' =>
           /\ booting /\ boot' # 0 /\ UNCHANGED << rb, rb_writer, stores >>
           /\ pc'[r] \notin { "open", "enable", "disable", "close" }
<1> USE DEF TypeOK, BootPhase, Goto, ring, modes
<1>1. CASE Read(r) \/ LockRead(r) \/ LockInterrupted(r) \/ Prime(r) \/ Alloc(r)
           \/ SignalBreak(r) \/ NextChunk(r)
  BY <1>1 DEF Read, LockRead, LockInterrupted, Prime, Alloc, SignalBreak, NextChunk
<1>2. CASE Open(r) \/ Enable(r) \/ Measure(r) \/ Measured(r) \/ MeasureFails(r)
           \/ Snapshot(r) \/ NoData(r) \/ EndOrWait(r)
  BY <1>2 DEF Open, Enable, Measure, Measured, MeasureFails, Snapshot, NoData,
     EndOrWait
<1>3. CASE NoRoom(r) \/ CopyWord(r) \/ ClearBoot(r) \/ Wait(r) \/ Interrupted(r)
  BY <1>3 DEF NoRoom, CopyWord, ClearBoot, Wait, Interrupted
<1>4. CASE Fini(r) \/ Disable(r) \/ Close(r) \/ CopyOut(r) \/ CopyFaults(r)
           \/ UnlockRead(r)
  BY <1>4 DEF Fini, Disable, Close, CopyOut, CopyFaults, UnlockRead
<1>5. QED
  BY <1>1, <1>2, <1>3, <1>4 DEF Session

LEMMA BootPhaseStep ==
  ASSUME TypeOK, BootPhase, [Next]_vars
  PROVE  BootPhase'
<1>1. ASSUME NEW r \in Reader, Read(r) \/ Session(r) PROVE BootPhase'
  BY <1>1, BootPhaseReader, PlaceTypes DEF BootPhase
<1>2. ASSUME NEW a \in Actor, Store(a) PROVE BootPhase'
  <2>1. CASE StoreBody(a)
    BY <2>1 DEF StoreBody, BootPhase, modes, TypeOK
  <2>2. CASE StoreFull(a)
    BY <2>2 DEF StoreFull, BootPhase, modes, ring
  <2>3. CASE StoreStop(a)
    BY <2>3 DEF StoreStop, BootPhase, ring
  <2>4. CASE StoreWake(a)
    <3>1. /\ UNCHANGED << booting, boot, rb_writer, stores >>
          /\ pc' = [r \in Reader |-> IF pc[r] = "sleep" THEN "wait" ELSE pc[r]]
      BY <2>4 DEF StoreWake, modes, ring
    <3>2. QED
      BY <3>1 DEF BootPhase
  <2>5. QED
    BY <1>2, <2>1, <2>2, <2>3, <2>4 DEF Store
<1>3. ASSUME NEW v \in 0 .. 1, SetBoot(v) PROVE BootPhase'
  BY <1>3 DEF SetBoot, BootPhase
<1>4. CASE UNCHANGED << ring, modes, pc >>
  BY <1>4 DEF ring, modes, BootPhase
<1>5. QED
  BY <1>1, <1>2, <1>3, <1>4 DEF Next, Produce, vars

LEMMA BootStep ==
  ASSUME TypeOK, UnreadAreNewest, BootPhase, BootKeepsEarliest, [Next]_vars
  PROVE  BootKeepsEarliest'
<1>1. CASE UNCHANGED << ring, bootread >> /\ (booting' => booting)
  BY <1>1 DEF ring, BootKeepsEarliest
<1>2. ASSUME NEW a \in Actor, StoreBody(a), booting PROVE BootKeepsEarliest'
  <2>1. /\ rb_writer = stores /\ boot # 0 /\ stores \in Nat /\ RB_SIZE \in Nat
        /\ rb_writer < RB_SIZE
    BY <1>2, RingAssumption DEF StoreBody, BootFull, BootPhase, TypeOK
  <2>2. rb_writer % RB_SIZE = stores
    BY <2>1, SlotOfSmall
  <2>3. rb' = [rb EXCEPT ![stores] = stores + 1] /\ stores' = stores + 1
    BY <1>2, <2>2 DEF StoreBody
  <2>4. \A i \in 1 .. stores' : rb'[i - 1] = i
    <3>1. rb \in [0 .. RB_SIZE - 1 -> Nat]
      BY DEF TypeOK
    <3>2. QED
      BY <1>2, <2>1, <2>3, <3>1 DEF BootKeepsEarliest
  <2>5. rb_reader' <= bootread' + 1
    <3>1. bootread' = bootread /\ bootread \in Nat /\ rb_reader \in Nat
      BY <1>2 DEF StoreBody, ghosts, TypeOK
    <3>2. CASE Unread = RB_SIZE - 1
      BY <1>2, <2>1, <3>1, <3>2, StoreEffect DEF Unread
    <3>3. CASE rb_reader' = rb_reader
      BY <1>2, <3>1, <3>3 DEF BootKeepsEarliest
    <3>4. QED
      BY <1>2, <3>2, <3>3, StoreEffect
  <2>6. QED
    BY <2>1, <2>3, <2>4, <2>5 DEF BootKeepsEarliest
<1>3. ASSUME NEW r \in Reader, Open(r) \/ Close(r) PROVE BootKeepsEarliest'
  BY <1>3 DEF Open, Close, Goto, BootPhase, BootKeepsEarliest, modes
<1>4. ASSUME NEW r \in Reader, CopyWord(r) PROVE BootKeepsEarliest'
  BY <1>4 DEF CopyWord, BootKeepsEarliest, modes, TypeOK
<1>5. ASSUME NEW a \in Actor, Store(a), ~StoreBody(a) \/ ~booting
      PROVE  BootKeepsEarliest'
  BY <1>1, <1>5
  DEF Store, StoreBody, StoreFull, StoreStop, StoreWake, modes, ghosts,
      BootKeepsEarliest
<1>6. ASSUME NEW r \in Reader, Read(r) \/ Session(r),
             ~Open(r), ~Close(r), ~CopyWord(r)
      PROVE  UNCHANGED << ring, bootread >> /\ (booting' => booting)
  BY <1>6
  DEF Session, Read, LockRead, LockInterrupted, Prime, Alloc, SignalBreak,
      NextChunk, Enable, Measure, Measured, MeasureFails, Snapshot, NoData,
      EndOrWait, NoRoom,
      ClearBoot, Wait, Interrupted, Fini, Disable, CopyOut, CopyFaults, UnlockRead,
      modes, ghosts
<1>7. QED
  BY <1>1, <1>2, <1>3, <1>4, <1>5, <1>6 DEF Next, Produce, SetBoot, vars, modes, ghosts
-----------------------------------------------------------------------------
(* The fields of a request. *)
LEMMA RequestFields ==
  ASSUME NEW q \in Request
  PROVE  /\ q.words \in Nat /\ q.left \in Nat /\ q.snap \in Nat
         /\ q.want \in 0 .. CHUNK /\ q.out \in Seq(Nat) /\ Len(q.out) \in Nat
         /\ \A i \in 1 .. Len(q.out) : q.out[i] \in Nat
<1>1. /\ q.words \in Nat /\ q.left \in Nat /\ q.snap \in Nat
      /\ q.want \in 0 .. CHUNK /\ q.out \in Seq(Nat)
  BY DEF Request
<1>2. QED
  BY <1>1, ElementOfSeq, LenProperties

(* The readers.  A store, of any thread. *)
LEMMA BodyKeepsReaders ==
  ASSUME Inv, NEW a \in Actor, StoreBody(a), NEW r \in Reader
  PROVE  ReaderInv(r)'
<1>1. /\ TypeOK /\ UnreadAreNewest /\ ReaderInv(r)
      /\ s[r] \in Request
      /\ UNCHANGED << pc, s, enabled, opened >>
      /\ rb_writer' = rb_writer + 1 /\ stores' = stores + 1
      /\ rb_writer \in Nat /\ rb_reader \in Nat /\ stores \in Nat
      /\ RB_SIZE \in Nat /\ RB_SIZE > CHUNK /\ CHUNK \in Nat
      /\ Unread \in 0 .. RB_SIZE - 1
      /\ Unread = rb_writer - rb_reader
  BY StoreEffect, RingAssumption
  DEF Inv, TypeOK, StoreBody, modes, ghosts, UnreadAreNewest, Unread
<1>2. \/ /\ Unread < RB_SIZE - 1
         /\ rb_reader' = rb_reader /\ Unread' = Unread + 1
      \/ /\ Unread = RB_SIZE - 1
         /\ rb_reader' = rb_reader + 1 /\ Unread' = RB_SIZE - 1
  BY <1>1, StoreEffect
<1>3. /\ s[r].snap \in Nat /\ s[r].want \in 0 .. CHUNK /\ s[r].left \in Nat
      /\ \A i \in 1 .. Len(s[r].out) : s[r].out[i] \in Nat
  BY <1>1, RequestFields
<1>4. LookIsSafe(r)'
  BY <1>1, <1>2, <1>3 DEF ReaderInv, LookIsSafe
<1>5. TakenIsOlder(r)'
  <2>1. stores' - Unread' >= stores - Unread
    BY <1>1, <1>2
  <2>2. stores' - Unread' \in Int /\ stores - Unread \in Int
    BY <1>1, <1>2
  <2>3. TakenIsOlder(r) /\ s'[r] = s[r] /\ pc'[r] = pc[r]
    BY <1>1 DEF ReaderInv
  <2>4. ASSUME pc[r] \in Draining, NEW i \in 1 .. Len(s[r].out)
        PROVE  s[r].out[i] <= stores' - Unread'
    <3>1. s[r].out[i] <= stores - Unread /\ s[r].out[i] \in Nat
      BY <1>3, <2>3, <2>4 DEF TakenIsOlder
    <3>2. QED
      BY <2>1, <2>2, <3>1
  <2>5. QED
    BY <2>3, <2>4 DEF TakenIsOlder
<1>6. TakenIsFresh(r)'
  <2>1. TakenIsFresh(r) /\ s'[r] = s[r] /\ pc'[r] = pc[r] /\ opened' = opened
    BY <1>1 DEF ReaderInv
  <2>2. opened \in Nat
    BY <1>1 DEF TypeOK
  <2>3. rb_writer = stores - opened => rb_writer' = stores' - opened
    BY <1>1, <2>2
  <2>4. QED
    BY <2>1, <2>3 DEF TakenIsFresh
<1>7. WordsFit(r)' /\ NoSleep(r)'
  BY <1>1 DEF ReaderInv, WordsFit, NoSleep
<1>8. EnoughComes(r)'
  <2>1. \/ st[r]' = st[r] /\ Coming(r)' = Coming(r)
        \/ Coming(r)' = Coming(r) - 1
    <3>1. r \in Actor /\ st' = [st EXCEPT ![a] = "wake"] /\ st[a] = "body"
          /\ st \in [Actor -> { "none", "body", "stop", "wake" }]
      BY <1>1 DEF Actor, StoreBody, TypeOK
    <3>2. CASE a = r
      <4>1. st[r] = "body" /\ st'[r] = "wake"
        BY <3>1, <3>2
      <4>2. QED
        BY <1>1, <1>3, <4>1 DEF Coming
    <3>3. CASE a # r
      BY <1>1, <3>1, <3>3 DEF Coming
    <3>4. QED
      BY <3>2, <3>3
  <2>2. Coming(r) \in Nat
    BY <1>3 DEF Coming
  <2>3. QED
    BY <1>1, <1>2, <1>3, <2>1, <2>2 DEF ReaderInv, EnoughComes
<1>9. QED
  BY <1>4, <1>5, <1>6, <1>7, <1>8 DEF ReaderInv

LEMMA FullKeepsReaders ==
  ASSUME Inv, NEW a \in Actor, StoreFull(a), NEW r \in Reader
  PROVE  ReaderInv(r)'
<1>1. /\ TypeOK /\ UnreadAreNewest /\ ReaderInv(r)
      /\ s[r] \in Request
      /\ UNCHANGED << pc, s, enabled, opened, rb_reader, rb_writer, stores, rb >>
      /\ rb_writer >= RB_SIZE /\ Unread' = Unread
      /\ rb_writer \in Nat /\ rb_reader \in Nat
      /\ RB_SIZE \in Nat
      /\ Unread \in 0 .. RB_SIZE - 1
      /\ Unread = rb_writer - rb_reader
  BY RingAssumption
  DEF Inv, TypeOK, StoreFull, BootFull, modes, ghosts, ring, UnreadAreNewest, Unread
<1>2. EnoughComes(r)'
  BY <1>1 DEF ReaderInv, EnoughComes
<1>3. QED
  BY <1>1, <1>2
  DEF ReaderInv, LookIsSafe, TakenIsOlder, Ascending, TakenIsFresh, WordsFit, NoSleep

(* All that the facts about a reader depend on is left alone, but for its
   place inside jent_testing_store when it is not "body". *)
LEMMA SameReader ==
  ASSUME NEW r \in Reader, ReaderInv(r),
         UNCHANGED << ring, enabled, opened, s >>, pc'[r] = pc[r],
         st'[r] = "body" <=> st[r] = "body"
  PROVE  ReaderInv(r)'
<1>1. /\ UNCHANGED << rb_reader, rb_writer, stores, enabled, opened, s >>
      /\ Unread' = Unread /\ Coming(r)' = Coming(r)
  BY DEF ring, Unread, Coming
<1>2. s'[r] = s[r]
  BY <1>1
<1>3. LookIsSafe(r)' /\ TakenIsOlder(r)'
  BY <1>1, <1>2 DEF ReaderInv, LookIsSafe, TakenIsOlder
<1>4. TakenIsFresh(r)' /\ WordsFit(r)' /\ NoSleep(r)'
  BY <1>1, <1>2 DEF ReaderInv, TakenIsFresh, WordsFit, NoSleep
<1>5. EnoughComes(r)'
  BY <1>1, <1>2 DEF ReaderInv, EnoughComes
<1>6. QED
  BY <1>3, <1>4, <1>5 DEF ReaderInv

LEMMA WakeKeepsReaders ==
  ASSUME Inv, NEW a \in Actor, StoreWake(a), NEW r \in Reader
  PROVE  ReaderInv(r)'
<1>1. /\ UNCHANGED << ring, enabled, opened, s >> /\ ReaderInv(r)
      /\ pc'[r] = IF pc[r] = "sleep" THEN "wait" ELSE pc[r]
      /\ st'[r] = "body" <=> st[r] = "body"
  BY DEF Inv, TypeOK, StoreWake, modes, ghosts
<1>2. CASE pc[r] # "sleep"
  BY <1>1, <1>2, SameReader
<1>3. CASE pc[r] = "sleep"
  <2>1. /\ UNCHANGED << rb_reader, rb_writer, stores, enabled, opened, s >>
        /\ Unread' = Unread /\ pc'[r] = "wait"
    BY <1>1, <1>3 DEF ring, Unread
  <2>2. QED
    BY <1>1, <1>3, <2>1
    DEF ReaderInv, LookIsSafe, TakenIsOlder, Ascending, TakenIsFresh, WordsFit,
        NoSleep, EnoughComes, Recording, Draining, Chunk
<1>4. QED
  BY <1>2, <1>3

LEMMA StoreKeepsReaders ==
  ASSUME Inv, NEW a \in Actor, Store(a), NEW r \in Reader
  PROVE  ReaderInv(r)'
<1>1. CASE StoreStop(a)
  BY <1>1, SameReader DEF StoreStop, Inv, TypeOK, ghosts
<1>2. QED
  BY <1>1, BodyKeepsReaders, FullKeepsReaders, WakeKeepsReaders DEF Store

(* A reader outside the session, while another moves. *)
LEMMA StepKeepsOthers ==
  ASSUME Inv, NEW r \in Reader, Read(r) \/ Session(r), NEW q \in Reader \ {r}
  PROVE  ReaderInv(q)'
<1>1. /\ pc'[q] = pc[q] /\ s'[q] = s[q] /\ TypeOK /\ OneSession /\ ReaderInv(q)
      /\ st'[q] = st[q]
  BY PlaceTypes, RequestTypes DEF Inv, ReaderInv, Actor
<1>2. CASE InSession(r)
  <2>1. pc[q] \in { "idle", "lock" }
    BY <1>1, <1>2 DEF OneSession, InSession
  <2>2. QED
    BY <1>1, <2>1
    DEF ReaderInv, LookIsSafe, TakenIsOlder, Ascending, TakenIsFresh, WordsFit,
        NoSleep, EnoughComes, Recording, Draining, Chunk
<1>3. CASE ~InSession(r)
  <2>1. UNCHANGED << rb_reader, rb_writer, stores, enabled, opened, st >>
    BY <1>1, <1>3, StepOutside DEF ring
  <2>2. Unread' = Unread /\ Coming(q)' = Coming(q)
    BY <1>1, <2>1 DEF Unread, Coming
  <2>3. QED
    BY <1>1, <2>1, <2>2
    DEF ReaderInv, LookIsSafe, TakenIsOlder, Ascending, TakenIsFresh, WordsFit,
        NoSleep, EnoughComes
<1>4. QED
  BY <1>2, <1>3
-----------------------------------------------------------------------------
(* The session's own steps.  Between the recordings a reader's facts speak of
   its request only. *)
Between ==
  { "idle", "lock", "unlock", "clear", "fini", "disable", "close", "copy" }

LEMMA ReaderBetween ==
  ASSUME NEW r \in Reader, pc'[r] \in Between, Ascending(s'[r].out),
         Len(s'[r].out) + s'[r].want <= s'[r].words
  PROVE  ReaderInv(r)'
BY DEF Between, ReaderInv, LookIsSafe, TakenIsOlder, Ascending, TakenIsFresh,
   WordsFit, NoSleep, EnoughComes, Recording, Draining, Chunk

LEMMA StepTo ==
  ASSUME TypeOK, NEW r \in Reader, NEW from, NEW to, Goto(r, from, to)
  PROVE  pc[r] = from /\ pc'[r] = to
BY DEF TypeOK, Goto

(* The steps of the call that leave the request as it is. *)
LEMMA PlainStep ==
  ASSUME Inv, NEW r \in Reader, pc'[r] \in Between,
         s'[r].out = s[r].out, s'[r].want = s[r].want, s'[r].words = s[r].words
  PROVE  ReaderInv(r)'
BY ReaderBetween DEF Inv, ReaderInv, TakenIsOlder, WordsFit

LEMMA PlainSteps ==
  ASSUME Inv, NEW r \in Reader,
         Read(r) \/ LockInterrupted(r) \/ SignalBreak(r) \/ MeasureFails(r) \/
         NoRoom(r) \/ ClearBoot(r) \/ Interrupted(r) \/ Fini(r) \/ Disable(r) \/
         Close(r) \/ CopyFaults(r)
  PROVE  ReaderInv(r)'
<1>1. s \in [Reader -> Request] /\ s[r] \in Request /\ pc \in [Reader -> Places]
  BY DEF Inv, TypeOK
<1>2. pc'[r] \in Between
  BY <1>1 DEF Goto, Between, Read, LockInterrupted, SignalBreak, MeasureFails,
     NoRoom, ClearBoot, Interrupted, Fini, Disable, Close, CopyFaults
<1>3. s'[r].out = s[r].out /\ s'[r].want = s[r].want /\ s'[r].words = s[r].words
  <2>1. CASE UNCHANGED s
    BY <2>1
  <2>2. CASE NoRoom(r)
    BY <1>1, <2>2 DEF NoRoom, Request
  <2>3. CASE MeasureFails(r) \/ Interrupted(r)
    BY <1>1, <2>3 DEF MeasureFails, Interrupted, Request
  <2>4. QED
    BY <2>1, <2>2, <2>3
    DEF Read, LockInterrupted, SignalBreak, ClearBoot, Fini, Disable, Close,
        CopyFaults
<1>4. QED
  BY <1>2, <1>3, PlainStep

(* Before the first chunk, and between two. *)
LEMMA ReaderReady ==
  ASSUME NEW r \in Reader, pc'[r] \in { "alloc", "init" }, Ascending(s'[r].out),
         Len(s'[r].out) + s'[r].want <= s'[r].words,
         s'[r].words > 0 \/ s'[r].fraction
  PROVE  ReaderInv(r)'
BY DEF ReaderInv, LookIsSafe, TakenIsOlder, Ascending, TakenIsFresh,
   WordsFit, NoSleep, EnoughComes, Recording, Draining, Chunk

LEMMA NothingTaken == Len(<< >>) = 0 /\ Ascending(<< >>)
BY DEF Ascending

LEMMA AllocStep ==
  ASSUME Inv, NEW r \in Reader, LockRead(r) \/ Prime(r) \/ Alloc(r) \/ UnlockRead(r)
  PROVE  ReaderInv(r)'
<1>1. TypeOK /\ s \in [Reader -> Request] /\ s[r] \in Request /\ ReaderInv(r)
  BY DEF Inv, TypeOK
<1>2. CASE LockRead(r)
  <2>1. Requested(r) /\ Goto(r, "lock", "alloc")
    BY <1>2 DEF LockRead
  <2>2. /\ s'[r] \in Request
        /\ s'[r].words > 0 \/ s'[r].fraction
        /\ s'[r].out = << >> /\ s'[r].want = 0 /\ pc'[r] = "alloc"
    BY <1>1, <2>1, RequestedFields, StepTo
  <2>3. s'[r].words \in Nat
    BY <2>2, RequestFields
  <2>4. QED
    BY <2>2, <2>3, NothingTaken, ReaderReady
<1>3. CASE UnlockRead(r)
  <2>1. s'[r] = NoRequest /\ pc'[r] \in Between
    BY <1>1, <1>3, StepTo DEF UnlockRead, Between
  <2>2. s'[r].out = << >> /\ s'[r].want = 0 /\ s'[r].words = 0
    BY <2>1 DEF NoRequest
  <2>3. QED
    BY <2>1, <2>2, NothingTaken, ReaderBetween
<1>4. CASE Prime(r)
  BY <1>1, <1>4, ReaderReady DEF Prime, ReaderInv, TakenIsOlder, WordsFit
<1>5. CASE Alloc(r)
  <2>1. /\ pc[r] = "alloc" /\ pc'[r] \in { "init", "unlock" } /\ UNCHANGED s
    BY <1>1, <1>5, StepTo DEF Alloc
  <2>2. QED
    BY <1>1, <2>1, ReaderReady, ReaderBetween
    DEF ReaderInv, TakenIsOlder, WordsFit, Between
<1>6. QED
  BY <1>2, <1>3, <1>4, <1>5

LEMMA CopyOutStep ==
  ASSUME Inv, NEW r \in Reader, CopyOut(r)
  PROVE  ReaderInv(r)'
<1>1. TypeOK /\ s[r] \in Request /\ WordsFit(r)
  BY DEF Inv, TypeOK, ReaderInv
<1>2. /\ s'[r].words = s[r].words - Len(s[r].out)
      /\ s'[r].fraction = s[r].fraction
      /\ s'[r].out = << >> /\ s'[r].want = 0
  BY <1>1, CopyOutFields
<1>3. s'[r].words \in Nat
  BY <1>1, <1>2, RequestFields DEF WordsFit
<1>4. \/ pc'[r] = "unlock"
      \/ pc'[r] = "init" /\ (s'[r].words > 0 \/ s'[r].fraction)
  BY <1>1, <1>2, <1>3, StepTo DEF CopyOut
<1>5. QED
  BY <1>2, <1>3, <1>4, NothingTaken, ReaderReady, ReaderBetween DEF Between
-----------------------------------------------------------------------------
(* The recording. *)
LEMMA ReaderFacts ==
  ASSUME Inv, NEW r \in Reader
  PROVE  /\ TypeOK /\ UnreadAreNewest /\ ReaderInv(r) /\ s[r] \in Request
         /\ s \in [Reader -> Request] /\ pc \in [Reader -> Places]
         /\ rb_writer \in Nat /\ rb_reader \in Nat /\ stores \in Nat /\ opened \in Nat
         /\ RB_SIZE \in Nat /\ CHUNK \in Nat /\ CHUNK < RB_SIZE /\ CHUNK > 0
         /\ Unread \in 0 .. RB_SIZE - 1 /\ Unread = rb_writer - rb_reader
         /\ s[r].words \in Nat /\ s[r].left \in Nat /\ s[r].snap \in Nat
         /\ s[r].want \in 0 .. CHUNK /\ Len(s[r].out) \in Nat
         /\ \A i \in 1 .. Len(s[r].out) : s[r].out[i] \in Nat
<1>1. TypeOK /\ UnreadAreNewest /\ ReaderInv(r)
  BY DEF Inv
<1>2. s \in [Reader -> Request] /\ pc \in [Reader -> Places] /\ s[r] \in Request
  BY <1>1 DEF TypeOK
<1>3. /\ s[r].words \in Nat /\ s[r].left \in Nat /\ s[r].snap \in Nat
      /\ s[r].want \in 0 .. CHUNK /\ Len(s[r].out) \in Nat
      /\ \A i \in 1 .. Len(s[r].out) : s[r].out[i] \in Nat
  BY <1>2, RequestFields
<1>4. /\ rb_writer \in Nat /\ rb_reader \in Nat /\ stores \in Nat /\ opened \in Nat
      /\ Unread \in 0 .. RB_SIZE - 1 /\ Unread = rb_writer - rb_reader
  BY <1>1 DEF TypeOK, UnreadAreNewest, Unread
<1>5. QED
  BY <1>1, <1>2, <1>3, <1>4, RingAssumption

LEMMA ChunkStep ==
  ASSUME Inv, NEW r \in Reader, NextChunk(r)
  PROVE  ReaderInv(r)'
<1>1. /\ s[r].words \in Nat /\ CHUNK \in Nat /\ CHUNK > 0 /\ ReaderInv(r) /\ TypeOK
  BY ReaderFacts
<1>2. pc[r] = "init" /\ pc'[r] = IF boot # 0 THEN "measure" ELSE "open"
  BY <1>1, StepTo DEF NextChunk
<1>3. s[r].words > 0 \/ s[r].fraction
  BY <1>1, <1>2 DEF ReaderInv, WordsFit
<1>4. /\ s'[r].words = s[r].words /\ s'[r].out = << >>
      /\ s'[r].want = ChunkOf(r) /\ s'[r].left = ChunkOf(r)
      /\ s'[r].tail <=> s[r].fraction /\ s[r].words < CHUNK
      /\ s'[r].mixed <=> boot # 0
  BY <1>1, ChunkFields
<1>5. /\ ChunkOf(r) \in Nat /\ ChunkOf(r) <= s[r].words
      /\ ChunkOf(r) > 0 \/ (s[r].fraction /\ s[r].words < CHUNK)
  BY <1>1, <1>3 DEF ChunkOf
<1>6. WordsFit(r)'
  BY <1>1, <1>2, <1>4, <1>5, NothingTaken DEF WordsFit
<1>7. EnoughComes(r)' /\ TakenIsFresh(r)' /\ NoSleep(r)' /\ LookIsSafe(r)'
  BY <1>2, <1>4, <1>5 DEF EnoughComes, TakenIsFresh, NoSleep, LookIsSafe, Recording,
     Draining
<1>8. TakenIsOlder(r)'
  BY <1>2, <1>4, NothingTaken DEF TakenIsOlder, Draining
<1>9. QED
  BY <1>6, <1>7, <1>8 DEF ReaderInv

LEMMA OpenStep ==
  ASSUME Inv, NEW r \in Reader, Open(r)
  PROVE  ReaderInv(r)'
<1>1. /\ ReaderInv(r) /\ TypeOK /\ stores \in Nat
      /\ s[r].want \in 0 .. CHUNK /\ Len(s[r].out) \in Nat
  BY ReaderFacts
<1>2. /\ pc[r] = "open" /\ pc'[r] = "enable" /\ UNCHANGED << s, stores >>
      /\ rb_reader' = 0 /\ rb_writer' = 0 /\ opened' = stores
  BY <1>1, StepTo DEF Open
<1>3. s[r].out = << >>
  BY <1>1, <1>2 DEF ReaderInv, TakenIsOlder
<1>4. TakenIsFresh(r)' /\ TakenIsOlder(r)'
  BY <1>1, <1>2, <1>3, NothingTaken DEF TakenIsFresh, TakenIsOlder, Draining
<1>5. WordsFit(r)' /\ EnoughComes(r)' /\ NoSleep(r)' /\ LookIsSafe(r)'
  BY <1>1, <1>2 DEF ReaderInv, WordsFit, EnoughComes, NoSleep, LookIsSafe, Chunk,
     Recording, Draining
<1>6. QED
  BY <1>4, <1>5 DEF ReaderInv

LEMMA EnableStep ==
  ASSUME Inv, NEW r \in Reader, Enable(r)
  PROVE  ReaderInv(r)'
<1>1. /\ ReaderInv(r) /\ TypeOK /\ s[r].left \in Nat /\ s[r].want \in 0 .. CHUNK
      /\ Unread \in Nat
  BY ReaderFacts
<1>2. /\ pc[r] = "enable" /\ pc'[r] = "measure" /\ enabled' = TRUE
      /\ UNCHANGED << s, stores, rb_reader, rb_writer, opened, st >>
      /\ Unread' = Unread
  BY <1>1, StepTo DEF Enable, ring, ghosts, Unread
<1>3. Coming(r)' >= s[r].left /\ Coming(r)' \in Nat
  BY <1>1, <1>2 DEF Coming
<1>4. EnoughComes(r)'
  BY <1>1, <1>2, <1>3 DEF ReaderInv, EnoughComes, Draining
<1>5. QED
  BY <1>1, <1>2, <1>4
  DEF ReaderInv, TakenIsFresh, TakenIsOlder, WordsFit, NoSleep, LookIsSafe, Chunk,
      Recording, Draining, Ascending

LEMMA MeasureStep ==
  ASSUME Inv, NEW r \in Reader, Measure(r)
  PROVE  ReaderInv(r)'
<1>1. /\ ReaderInv(r) /\ TypeOK /\ s[r].left \in Nat /\ s[r].want \in 0 .. CHUNK
      /\ Unread \in Nat /\ s[r] \in Request
  BY ReaderFacts
<1>2. PICK left \in Nat :
        /\ left = IF s[r].left > 0 THEN s[r].left - 1 ELSE 0
        /\ s'[r] = [s[r] EXCEPT !.left = left]
  BY <1>1, MeasureFields
<1>3. /\ s'[r].left = left /\ s'[r].words = s[r].words /\ s'[r].want = s[r].want
      /\ s'[r].out = s[r].out /\ s'[r].tail = s[r].tail /\ s'[r].mixed = s[r].mixed
  BY <1>1, <1>2 DEF Request
<1>4. /\ pc[r] = "measure" /\ pc'[r] = "measure" /\ st[r] = "none"
      /\ st'[r] = IF Wanted THEN "body" ELSE "none"
      /\ UNCHANGED << stores, rb_reader, rb_writer, opened, enabled >>
      /\ Unread' = Unread
  BY <1>1 DEF Measure, TypeOK, ring, ghosts, modes, Unread, Actor
<1>5. EnoughComes(r)'
  <2>1. CASE s[r].mixed
    BY <1>3, <2>1 DEF EnoughComes
  <2>2. CASE ~s[r].mixed
    <3>1. enabled /\ (Unread = RB_SIZE - 1 \/ Unread + Coming(r) >= s[r].want)
          /\ (rb_reader = 0 \/ Unread = RB_SIZE - 1)
      BY <1>1, <1>4, <2>2 DEF ReaderInv, EnoughComes
    <3>2. Coming(r) = s[r].left /\ Coming(r)' = left + 1
      BY <1>1, <1>3, <1>4, <3>1 DEF Coming, Wanted
    <3>3. left + 1 >= s[r].left
      BY <1>1, <1>2
    <3>4. QED
      BY <1>1, <1>3, <1>4, <3>1, <3>2, <3>3 DEF EnoughComes, Draining
  <2>3. QED
    BY <2>1, <2>2
<1>6. QED
  BY <1>1, <1>3, <1>4, <1>5
  DEF ReaderInv, TakenIsFresh, TakenIsOlder, WordsFit, NoSleep, LookIsSafe, Chunk,
      Recording, Draining, Ascending

LEMMA MeasuredStep ==
  ASSUME Inv, NEW r \in Reader, Measured(r)
  PROVE  ReaderInv(r)'
<1>1. /\ ReaderInv(r) /\ TypeOK /\ s[r].want \in 0 .. CHUNK
      /\ Unread \in Nat /\ CHUNK < RB_SIZE /\ CHUNK \in Nat /\ RB_SIZE \in Nat
  BY ReaderFacts
<1>2. /\ pc[r] = "measure" /\ pc'[r] = "read" /\ st[r] = "none" /\ s[r].left = 0
      /\ UNCHANGED << stores, rb_reader, rb_writer, opened, enabled, s >>
      /\ Unread' = Unread
  BY <1>1, StepTo DEF Measured, ring, ghosts, modes, Unread
<1>3. EnoughComes(r)'
  <2>1. Coming(r) = 0
    BY <1>2 DEF Coming
  <2>2. QED
    BY <1>1, <1>2, <2>1 DEF ReaderInv, EnoughComes, Draining
<1>4. TakenIsOlder(r)' /\ TakenIsFresh(r)'
  BY <1>1, <1>2, NothingTaken DEF ReaderInv, TakenIsOlder, TakenIsFresh, Recording,
     Draining
<1>5. QED
  BY <1>1, <1>2, <1>3, <1>4
  DEF ReaderInv, WordsFit, NoSleep, LookIsSafe, Chunk, Recording, Draining
-----------------------------------------------------------------------------
(* The drain. *)
LEMMA SnapshotStep ==
  ASSUME Inv, NEW r \in Reader, Snapshot(r)
  PROVE  ReaderInv(r)'
<1>1. /\ ReaderInv(r) /\ TypeOK /\ s[r] \in Request /\ s \in [Reader -> Request]
      /\ rb_writer \in Nat /\ rb_reader \in Nat /\ Unread \in 0 .. RB_SIZE - 1
      /\ Unread = rb_writer - rb_reader
  BY ReaderFacts
<1>2. /\ pc[r] = "read" /\ pc'[r] = "look"
      /\ UNCHANGED << stores, rb_reader, rb_writer, opened, enabled >>
      /\ Unread' = Unread
      /\ s' = [s EXCEPT ![r].snap = rb_writer]
  BY <1>1, StepTo DEF Snapshot, ring, ghosts, modes, Unread
<1>3. /\ s'[r].snap = rb_writer /\ s'[r].words = s[r].words
      /\ s'[r].want = s[r].want /\ s'[r].out = s[r].out
      /\ s'[r].tail = s[r].tail /\ s'[r].mixed = s[r].mixed
  BY <1>1, <1>2 DEF Request
<1>4. LookIsSafe(r)'
  BY <1>1, <1>2, <1>3 DEF LookIsSafe
<1>5. QED
  BY <1>1, <1>2, <1>3, <1>4
  DEF ReaderInv, TakenIsFresh, TakenIsOlder, WordsFit, NoSleep, Chunk, EnoughComes,
      Recording, Draining, Ascending

LEMMA NoDataStep ==
  ASSUME Inv, NEW r \in Reader, NoData(r)
  PROVE  ReaderInv(r)'
<1>1. /\ ReaderInv(r) /\ TypeOK /\ s[r] \in Request /\ s \in [Reader -> Request]
  BY ReaderFacts
<1>2. /\ pc[r] = "look" /\ pc'[r] = "drained"
      /\ UNCHANGED << stores, rb_reader, rb_writer, opened, enabled >>
      /\ Unread' = Unread
      /\ s' = [s EXCEPT ![r].snap = 0]
  BY <1>1, StepTo DEF NoData, ring, ghosts, modes, Unread
<1>3. /\ s'[r].words = s[r].words
      /\ s'[r].want = s[r].want /\ s'[r].out = s[r].out
      /\ s'[r].tail = s[r].tail /\ s'[r].mixed = s[r].mixed
  BY <1>1, <1>2 DEF Request
<1>4. QED
  BY <1>1, <1>2, <1>3
  DEF ReaderInv, TakenIsFresh, TakenIsOlder, WordsFit, NoSleep, Chunk, EnoughComes,
      Recording, Draining, Ascending, LookIsSafe

LEMMA EndOrWaitStep ==
  ASSUME Inv, NEW r \in Reader, EndOrWait(r)
  PROVE  ReaderInv(r)'
<1>1. ReaderInv(r) /\ TypeOK
  BY ReaderFacts
<1>2. /\ pc[r] = "drained" /\ pc'[r] = IF boot # 0 THEN "clear" ELSE "wait"
      /\ UNCHANGED << stores, rb_reader, rb_writer, opened, enabled, s >>
      /\ Unread' = Unread
  BY <1>1, StepTo DEF EndOrWait, ring, ghosts, modes, Unread
<1>3. CASE boot # 0
  BY <1>2, <1>3, PlainStep DEF Between
<1>4. CASE boot = 0
  BY <1>1, <1>2, <1>4
  DEF ReaderInv, TakenIsFresh, TakenIsOlder, WordsFit, NoSleep, Chunk, EnoughComes,
      Recording, Draining, Ascending, LookIsSafe
<1>5. QED
  BY <1>3, <1>4

(* A session whose own samples suffice finds data when it looks again. *)
LEMMA WaitStep ==
  ASSUME Inv, NEW r \in Reader, Wait(r)
  PROVE  ReaderInv(r)'
<1>1. /\ ReaderInv(r) /\ TypeOK
      /\ rb_writer \in Nat /\ rb_reader \in Nat /\ Unread \in 0 .. RB_SIZE - 1
      /\ Unread = rb_writer - rb_reader /\ s[r].want \in 0 .. CHUNK
      /\ RB_SIZE \in Nat
  BY ReaderFacts
<1>2. /\ pc[r] = "wait" /\ pc'[r] = IF HaveData THEN "read" ELSE "sleep"
      /\ UNCHANGED << s, stores, rb_reader, rb_writer, opened, enabled >>
      /\ Unread' = Unread
  BY <1>1, StepTo DEF Wait, ring, ghosts, modes, Unread
<1>3. ASSUME ~s[r].mixed, ~s[r].tail PROVE HaveData
  <2>1. s[r].want > 0 /\ Unread >= s[r].want
    BY <1>1, <1>2, <1>3 DEF ReaderInv, WordsFit, EnoughComes, Chunk, Recording, Draining
  <2>2. rb_reader < rb_writer /\ rb_writer - rb_reader < RB_SIZE
    BY <1>1, <2>1
  <2>3. QED
    BY <1>1, <2>2, SlotsDiffer DEF HaveData
<1>4. NoSleep(r)'
  BY <1>2, <1>3 DEF NoSleep
<1>5. QED
  BY <1>1, <1>2, <1>4
  DEF ReaderInv, TakenIsFresh, TakenIsOlder, WordsFit, Chunk, EnoughComes,
      Recording, Draining, Ascending, LookIsSafe

LEMMA CopyWordStep ==
  ASSUME Inv, NEW r \in Reader, CopyWord(r)
  PROVE  ReaderInv(r)'
<1>1. /\ ReaderInv(r) /\ TypeOK /\ UnreadAreNewest
      /\ rb_writer \in Nat /\ rb_reader \in Nat /\ stores \in Nat /\ opened \in Nat
      /\ Unread = rb_writer - rb_reader /\ s[r].want \in 0 .. CHUNK
      /\ s[r].words \in Nat /\ Len(s[r].out) \in Nat /\ s[r].out \in Seq(Nat)
      /\ \A i \in 1 .. Len(s[r].out) : s[r].out[i] \in Nat
  BY ReaderFacts, RequestFields
<1> DEFINE v == stores - Unread + 1
           out == s[r].out
<1>2. /\ pc[r] = "look" /\ s[r].want > 0
      /\ pc'[r] = IF s[r].want = 1 /\ ~s[r].tail THEN "fini" ELSE "read"
      /\ UNCHANGED << stores, rb_writer, opened, enabled >>
  BY <1>1, StepTo DEF CopyWord, modes
<1>3. /\ Unread \in 1 .. RB_SIZE - 1 /\ rb[rb_reader % RB_SIZE] = v
      /\ rb_reader' = rb_reader + 1 /\ Unread' = Unread - 1
  BY <1>1, CopyTakesOldest DEF ReaderInv
<1>4. v \in Nat
  BY <1>3, SlotRange, <1>1 DEF TypeOK
<1>5. /\ s'[r].words = s[r].words /\ s'[r].tail = s[r].tail
      /\ s'[r].mixed = s[r].mixed /\ s'[r].want = s[r].want - 1
      /\ s'[r].out = Append(out, v)
  BY <1>1, <1>3, CopyWordFields
<1>6. /\ Len(Append(out, v)) = Len(out) + 1
      /\ \A i \in 1 .. Len(out) : Append(out, v)[i] = out[i]
      /\ Append(out, v)[Len(out) + 1] = v
  BY <1>1, <1>4, AppendProperties
<1>7. \A i \in 1 .. Len(out) : out[i] <= stores - Unread
  BY <1>1, <1>2 DEF ReaderInv, TakenIsOlder, Draining
<1>8. \A i \in 1 .. Len(out) - 1 : out[i] < out[i + 1]
  BY <1>1 DEF ReaderInv, TakenIsOlder, Ascending
<1>9. RB_SIZE \in Nat /\ Unread \in Int
  BY <1>3, RingAssumption
<1> DEFINE longer == Append(out, v)
<1> HIDE DEF longer
<1>10. Ascending(longer)
  <2>1. Len(longer) = Len(out) + 1 /\ longer[Len(out) + 1] = v
        /\ \A i \in 1 .. Len(out) : longer[i] = out[i]
    BY <1>6 DEF longer
  <2>2. SUFFICES ASSUME NEW i \in 1 .. Len(out) PROVE longer[i] < longer[i + 1]
    BY <1>1, <2>1 DEF Ascending
  <2>3. CASE i = Len(out)
    BY <1>1, <1>7, <1>9, <2>1, <2>3
  <2>4. CASE i < Len(out)
    <3>1. i \in 1 .. Len(out) - 1 /\ i + 1 \in 1 .. Len(out)
      BY <1>1, <2>4
    <3>2. QED
      BY <1>8, <2>1, <3>1
  <2>5. QED
    BY <1>1, <2>3, <2>4
<1>11. \A i \in 1 .. Len(longer) : longer[i] <= stores - (Unread - 1)
  <2>1. Len(longer) = Len(out) + 1 /\ longer[Len(out) + 1] = v
        /\ \A i \in 1 .. Len(out) : longer[i] = out[i]
    BY <1>6 DEF longer
  <2>2. SUFFICES ASSUME NEW i \in 1 .. Len(out) + 1
                 PROVE  longer[i] <= stores - (Unread - 1)
    BY <2>1
  <2>3. CASE i = Len(out) + 1
    BY <1>1, <1>9, <2>1, <2>3
  <2>4. CASE i \in 1 .. Len(out)
    <3>1. longer[i] = out[i] /\ out[i] \in Nat /\ out[i] <= stores - Unread
      BY <1>1, <1>7, <2>1, <2>4
    <3>2. QED
      BY <1>1, <1>9, <3>1
  <2>5. QED
    BY <1>1, <2>3, <2>4
<1>12. TakenIsOlder(r)'
  BY <1>1, <1>2, <1>3, <1>5, <1>10, <1>11 DEF TakenIsOlder, longer, Draining
<1>13. TakenIsFresh(r)'
  <2>1. SUFFICES ASSUME ~s[r].mixed
                 PROVE  /\ rb_writer = stores - opened
                        /\ \A i \in 1 .. Len(longer) : longer[i] > opened
    BY <1>2, <1>5 DEF TakenIsFresh, longer
  <2>2. /\ rb_writer = stores - opened
        /\ \A i \in 1 .. Len(out) : out[i] > opened
    BY <1>1, <1>2, <2>1 DEF ReaderInv, TakenIsFresh, Recording, Draining
  <2>3. v > opened
    BY <1>1, <1>9, <2>2
  <2>4. ASSUME NEW i \in 1 .. Len(longer) PROVE longer[i] > opened
    <3>1. Len(longer) = Len(out) + 1 /\ longer[Len(out) + 1] = v
          /\ \A j \in 1 .. Len(out) : longer[j] = out[j]
      BY <1>6 DEF longer
    <3>2. CASE i = Len(out) + 1
      BY <2>3, <3>1, <3>2
    <3>3. CASE i \in 1 .. Len(out)
      BY <2>2, <3>1, <3>3
    <3>4. i \in 1 .. Len(out) \/ i = Len(out) + 1
      <4>1. Len(out) \in Nat /\ Len(longer) = Len(out) + 1
        BY <1>1, <3>1
      <4>2. QED
        BY <4>1
    <3>5. QED
      BY <3>2, <3>3, <3>4
  <2>5. QED
    BY <2>2, <2>4
<1>14. WordsFit(r)'
  <2>1. Len(s'[r].out) + s'[r].want <= s'[r].words
    <3>1. Len(out) + s[r].want <= s[r].words
      BY <1>1 DEF ReaderInv, WordsFit
    <3>2. /\ Len(s'[r].out) = Len(out) + 1 /\ s'[r].want = s[r].want - 1
          /\ s'[r].words = s[r].words
      BY <1>5, <1>6
    <3>3. Len(out) \in Nat /\ s[r].want \in Nat /\ s[r].words \in Nat
      BY <1>1, RingAssumption
    <3>4. QED
      BY <3>1, <3>2, <3>3
  <2>2. pc'[r] = "read" => s'[r].want > 0 \/ s'[r].tail
    BY <1>1, <1>2, <1>5
  <2>3. QED
    BY <1>2, <2>1, <2>2 DEF WordsFit, Chunk, Recording, Draining
<1>15. EnoughComes(r)'
  BY <1>1, <1>2, <1>3, <1>5, <1>9 DEF ReaderInv, EnoughComes, Draining
<1>16. NoSleep(r)' /\ LookIsSafe(r)'
  BY <1>2 DEF NoSleep, LookIsSafe
<1>17. QED
  BY <1>12, <1>13, <1>14, <1>15, <1>16 DEF ReaderInv

-----------------------------------------------------------------------------
LEMMA ReaderStep ==
  ASSUME Inv, NEW r \in Reader, Read(r) \/ Session(r)
  PROVE  ReaderInv(r)'
BY PlainSteps, AllocStep, CopyOutStep, ChunkStep, OpenStep, EnableStep, MeasureStep,
   MeasuredStep, SnapshotStep, NoDataStep, EndOrWaitStep, WaitStep, CopyWordStep
DEF Session

LEMMA ReadersStep ==
  ASSUME Inv, [Next]_vars, NEW q \in Reader
  PROVE  ReaderInv(q)'
<1>1. ASSUME NEW r \in Reader, Read(r) \/ Session(r) PROVE ReaderInv(q)'
  BY <1>1, ReaderStep, StepKeepsOthers
<1>2. ASSUME NEW a \in Actor, Store(a) PROVE ReaderInv(q)'
  BY <1>2, StoreKeepsReaders
<1>3. ASSUME NEW a \in Producer, Produce(a) PROVE ReaderInv(q)'
  <2>1. a # q /\ st \in [Actor -> { "none", "body", "stop", "wake" }] /\ q \in Actor
    BY ActorAssumption DEF Inv, TypeOK, Actor
  <2>2. st'[q] = st[q] /\ UNCHANGED << ring, enabled, opened, s, pc >>
    BY <1>3, <2>1 DEF Produce, modes, ghosts
  <2>3. QED
    BY <2>2, SameReader DEF Inv
<1>4. ASSUME NEW v \in 0 .. 1, SetBoot(v) PROVE ReaderInv(q)'
  BY <1>4, SameReader DEF SetBoot, Inv
<1>5. CASE UNCHANGED vars
  BY <1>5, SameReader DEF vars, modes, ghosts, Inv
<1>6. QED
  BY <1>1, <1>2, <1>3, <1>4, <1>5 DEF Next

LEMMA InvStep ==
  ASSUME Inv, [Next]_vars
  PROVE  Inv'
<1>1. \A r \in Reader : LookIsSafe(r) /\ WordsFit(r)
  BY DEF Inv, ReaderInv
<1>2. TypeOK' /\ OneSession' /\ UnreadAreNewest' /\ BootPhase' /\ BootKeepsEarliest'
  BY <1>1, TypesStep, OneSessionStep, UnreadStep, BootPhaseStep, BootStep DEF Inv
<1>3. QED
  BY <1>2, ReadersStep DEF Inv

LEMMA InitInv == Init => Inv
<1>1. SUFFICES ASSUME Init PROVE Inv
  OBVIOUS
<1>2. TypeOK
  BY <1>1, InitTypes
<1>3. OneSession /\ UnreadAreNewest /\ BootKeepsEarliest
  BY <1>1, RingAssumption DEF Init, OneSession, UnreadAreNewest, BootKeepsEarliest
<1>4. BootPhase
  <2>1. booting => boot = 1
    BY <1>1, Zenon DEF Init
  <2>2. QED
    BY <1>1, <2>1 DEF Init, BootPhase
<1>5. ASSUME NEW r \in Reader PROVE ReaderInv(r)
  <2>1. /\ pc[r] = "idle" /\ s[r].out = << >> /\ s[r].want = 0 /\ s[r].words = 0
    BY <1>1 DEF Init, NoRequest
  <2>2. QED
    BY <2>1, NothingTaken
    DEF ReaderInv, LookIsSafe, TakenIsOlder, Ascending, TakenIsFresh, WordsFit,
        NoSleep, EnoughComes, Recording, Draining, Chunk
<1>6. QED
  BY <1>2, <1>3, <1>4, <1>5 DEF Inv

LEMMA Invariant == Spec => []Inv
BY InitInv, InvStep, PTL DEF Spec
-----------------------------------------------------------------------------
(* The types of the interface's variables, for any number of readers and
   instances and any ring larger than a chunk. *)
THEOREM TestingTypes == Spec => []TypeOK
BY Invariant, PTL DEF Inv

(* One reader at a time is between jitterentropy_testing.c's lock and unlock of
   jent_testing_read_lock, and holds it. *)
THEOREM ReadersExclude == Spec => []OneSession
BY Invariant, PTL DEF Inv

(* However many threads store and whatever a store pushes out, the unread part
   of the ring is the newest samples in their order, and never the whole ring
   (jent_testing_store and jent_testing_reader). *)
THEOREM UnreadIsNewest == Spec => []UnreadAreNewest
BY Invariant, PTL DEF Inv

(* What a reader gets is ascending, so that nothing is delivered twice, and in
   a recording of its own younger than its opening, although the drain reads
   the writer before it takes the ring's lock. *)
THEOREM RecordingsAreFresh == Spec => []RecordingIsFresh
<1>1. Inv => RecordingIsFresh
  BY DEF Inv, ReaderInv, TakenIsOlder, Ascending, TakenIsFresh, RecordingIsFresh,
     Recording, Draining
<1>2. QED
  BY <1>1, Invariant, PTL

(* A session that measures into a recording of its own and asks for whole words
   never sleeps in jent_testing_reader. *)
THEOREM SessionsSuffice == Spec => []OwnSamplesSuffice
<1>1. Inv => OwnSamplesSuffice
  BY DEF Inv, ReaderInv, NoSleep, OwnSamplesSuffice
<1>2. QED
  BY <1>1, Invariant, PTL

(* While the boot recording lasts its ring holds the first samples, each at
   the slot of its number (jent_testing_store's test of boot_raw_hires_test). *)
THEOREM BootIsKept == Spec => []BootKeepsEarliest
BY Invariant, PTL DEF Inv
=============================================================================
