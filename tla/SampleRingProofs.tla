--------------------------- MODULE SampleRingProofs ---------------------------
(***************************************************************************)
(* For every ring size: the indexes stay in the ring, a snapshot's start   *)
(* index never wraps below zero, and the ring implements the bounded log.  *)
(***************************************************************************)
EXTENDS SampleRing, SequenceTheorems, TLAPS

USE DEF RingConstantsOK

RingInv == RingConstantsOK /\ RingTypeOK /\ IndexCountsSamples

LEMMA InitEstablishesRingInv == RingConstantsOK /\ RingInit => RingInv
BY DEF RingInit, RingInv, RingTypeOK, IndexCountsSamples

LEMMA StepPreservesRingInv ==
  ASSUME RingInv, [RingNext]_ringVars
  PROVE  RingInv'
<1> USE DEF RingInv, RingTypeOK, IndexCountsSamples
<1>1. CASE UNCHANGED ringVars
  BY <1>1 DEF ringVars
<1>2. CASE Clear
  BY <1>2 DEF Clear
<1>3. ASSUME NEW v \in Value, Record(v) PROVE RingInv'
  <2>1. (write_index + 1) % Size = IF write_index + 1 < Size
                                   THEN write_index + 1 ELSE 0
    BY Z3
  <2>2. QED
    BY <1>3, <2>1 DEF Record
<1>4. QED
  BY <1>1, <1>2, <1>3 DEF RingNext

LEMMA RingInvariant == RingConstantsOK /\ RingSpec => []RingInv
BY InitEstablishesRingInv, StepPreservesRingInv, PTL DEF RingSpec

(* The write index stays in the ring (health_monitor.c:170-174, 244-247). *)
THEOREM RingTypes == RingConstantsOK /\ RingSpec => []RingTypeOK
BY RingInvariant, PTL DEF RingInv

(* Until the ring is full its write index counts the samples, which keeps
   the unsigned start index of a snapshot from wrapping
   (health_monitor.c:219-223, 268-271). *)
THEOREM IndexNeverWraps == RingConstantsOK /\ RingSpec => []IndexCountsSamples
BY RingInvariant, PTL DEF RingInv

-----------------------------------------------------------------------------
(* Where a full snapshot finds its i-th sample. *)
Place(i) ==
  IF samples_written < Size THEN i - 1
  ELSE IF write_index + i - 1 < Size THEN write_index + i - 1
       ELSE write_index + i - 1 - Size

FullSnapshot ==
  /\ Snapshot(Size) \in Seq(Value)
  /\ Len(Snapshot(Size)) = samples_written
  /\ \A i \in 1 .. samples_written : Snapshot(Size)[i] = ring[Place(i)]

LEMMA SnapshotPlaces == RingInv => FullSnapshot
<1> SUFFICES ASSUME RingInv PROVE FullSnapshot
  OBVIOUS
<1> USE DEF RingInv, RingTypeOK, IndexCountsSamples
<1>1. Snapshot(Size) = [i \in 1 .. samples_written |->
                          ring[(StartIndex(samples_written) + i - 1) % Size]]
  BY DEF Snapshot
<1>2. StartIndex(samples_written) = IF samples_written < Size THEN 0
                                                              ELSE write_index
  <2>1. CASE samples_written < Size
    BY <2>1 DEF StartIndex
  <2>2. CASE samples_written = Size
    <3>1. (write_index + Size - Size) % Size = write_index
      BY Z3
    <3>2. QED
      BY <2>2, <3>1 DEF StartIndex
  <2>3. QED
    BY <2>1, <2>2
<1>3. ASSUME NEW i \in 1 .. samples_written
      PROVE  /\ (StartIndex(samples_written) + i - 1) % Size = Place(i)
             /\ Place(i) \in 0 .. Size - 1
  <2> DEFINE start == StartIndex(samples_written)
  <2>1. CASE samples_written < Size
    <3>1. start = 0 /\ i - 1 \in 0 .. Size - 1
      BY <1>2, <2>1
    <3>2. (start + i - 1) % Size = i - 1
      BY <3>1, Z3
    <3>3. QED
      BY <2>1, <3>1, <3>2 DEF Place
  <2>2. CASE samples_written = Size
    <3>1. start = write_index
      BY <1>2, <2>2
    <3>2. (write_index + i - 1) % Size = IF write_index + i - 1 < Size
                                         THEN write_index + i - 1
                                         ELSE write_index + i - 1 - Size
      BY <2>2, Z3
    <3>3. QED
      BY <2>2, <3>1, <3>2 DEF Place
  <2>3. QED
    BY <2>1, <2>2
<1>4. Snapshot(Size) = [i \in 1 .. samples_written |-> ring[Place(i)]]
  BY <1>1, <1>3
<1>5. \A i \in 1 .. samples_written : ring[Place(i)] \in Value
  BY <1>3
<1>6. Snapshot(Size) \in [1 .. samples_written -> Value]
  BY <1>4, <1>5
<1>7. Snapshot(Size) \in Seq(Value)
  <2>1. samples_written \in Nat
    OBVIOUS
  <2>2. QED
    BY <1>6, <2>1, SeqDef, Zenon
<1>8. Len(Snapshot(Size)) = samples_written
  BY <1>6, <1>7, LenProperties
<1>9. QED
  BY <1>4, <1>7, <1>8 DEF FullSnapshot

LEMMA InitMapsToLog == RingConstantsOK /\ RingInit => Log!LogInit
<1>1. SUFFICES ASSUME RingConstantsOK, RingInit PROVE Snapshot(Size) = << >>
  BY DEF Log!LogInit
<1>2. Len(Snapshot(Size)) = 0 /\ Snapshot(Size) \in Seq(Value)
  BY <1>1, InitEstablishesRingInv, SnapshotPlaces DEF RingInit, FullSnapshot
<1>3. QED
  BY <1>2, EmptySeq

(* A recorded sample is appended, and the oldest one goes if the ring was
   full. *)
LEMMA RecordMapsToLog ==
  ASSUME RingConstantsOK, RingInv, RingInv', FullSnapshot, FullSnapshot',
         NEW v \in Value, Record(v)
  PROVE  Log!LogRecord(v)
<1> DEFINE s == Snapshot(Size)
           n == samples_written
<1>1. CASE n < Size
  <2>1. n' = n + 1 /\ ring' = [ring EXCEPT ![n] = v]
    BY <1>1 DEF Record, RingInv, RingTypeOK, IndexCountsSamples
  <2>2. ASSUME NEW i \in 1 .. n + 1 PROVE s'[i] = Append(s, v)[i]
    <3>1. s'[i] = IF i = n + 1 THEN v ELSE ring[i - 1]
      <4>1. Place(i)' = i - 1
        BY <1>1, <2>1 DEF Place, Record, RingInv, RingTypeOK, IndexCountsSamples
      <4>2. QED
        BY <1>1, <2>1, <4>1 DEF FullSnapshot, RingInv, RingTypeOK
    <3>2. i \in 1 .. n => s[i] = ring[i - 1]
      BY <1>1 DEF FullSnapshot, Place
    <3>3. QED
      BY <3>1, <3>2, AppendProperties DEF FullSnapshot, RingInv, RingTypeOK
  <2>3. s' = Append(s, v)
    BY <2>1, <2>2, SeqEqual, AppendProperties DEF FullSnapshot
  <2>4. QED
    BY <1>1, <2>3 DEF Log!LogRecord, FullSnapshot
<1>2. CASE n = Size
  <2>1. n' = n /\ ring' = [ring EXCEPT ![write_index] = v]
    BY <1>2 DEF Record, RingInv, RingTypeOK
  <2>2. /\ Tail(s) \in Seq(Value) /\ Len(Tail(s)) = n - 1
        /\ \A i \in 1 .. n - 1 : Tail(s)[i] = s[i + 1]
    BY <1>2, HeadTailProperties, EmptySeq DEF FullSnapshot
  <2>3. write_index' = IF write_index = Size - 1 THEN 0 ELSE write_index + 1
    <3>1. (write_index + 1) % Size = IF write_index + 1 < Size
                                     THEN write_index + 1 ELSE 0
      BY Z3 DEF RingInv, RingTypeOK
    <3>2. QED
      BY <3>1 DEF Record, RingInv, RingTypeOK
  <2>4. ASSUME NEW i \in 1 .. n PROVE s'[i] = Append(Tail(s), v)[i]
    <3>1. CASE i = n
      <4>1. Place(i)' = write_index
        BY <1>2, <2>1, <2>3, <3>1 DEF Place, RingInv, RingTypeOK
      <4>2. s'[i] = v
        BY <2>1, <4>1 DEF FullSnapshot, RingInv, RingTypeOK
      <4>3. QED
        BY <1>2, <2>2, <3>1, <4>2, AppendProperties
    <3>2. CASE i < n
      <4>1. /\ Place(i)' = Place(i + 1) /\ Place(i + 1) # write_index
            /\ Place(i + 1) \in 0 .. Size - 1
        BY <1>2, <2>1, <2>3, <3>2 DEF Place, RingInv, RingTypeOK
      <4>2. s'[i] = ring[Place(i + 1)]
        BY <2>1, <4>1 DEF FullSnapshot, RingInv, RingTypeOK
      <4>3. s[i + 1] = ring[Place(i + 1)]
        BY <1>2, <3>2 DEF FullSnapshot
      <4>4. Append(Tail(s), v)[i] = Tail(s)[i]
        BY <1>2, <2>2, <3>2, AppendProperties
      <4>5. Tail(s)[i] = s[i + 1]
        BY <1>2, <2>2, <3>2
      <4>6. QED
        BY <4>2, <4>3, <4>4, <4>5
    <3>3. i = n \/ i < n
      BY <1>2
    <3>4. QED
      BY <3>1, <3>2, <3>3
  <2>5. s' = Append(Tail(s), v)
    BY <1>2, <2>1, <2>2, <2>4, SeqEqual, AppendProperties DEF FullSnapshot
  <2>6. QED
    BY <1>2, <2>5 DEF Log!LogRecord, FullSnapshot
<1>3. QED
  BY <1>1, <1>2 DEF RingInv, RingTypeOK

LEMMA ClearMapsToLog ==
  ASSUME FullSnapshot', Clear
  PROVE  Log!LogClear
BY EmptySeq DEF Clear, Log!LogClear, FullSnapshot

(* The ring implements the bounded log: for every size, whatever was recorded
   or cleared, a full snapshot is the last Size samples, oldest first
   (health_monitor.c:170-174, 208-232). *)
THEOREM RingImplementsLog == RingConstantsOK /\ RingSpec => ImplementsLog
<1>1. RingInv /\ RingInv' /\ [RingNext]_ringVars => [Log!LogNext]_(Snapshot(Size))
  <2> SUFFICES ASSUME RingInv, RingInv', [RingNext]_ringVars
               PROVE  Log!LogNext \/ UNCHANGED Snapshot(Size)
    OBVIOUS
  <2>1. FullSnapshot
    BY SnapshotPlaces
  <2>2. RingInv' => FullSnapshot'
    BY SnapshotPlaces, PTL
  <2>3. CASE UNCHANGED ringVars
    BY <2>3 DEF ringVars, Snapshot, StartIndex
  <2>4. CASE Clear
    BY <2>2, <2>4, ClearMapsToLog DEF Log!LogNext
  <2>5. ASSUME NEW v \in Value, Record(v) PROVE Log!LogNext
    BY <2>1, <2>2, <2>5, RecordMapsToLog DEF RingInv, Log!LogNext
  <2>6. QED
    BY <2>3, <2>4, <2>5 DEF RingNext
<1>2. QED
  BY <1>1, InitMapsToLog, RingInvariant, PTL
     DEF RingSpec, ImplementsLog, Log!LogSpec
=============================================================================
