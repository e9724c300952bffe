------------------------------ MODULE SampleRing ------------------------------
(***************************************************************************)
(* The ring buffer of app/health_monitor.c: history_ring (one sample per   *)
(* get_random_bytes call) and jitter_ring (one per library read) are two   *)
(* instances of it.  Every operation runs under stats_lock, so it is one   *)
(* step.                                                                   *)
(***************************************************************************)
EXTENDS Integers, Sequences

CONSTANTS Size, Value, Blank

(* What a module that instantiates the ring assumes of its constants. *)
RingConstantsOK == Size \in Nat \ {0} /\ Blank \in Value

VARIABLES ring, write_index, samples_written

ringVars == << ring, write_index, samples_written >>

RingInit ==
  /\ ring = [i \in 0 .. Size - 1 |-> Blank]
  /\ write_index = 0
  /\ samples_written = 0

(* Faulty variant: the index advances before the sample is stored. *)
RecordAfterAdvance(v) ==
  /\ ring' = [ring EXCEPT ![(write_index + 1) % Size] = v]
  /\ write_index' = (write_index + 1) % Size
  /\ samples_written' = IF samples_written < Size THEN samples_written + 1
                                                  ELSE samples_written

Record(v) ==
  /\ ring' = [ring EXCEPT ![write_index] = v]
  /\ write_index' = (write_index + 1) % Size
  /\ samples_written' = IF samples_written < Size THEN samples_written + 1
                                                  ELSE samples_written

Clear ==
  /\ ring' = [i \in 0 .. Size - 1 |-> Blank]
  /\ write_index' = 0
  /\ samples_written' = 0

(* The two branches of a snapshot's start_idx, for count samples. *)
StartIndex(count) ==
  IF samples_written < Size THEN write_index - count
                            ELSE (write_index + Size - count) % Size

(* What a snapshot into a buffer of max_count samples copies out. *)
Snapshot(max_count) ==
  LET count == IF samples_written < max_count THEN samples_written
                                              ELSE max_count
  IN  [i \in 1 .. count |-> ring[(StartIndex(count) + i - 1) % Size]]

RingNext == Clear \/ \E v \in Value : Record(v)

RingSpec == RingInit /\ [][RingNext]_ringVars

-----------------------------------------------------------------------------
(* Types, and the relation of the two indexes that keeps start_idx (a size_t)
   from wrapping: until the ring is full the write index counts samples. *)
RingTypeOK ==
  /\ ring \in [0 .. Size - 1 -> Value]
  /\ write_index \in 0 .. Size - 1
  /\ samples_written \in 0 .. Size

IndexCountsSamples == samples_written < Size => write_index = samples_written

(* The ring keeps the bounded log: no sample lost, duplicated or reordered
   when the indexes wrap. *)
Log == INSTANCE BoundedLog WITH recent <- Snapshot(Size)

ImplementsLog == Log!LogSpec
=============================================================================
