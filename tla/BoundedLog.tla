------------------------------ MODULE BoundedLog ------------------------------
(***************************************************************************)
(* What a sample ring promises its reader: the last Size samples recorded  *)
(* since the last clear, oldest first.                                     *)
(***************************************************************************)
EXTENDS Naturals, Sequences

CONSTANTS Size, Value

VARIABLE recent

LogInit == recent = << >>

LogRecord(v) ==
  recent' = IF Len(recent) < Size THEN Append(recent, v)
                                  ELSE Append(Tail(recent), v)

LogClear == recent' = << >>

LogNext == LogClear \/ \E v \in Value : LogRecord(v)

LogSpec == LogInit /\ [][LogNext]_recent
=============================================================================
