------------------------------- MODULE JobSlot -------------------------------
(***************************************************************************)
(* What the dashboard's host process promises about jobs, with no threads, *)
(* locks or message loop: one job at a time owns the entropy collector, a  *)
(* stop request reaches the job it was meant for and no other, and the     *)
(* collector's settings only change while no job is admitted.              *)
(***************************************************************************)
CONSTANTS
  Kind,      \* kinds of job
  Settings,
  Status,    \* how a job may end, among them "cancelled"
  NoJob

VARIABLES
  slot,      \* NoJob, or the admitted job
  settings   \* what the next collector is built from

slotVars == << slot, settings >>

Job == [kind : Kind, stop : BOOLEAN, outcome : Status \cup {"none"}]

SlotInit == slot = NoJob /\ settings \in Settings

Admit(k) ==
  /\ slot = NoJob
  /\ slot' = [kind |-> k, stop |-> FALSE, outcome |-> "none"]
  /\ UNCHANGED settings

(* A stop request after admission stays until the job is gone. *)
Stop ==
  /\ slot # NoJob
  /\ slot' = [slot EXCEPT !.stop = TRUE]
  /\ UNCHANGED settings

(* The job publishes how it ended: cancelled only if it was asked to stop. *)
Finish(s) ==
  /\ slot # NoJob /\ slot.outcome = "none"
  /\ s = "cancelled" => slot.stop
  /\ slot' = [slot EXCEPT !.outcome = s]
  /\ UNCHANGED settings

(* The slot is freed after the outcome, or given up before the job ran. *)
Release ==
  /\ slot # NoJob /\ slot.outcome # "none"
  /\ slot' = NoJob
  /\ UNCHANGED settings

GiveUp ==
  /\ slot # NoJob /\ slot.outcome = "none" /\ ~slot.stop
  /\ slot' = NoJob
  /\ UNCHANGED settings

Configure(s) ==
  /\ slot = NoJob
  /\ settings' = s
  /\ UNCHANGED slot

SlotNext ==
  \/ \E k \in Kind : Admit(k)
  \/ Stop
  \/ \E s \in Status : Finish(s)
  \/ Release
  \/ GiveUp
  \/ \E s \in Settings : Configure(s)

SlotSpec == SlotInit /\ [][SlotNext]_slotVars
=============================================================================
