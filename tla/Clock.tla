-------------------------------- MODULE Clock --------------------------------
(***************************************************************************)
(* The time process() works with: ts_exchange of the event being taken in. *)
(* It comes from the event, so it need not advance from one to the next.   *)
(***************************************************************************)
EXTENDS Integers

CONSTANTS
  TimeSteps,       (* how far an event's ts_exchange is from the last one *)
  MaxTime          (* bound: the recording ends here                      *)

ASSUME ClockAssumption == TimeSteps \subseteq Int /\ MaxTime \in Nat

VARIABLE now
==============================================================================
