-------------------------------- MODULE Clock --------------------------------
(***************************************************************************)
(* time.time(), as what the store, the gates and the hourly budget read of *)
(* it: the number of the hour.  A window ends at the turn of an hour.      *)
(***************************************************************************)
EXTENDS Integers

CONSTANT Horizon     \* bound: the last hour of a behaviour

ASSUME ClockAssumption == Horizon \in Nat

VARIABLE now

Hour == 0..Horizon

Tick == now < Horizon /\ now' = now + 1

==============================================================================
