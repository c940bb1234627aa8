---------------------------- MODULE HourlyCounter ----------------------------
(***************************************************************************)
(* What the hourly budget promises its callers, with no file, no lock and  *)
(* no process in sight: one counter, which grants a call and counts it in  *)
(* a single step.  A caller names the hour it counts in, which may be one  *)
(* that is past by the time its turn comes.                                *)
(***************************************************************************)
EXTENDS Clock

CONSTANT MaxPerHour

VARIABLES
    counter,   \* the hour it counts in, and the calls counted there
    granted    \* the calls granted since the hour of the clock began

vars == <<now, counter, granted>>

\* A counter that has counted nothing yet, and one that cannot be read.
Fresh == [hour |-> -1, used |-> 0]
Broken == [hour |-> -2, used |-> 0]

Init == now = 0 /\ counter \in {Fresh, Broken} /\ granted = 0

CountedIn(hour) == IF counter.hour = hour THEN counter.used ELSE 0

Grant(hour) ==
    /\ counter # Broken
    /\ CountedIn(hour) < MaxPerHour
    /\ counter' = [hour |-> hour, used |-> CountedIn(hour) + 1]
    /\ granted' = granted + 1
    /\ UNCHANGED now

TurnOfTheHour == Tick /\ granted' = 0 /\ UNCHANGED counter

Next == TurnOfTheHour \/ \E hour \in 0..now : Grant(hour)

Spec == Init /\ [][Next]_vars
==============================================================================
