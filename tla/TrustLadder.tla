----------------------------- MODULE TrustLadder -----------------------------
(***************************************************************************)
(* What the memory of a scenario promises: from candidate it may rise to   *)
(* trusted, from there fall to stale or demoted, and only a rebuild makes  *)
(* a candidate of it again.  The exception is a scenario that a call is    *)
(* about to write which has decided on a state the memory has left since.  *)
(***************************************************************************)
CONSTANT Scenario

VARIABLES
    memory,     \* the memory state of each scenario
    overtaken   \* the scenarios that an overtaken call is about to write

MemoryState == {"candidate", "trusted", "stale", "demoted"}

Init == memory = [s \in Scenario |-> "candidate"]

Becomes(s, m) == memory' = [memory EXCEPT ![s] = m]

Rebuild(s) == Becomes(s, "candidate")
Rise(s) == memory[s] = "candidate" /\ Becomes(s, "trusted")
Doubt(s) == memory[s] = "trusted" /\ Becomes(s, "stale")
Fall(s) == memory[s] \in {"candidate", "trusted"} /\ Becomes(s, "demoted")
Overwrite(s) == s \in overtaken /\ \E m \in MemoryState : Becomes(s, m)

Next == \E s \in Scenario : Rebuild(s) \/ Rise(s) \/ Doubt(s) \/ Fall(s) \/ Overwrite(s)

Spec == Init /\ [][Next]_memory
==============================================================================
