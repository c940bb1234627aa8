-------------------------- MODULE MCAdoptionOutcomes --------------------------
(* Two interchangeable predictions and two adoptions, one row per confirm   *)
(* sweep, so that a backlog forms.                                          *)
EXTENDS AdoptionOutcomes, TLC

CONSTANTS p1, p2

MCPred == {p1, p2}
Symmetry == Permutations(MCPred)
AllFaults == {"crash", "preempt", "store"}
NoFault == {}
================================================================================
