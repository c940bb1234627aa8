--------------------------- MODULE MCAdoptionHistory ---------------------------
(* Two interchangeable predictions, two adoptions, cycles that always end.  *)
EXTENDS AdoptionHistory, TLC

CONSTANTS p1, p2

MCPred == {p1, p2}
Symmetry == Permutations(MCPred)
NoFault == {}
================================================================================
