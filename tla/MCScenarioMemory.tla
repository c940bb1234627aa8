--------------------------- MODULE MCScenarioMemory ---------------------------
(* One scenario, which the daemon, the cockpit and two MCP calls write: rows   *)
(* meet nowhere but in list_top, so one is enough for every race between two   *)
(* calls and the rest.  The calls are interchangeable, and every property is   *)
(* of states and steps alone.                                                  *)
EXTENDS CorrectionHistory, TLC

CONSTANTS s1, c1, c2

Symmetry == Permutations({c1, c2})
==============================================================================
