--------------------------- MODULE MCExplorationLoop ---------------------------
(* Three scenarios: s2 overlaps with both others, s1 is seeded from the graph. *)
EXTENDS ExplorationLoop, TLC

CONSTANTS s1, s2, s3, a, b

MCFiles == (s1 :> {a}) @@ (s2 :> {a, b}) @@ (s3 :> {b})
================================================================================
