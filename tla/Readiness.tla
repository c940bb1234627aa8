------------------------------ MODULE Readiness ------------------------------
(***************************************************************************)
(* The readiness state machine of a prediction (intent/prediction.py).     *)
(* A prediction climbs from "queued" to "ready" one rung at a time and may *)
(* fall to "stale", the only terminal state, from every other one.         *)
(***************************************************************************)

ReadinessStates ==
    {"queued", "grounding", "evidence_gathering", "drafting", "ready", "stale"}

\* The table _ALLOWED_TRANSITIONS: the targets legal from each state.
AllowedTransitions ==
    [queued             |-> {"grounding", "stale"},
     grounding          |-> {"evidence_gathering", "stale"},
     evidence_gathering |-> {"drafting", "stale"},
     drafting           |-> {"ready", "stale"},
     ready              |-> {"stale"},
     stale              |-> {}]

IsTransitionAllowed(from, to) == to \in AllowedTransitions[from]

=============================================================================
