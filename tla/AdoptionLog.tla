------------------------------ MODULE AdoptionLog ------------------------------
(***************************************************************************)
(* What the adoption-outcome log promises for each adoption, whatever the  *)
(* engine does in between (models/prediction_adoption_outcome.py and       *)
(* store/prediction_adoption_outcomes.py): it is recorded as pending at    *)
(* most once, resolved at most once, and a resolution is final.  An        *)
(* adoption that was not recorded yet may be lost.                         *)
(***************************************************************************)
CONSTANT Adoption

VARIABLE state    \* where each adoption stands

Outcomes == {"confirmed", "rejected", "stale"}
States == {"none", "queued", "lost", "pending"} \cup Outcomes

Allowed == {<<"none", "queued">>, <<"queued", "pending">>, <<"queued", "lost">>}
             \cup ({"pending"} \X Outcomes)

Init == state = [a \in Adoption |-> "none"]

\* One step of the engine may move several adoptions, each along one arrow.
Next ==
    /\ state' \in [Adoption -> States]
    /\ \A a \in Adoption :
         state'[a] # state[a] => <<state[a], state'[a]>> \in Allowed

Spec == Init /\ [][Next]_state
================================================================================
