--------------------------- MODULE AdoptionHistory ---------------------------
(***************************************************************************)
(* AdoptionOutcomes with a history variable: where an adoption stood when  *)
(* a sweep first staled its prediction or rolled it back.                  *)
(***************************************************************************)
EXTENDS AdoptionOutcomes

VARIABLE caught    \* "no", or the place the adoption was waiting in

Places == {"no", "queued", "pending"}

HInit == Init /\ caught = [a \in 1..MaxAdoptions |-> "no"]

PredOf(a) ==
    Held[CHOOSE i \in DOMAIN Held : Held[i].adoption = a].pred

\* The predictions this step stales or rolls back, if it is a sweep.
Contradicted ==
    {p \in Pred : /\ phase = "opening" /\ phase' = "staling"
                  /\ \/ reg[p].readiness # "stale" /\ reg'[p].readiness = "stale"
                     \/ OnProbation(p) /\ reg'[p].window = NoWindow}

HNext ==
    /\ Next
    /\ caught' = [a \in 1..MaxAdoptions |->
                    IF /\ caught[a] = "no" /\ StateOf(a) \in Places
                       /\ PredOf(a) \in Contradicted
                    THEN StateOf(a) ELSE caught[a]]

HSpec == HInit /\ [][HNext]_<<vars, caught>> /\ Fairness

\* An adoption already in the log when a sweep stales its prediction, or rolls
\* it back, is never confirmed, however late the confirm sweep comes (for
\* cycles that are neither cancelled nor refused by the store).
LoggedContradictionSticks ==
    \A a \in 1..MaxAdoptions : caught[a] = "pending" => StateOf(a) # "confirmed"

\* The same for every adoption, as the docstring of
\* _resolve_pending_adoptions_for_predictions has it (engine.py:2692-2697):
\* "when a file_change / commit / category_shift signal stales a prediction
\* whose adoption was still pending, the outcome flips to stale".
ContradictionSticks ==
    \A a \in 1..MaxAdoptions : caught[a] # "no" => StateOf(a) # "confirmed"

================================================================================
