------------------------------ MODULE MCDeepRun ------------------------------
(* A resident engine and a command start and stop the sessions; two requests *)
(* of an enriching proxy race with each other, and one of a proxy that only  *)
(* forwards shares the hourly budget with them.  A behaviour has some of the *)
(* five callers: every race here is between two or three.                    *)
EXTENDS DeepRunHistory, TLC

CONSTANTS d, c, r1, r2, r3, p1, p2

MCProxyOf == r1 :> p1 @@ r2 :> p1 @@ r3 :> p2
MCPolicies == {[localOnly |-> FALSE, cap |-> 1], [localOnly |-> TRUE, cap |-> 1]}

VARIABLE callers

Traffic == {{d, c}, {c, r1, r2}, {r1, r2, r3}}

MCInit ==
    /\ HInit /\ callers \in Traffic
    /\ c \in callers => file = B!Corrupt     \* the budget is met in the third

MCNext ==
    /\ HNext
    /\ \A x \in Call \ callers : pc'[x] = "idle"
    /\ UNCHANGED callers

MCSpec == MCInit /\ [][MCNext]_<<vars, historyVars, callers>>
==============================================================================
