---------------------------- MODULE DeepRunHistory ----------------------------
(***************************************************************************)
(* DeepRun with history variables: what the store has answered all through *)
(* a request, whether another request of its process held an older answer  *)
(* when it began, and the fallback calls posted in the current hour.       *)
(***************************************************************************)
EXTENDS DeepRun

VARIABLES
    steady,   \* the session in flight ever since a request began, if it is one
    rival,    \* another request of the process had read the store already
    posted,   \* fallback calls granted in this hour, by all proxies
    late      \* one of them had read the clock in another hour

historyVars == <<steady, rival, posted, late>>

Unsteady == -1

HInit == /\ Init
         /\ steady = [r \in Request |-> Unsteady]
         /\ rival = [r \in Request |-> FALSE]
         /\ posted = 0 /\ late = FALSE

Newest == CHOOSE s \in Session \cup {None} : IsNewest(s)
Begins(r) == pc[r] = "idle" /\ pc'[r] # "idle"
Rivals(r) == {q \in Request \ {r} : ProxyOf[q] = ProxyOf[r] /\ pc[q] = "publishing"}
Grants(r) == Reserve(r) /\ B!Grants(r)
Granted == \E r \in Request : Grants(r)
Late == \E r \in Request : Grants(r) /\ stamp[r] # now

HNext ==
    /\ Next
    /\ steady' = [r \in Request |->
                    IF pc'[r] = "idle" THEN Unsteady
                    ELSE IF Begins(r) THEN Newest'
                    ELSE IF steady[r] = Newest' THEN steady[r] ELSE Unsteady]
    /\ rival' = [r \in Request |->
                    IF pc'[r] = "idle" THEN FALSE
                    ELSE IF Begins(r) THEN Rivals(r) # {} ELSE rival[r]]
    /\ posted' = IF now' # now THEN 0 ELSE posted + (IF Granted THEN 1 ELSE 0)
    /\ late' = (now' = now /\ (late \/ Late))

HSpec == HInit /\ [][HNext]_<<vars, historyVars>>

\* When a request of an enriching proxy comes to its gates, they are those of the
\* session in flight, if that has been the same since the request began; only
\* another request that read the store before may have put older ones there.
GatesSeeTheSession ==
    \A r \in Request :
        /\ ProxyOf[r] \in Gateway /\ pc[r] \in {"primary", "fallback"}
        /\ steady[r] # Unsteady /\ ~rival[r]
        => gate[ProxyOf[r]].session = steady[r]

\* No more fallback calls are posted in an hour than the budget, by all proxies
\* together, crashes included: unless one that had waited for the lock since an
\* earlier hour was among them.
HourlyBudget == ~late => posted <= MaxPerHour

Counter == INSTANCE HourlyCounter WITH counter <- file, granted <- posted

\* File, lock and processes together are one counter that grants and counts in a
\* single step: every call posted is counted in the hour its caller read, those of
\* callers that waited for the lock across the turn of an hour included, and no
\* process that dies or stalls between two steps takes a count with it
\* (router/backends.py, _consume_remote_budget).
CountsEveryCall == Counter!Spec

==============================================================================
