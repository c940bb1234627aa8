--------------------------- MODULE ExplorationQueue ---------------------------
(***************************************************************************)
(* What frontier and dispatcher promise together: a queue of scenarios and *)
(* the workers that explore them, the best one first.  Here is no heap, no *)
(* file set, no depth and no budget, only what may happen to an id.        *)
(*                                                                         *)
(* What is being explored may be proposed and taken a second time: the     *)
(* promise is that it does not wait any more once it has been explored.    *)
(***************************************************************************)
EXTENDS Integers

CONSTANTS Id, Worker, MaxPriority

VARIABLES
    waiting,      \* the priority with which an id waits, or NotWaiting
    at,           \* what each worker is exploring: one id, or none
    explored,
    abandoned     \* the deadline has passed, or the cycle was cancelled

vars == <<waiting, at, explored, abandoned>>

NotWaiting == -1

Init ==
    /\ waiting = [id \in Id |-> NotWaiting]
    /\ at = [w \in Worker |-> {}]
    /\ explored = {}
    /\ abandoned = FALSE

\* Others than those in ids wait at least as well as before, and nothing that has
\* been explored does.
Raised(ids) ==
    /\ waiting' \in [Id -> NotWaiting..MaxPriority]
    /\ \A id \in Id \ ids : waiting'[id] >= waiting[id]
    /\ \A id \in explored' : waiting'[id] = NotWaiting

Propose == Raised({}) /\ UNCHANGED <<at, explored, abandoned>>

\* A worker takes one of the best.
Take(w, id) ==
    /\ at[w] = {} /\ waiting[id] # NotWaiting
    /\ \A other \in Id : waiting[other] <= waiting[id]
    /\ waiting' = [waiting EXCEPT ![id] = NotWaiting]
    /\ at' = [at EXCEPT ![w] = {id}]
    /\ UNCHANGED <<explored, abandoned>>

\* What has been explored proposes others; if it waited again, it waits no more.
Finish(w, id) ==
    /\ at[w] = {id}
    /\ explored' = explored \cup {id}
    /\ Raised({id})
    /\ at' = [at EXCEPT ![w] = {}]
    /\ UNCHANGED abandoned

\* Only a cycle that is abandoned, now or before, lets go of what it has taken.
LetGo ==
    /\ abandoned' = TRUE
    /\ at' \in [Worker -> SUBSET Id]
    /\ \A w \in Worker : at'[w] = {} \/ at'[w] = at[w]
    /\ UNCHANGED <<waiting, explored>>

Next ==
    \/ Propose \/ LetGo
    \/ \E w \in Worker, id \in Id : Take(w, id) \/ Finish(w, id)

Spec == Init /\ [][Next]_vars
===============================================================================
