---------------------------- MODULE ExplorationLoop ----------------------------
(***************************************************************************)
(* The exploration phase of one precompute cycle (engine.py): it seeds the *)
(* frontier, a dispatcher pops scenarios and spawns a task for each, with  *)
(* a limit on those in flight, and the tasks explore them under a          *)
(* semaphore, push the branches the LLM proposes and charge the governor   *)
(* (intent/governor.py).                                                   *)
(*                                                                         *)
(* The state lock is never held across an await, so it never blocks: a     *)
(* step is the code between two awaits.  No task can raise (what it calls  *)
(* is guarded), and the short sleep of the dispatcher, taken when nothing  *)
(* is pending or in flight, only puts the end off.                         *)
(***************************************************************************)
EXTENDS Frontier, Sequences

CONSTANTS
    GraphSeeds,        \* ids that are seeded from the graph: not for the LLM
    Concurrency,       \* effective_concurrency
    Budget,            \* budget_units
    DeepThreshold,     \* deep_drill_threshold
    DepthBonus,        \* deep_drill_depth_bonus
    BreadthPercent,    \* _BREADTH_COVERAGE_THRESHOLD
    MaxPaths,          \* a merged ranking is cut to so many files
    MaxFollowOns       \* bound: branches proposed by one exploration

ASSUME LoopAssumption ==
    /\ GraphSeeds \subseteq Id
    /\ Concurrency \in Nat \ {0} /\ Budget \in Nat
    /\ DeepThreshold \in Nat /\ DepthBonus \in Nat /\ MaxFollowOns \in Nat
    /\ BreadthPercent \in 10..90 /\ MaxPaths \in Nat \ {0}

MaxInflight == IF Concurrency = 1 THEN 2 ELSE 2 * Concurrency
Slot == 1..MaxInflight

VARIABLES
    frontier,
    mode,           \* of the governor: "budget", or "background", which is also
                    \* "dedicated" and "deep_run" as long as no user request comes
    remaining,      \* _remaining_units
    userActive,     \* _user_request_active
    late,           \* cycle_deadline has passed
    phase,          \* of the dispatcher
    slots,          \* in_flight: one slot for each task in the list
    explorations,   \* how many this cycle has added to _last_explored_scenarios
    orphan          \* a task left behind by an earlier cycle has added its own

governor == <<mode, remaining, userActive>>
progress == <<explorations, orphan>>
vars == <<frontier, governor, late, phase, slots, progress>>

NoScenario == [id |-> "nothing"]
Free == [state |-> "free", scenario |-> NoScenario]
Task == [state : {"created", "exploring", "done"}, scenario : Scenario]

Phases == {"seeding", "looping", "waiting", "draining", "over", "cancelled"}
Ended == {"over", "cancelled"}

\* The dispatcher does not hold the event loop.
AtAwait == phase # "looping"

With(state) == {t \in Slot : slots[t].state = state}
ExploringEver == With("exploring") \cup With("done")    \* mutant: never released
Exploring == With("exploring")
Running == With("created") \cup Exploring
InFlight == {t \in Slot : slots[t] # Free}

\* _last_explored_scenarios is not empty.
SomethingExplored == explorations > 0 \/ orphan

ShouldContinue == IF mode = "budget" THEN remaining >= 1 ELSE ~userActive

Init ==
    /\ frontier = EmptyFrontier
    /\ mode \in {"budget", "background"}
    /\ remaining = Budget /\ userActive = FALSE
    /\ late = FALSE
    /\ phase = "seeding"
    /\ slots = [t \in Slot |-> Free]
    /\ explorations = 0 /\ orphan = FALSE

-----------------------------------------------------------------------------
(* The dispatcher: one turn of its loop, and the awaits it ends in.        *)

\* The seeders push whatever they find, at depth 0.
Seed(id, priority) ==
    /\ phase = "seeding"
    /\ frontier' = Push(frontier, [id |-> id, priority |-> priority, depth |-> 0,
                                   bonus |-> 0, llm |-> id \notin GraphSeeds])
    /\ UNCHANGED <<governor, late, phase, slots, progress>>

StartExploring ==
    /\ phase = "seeding"
    /\ phase' = "looping"
    /\ frontier' = [frontier EXCEPT !.cap = IF MaxDepth >= 1 THEN 1 ELSE MaxDepth]
    /\ UNCHANGED <<governor, late, slots, progress>>

GoesOn ==
    /\ ShouldContinue
    /\ ~Saturated(frontier)
    /\ ~(late /\ SomethingExplored)

\* pop() finds something, as something is pending (Bookkeeping): the branch
\* of the loop for an empty pop is never taken.
Dispatch ==
    /\ phase = "looping" /\ GoesOn
    /\ frontier' = AfterPop(frontier)
    /\ LET t == CHOOSE t \in Slot : slots[t] = Free
       IN  slots' = [slots EXCEPT ![t] = [state |-> "created", scenario |-> Popped(frontier)]]
    /\ phase' = IF Cardinality(InFlight) + 1 >= MaxInflight THEN "waiting" ELSE "looping"
    /\ UNCHANGED <<governor, late, progress>>

LeaveLoop ==
    /\ phase = "looping" /\ ~GoesOn
    /\ phase' = IF InFlight = {} THEN "over" ELSE "draining"
    /\ UNCHANGED <<frontier, governor, late, slots, progress>>

CollectAll ==    \* mutant: what is still running is forgotten
    /\ phase = "waiting" /\ With("done") # {}
    /\ slots' = [t \in Slot |-> Free]
    /\ phase' = "looping"
    /\ UNCHANGED <<frontier, governor, late, progress>>

\* asyncio.wait(..., FIRST_COMPLETED)
Collect ==
    /\ phase = "waiting" /\ With("done") # {}
    /\ slots' = [t \in Slot |-> IF t \in With("done") THEN Free ELSE slots[t]]
    /\ phase' = "looping"
    /\ UNCHANGED <<frontier, governor, late, progress>>

\* asyncio.gather(...)
Drained ==
    /\ phase = "draining" /\ Running = {}
    /\ slots' = [t \in Slot |-> Free]
    /\ phase' = "over"
    /\ UNCHANGED <<frontier, governor, late, progress>>

\* The worker cancels the cycle: wait leaves its tasks alone, gather cancels
\* them, and a task that is cancelled explores nothing.
Preempt ==
    /\ phase \in {"seeding", "waiting", "draining"}
    /\ phase' = "cancelled"
    /\ slots' = IF phase = "draining" THEN [t \in Slot |-> Free] ELSE slots
    /\ UNCHANGED <<frontier, governor, late, progress>>

-----------------------------------------------------------------------------
(* A task: _process_scenario, in two steps around its awaits.              *)

\* Under the semaphore: past the deadline the scenario is let go.
TaskStart(t) ==
    /\ AtAwait
    /\ slots[t].state = "created" /\ Cardinality(Exploring) < Concurrency
    /\ LET tooLate == late /\ (SomethingExplored \/ slots[t].scenario.llm)
       IN  slots' = [slots EXCEPT ![t].state = IF tooLate THEN "done" ELSE "exploring"]
    /\ UNCHANGED <<frontier, governor, late, phase, progress>>

Branch == [id : Id, priority : 0..MaxPriority]

\* The depth bonus of the scenarios a scenario proposes.
ChildBonus(s) ==
    IF s.priority >= DeepThreshold
    THEN IF s.bonus >= DepthBonus THEN s.bonus ELSE DepthBonus
    ELSE IF s.bonus > 0 THEN s.bonus - 1 ELSE 0

PushBranch(f, s, branch) ==
    Push(f, [id |-> branch.id, priority |-> branch.priority, depth |-> s.depth + 1,
             bonus |-> ChildBonus(s), llm |-> TRUE])

\* The frontier after pushing the branches proposed by s in turn.
PushAll(f, s, branches) ==
    LET after[i \in 0..Len(branches)] ==
            IF i = 0 THEN f ELSE PushBranch(after[i - 1], s, branches[i])
    IN  after[Len(branches)]

ChargeNothing == remaining    \* mutant: an exploration is free

ChargeBlindly == IF mode = "budget" THEN remaining - 1 ELSE remaining    \* mutant

\* iteration_done
Charge == IF mode = "budget" /\ remaining >= 1 THEN remaining - 1 ELSE remaining

\* The files an exploration ends with are those of the scenario or, once the LLM has
\* ranked some, what it ranked and then the scenario's, cut to MaxPaths: one of the
\* scenario's is missing only if the cut is full.
Evidence(s, files) ==
    \/ files = Files[s.id]
    \/ /\ s.llm /\ Cardinality(files) <= MaxPaths
       /\ Files[s.id] \subseteq files \/ Cardinality(files) = MaxPaths

\* The critical section at the end.  The LLM ranks files and proposes branches,
\* or fails and does neither; a scenario from the graph is explored without it.
TaskEnd(t, files, branches) ==
    /\ AtAwait
    /\ slots[t].state = "exploring"
    /\ LET s == slots[t].scenario
           explored == MarkExplored(PushAll(frontier, s, branches), s.id, files)
       IN  /\ Evidence(s, files)
           /\ s.llm \/ branches = <<>>
           /\ frontier' = [explored EXCEPT !.cap =
                              IF Covers(explored, BreadthPercent) THEN MaxDepth ELSE @]
    /\ slots' = [slots EXCEPT ![t].state = "done"]
    /\ remaining' = Charge
    /\ explorations' = explorations + 1
    /\ UNCHANGED <<mode, userActive, late, phase, orphan>>

-----------------------------------------------------------------------------
(* The world outside.                                                      *)

DeadlinePasses ==
    /\ phase # "over" /\ ~late /\ late' = TRUE
    /\ UNCHANGED <<frontier, governor, phase, slots, progress>>

\* A task of a cycle that was cancelled before ends: its frontier and governor
\* are not this cycle's, the list of explored scenarios is.
OrphanEnds ==
    /\ AtAwait /\ phase \notin Ended
    /\ ~orphan /\ orphan' = TRUE
    /\ UNCHANGED <<frontier, governor, late, phase, slots, explorations>>

\* notify_user_request_start, notify_user_request_end
UserRequest ==
    /\ AtAwait /\ phase \notin Ended /\ mode = "background"
    /\ userActive' = ~userActive
    /\ UNCHANGED <<frontier, mode, remaining, late, phase, slots, progress>>

-----------------------------------------------------------------------------
Branches == UNION {[1..n -> Branch] : n \in 0..MaxFollowOns}

Dispatcher == StartExploring \/ Dispatch \/ LeaveLoop \/ Collect \/ Drained

Tasks ==
    \E t \in Slot :
      \/ TaskStart(t)
      \/ \E files \in SUBSET File, branches \in Branches : TaskEnd(t, files, branches)

Next ==
    \/ \E id \in Id, priority \in 0..MaxPriority : Seed(id, priority)
    \/ Dispatcher
    \/ Tasks
    \/ Preempt \/ DeadlinePasses \/ UserRequest \/ OrphanEnds

\* The event loop runs what can run, and an exploration ends: the clients of
\* the LLM have timeouts.
Fairness == WF_vars(Dispatcher) /\ WF_vars(Tasks)

Spec == Init /\ [][Next]_vars /\ Fairness

-----------------------------------------------------------------------------
\* The frontier never outgrows its size, and has one scenario of each id.
TypeOK ==
    /\ frontier \in Frontiers
    /\ Cardinality(frontier.pending) <= MaxSize
    /\ \A s, r \in frontier.pending : s.id = r.id => s = r
    /\ mode \in {"budget", "background"}
    /\ remaining \in 0..Budget /\ userActive \in BOOLEAN /\ late \in BOOLEAN
    /\ phase \in Phases
    /\ slots \in [Slot -> Task \cup {Free}]
    /\ explorations \in Nat /\ orphan \in BOOLEAN

\* The three tables of the frontier agree, whatever was pushed, upgraded, popped
\* and marked: each pending scenario has exactly one entry that pop() will not
\* skip, with its priority, and the file sets are those of what is pending.
Bookkeeping ==
    /\ \A s \in frontier.pending : \E e \in Live(frontier) :
         /\ e.priority = s.priority
         /\ {d \in Live(frontier) : d.id = s.id} = {e}
    /\ frontier.fileSets = {Files[id] : id \in PendingIds(frontier)}
    /\ \A s, r \in frontier.pending : s # r => Files[s.id] # Files[r.id]

\* "Explored fingerprints (never re-enter)" (intent/frontier.py:198), though the
\* tasks push branches that others are exploring at the time.
NeverReenters == frontier.explored \cap PendingIds(frontier) = {}

\* A scenario that was admitted waits, is being explored or has been, until the
\* deadline passes or the cycle is cancelled.
NothingLost ==
    ~late /\ phase # "cancelled"
      => \A id \in Id : frontier.entry[id] > 0
           => \/ id \in PendingIds(frontier) \cup frontier.explored
              \/ \E t \in Running : slots[t].scenario.id = id

\* A scenario is explored again only by tasks that were at work on it, or waiting for
\* a permit, when the first one marked it: as often as may be in flight, and never
\* once more, however often it is proposed.
RepeatsBounded ==
    explorations <= MaxInflight * Cardinality(frontier.explored)

\* The dispatcher asks whether one unit is left and a task charges it when it is
\* done: the budget is overrun, but by less than what may be in flight.
BudgetKept ==
    mode = "budget" => explorations + Cardinality(Running) <= Budget + MaxInflight - 1

Waiting ==
    [id \in Id |-> IF id \in PendingIds(frontier) THEN Pending(frontier, id).priority ELSE -1]
Working == [t \in Slot |-> IF t \in Running THEN {slots[t].scenario.id} ELSE {}]
Abandoned == late \/ phase = "cancelled"

Queue == INSTANCE ExplorationQueue WITH
    Worker <- Slot, waiting <- Waiting, at <- Working,
    explored <- frontier.explored, abandoned <- Abandoned

\* Heap, tables, dispatcher and tasks together are a queue of scenarios that are
\* taken best first: none is dropped, lowered or let go before the deadline, and
\* none waits again once it has been explored (intent/frontier.py, push, pop and
\* mark_explored, called by _process_scenario of several tasks).
KeepsTheQueue == Queue!Spec

\* A cycle that is not seeded for ever ends, and so do the tasks it leaves behind.
CycleEnds == <>(phase # "seeding") => <>[](phase \in Ended /\ Running = {})

\* "The loop runs until the governor says to stop OR the frontier is saturated"
\* (engine.py:1583), up to the deadline; "When the frontier empties we still drain
\* in-flight tasks in case LLM branches push new work back onto the queue"
\* (engine.py:2405).
EndsSaturated ==
    phase = "over" /\ ShouldContinue /\ ~late => Saturated(frontier)

================================================================================
