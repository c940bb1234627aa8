------------------------- MODULE ExplorationLoopProofs -------------------------
(***************************************************************************)
(* Theorems about ExplorationLoop, for every instance of it: the budget of *)
(* an exploration is overrun by less than what may be in flight (what the  *)
(* frontier holds plays no part in that), the tables of the frontier agree *)
(* and nothing explored enters it again, nothing admitted is lost, nothing *)
(* is explored oftener than tasks may be in flight, and all of it together *)
(* is the queue of ExplorationQueue, which is taken best first.            *)
(***************************************************************************)
EXTENDS ExplorationLoop, FrontierProofs

-----------------------------------------------------------------------------
(* The budget.                                                             *)

States == {"free", "created", "exploring", "done"}

\* A slot holds a record; a free one holds nothing else.
Entry(e) ==
    /\ e = [state |-> e.state, scenario |-> e.scenario]
    /\ e.state \in States
    /\ e.state = "free" => e = Free

Typed ==
    /\ slots = [t \in Slot |-> slots[t]]
    /\ \A t \in Slot : Entry(slots[t])
    /\ remaining \in 0..Budget
    /\ explorations \in Nat
    /\ phase \in Phases

\* While the dispatcher runs there is a slot for the next task; before, no task.
RoomWhileLooping ==
    /\ phase = "looping" => Cardinality(InFlight) < MaxInflight
    /\ phase = "seeding" => InFlight = {}

\* Until the budget is used up, each exploration has been charged.
Accounted == mode = "budget" /\ remaining >= 1 => explorations = Budget - remaining

IInv == Typed /\ RoomWhileLooping /\ Accounted /\ BudgetKept

-----------------------------------------------------------------------------
\* There is a positive number of slots.
LEMMA InflightPositive == MaxInflight \in Nat /\ MaxInflight >= 2
BY LoopAssumption DEF MaxInflight

\* A set of slots is finite, and no larger than the number of slots.
LEMMA SlotSets ==
    ASSUME NEW S \in SUBSET Slot
    PROVE  /\ IsFiniteSet(S) /\ Cardinality(S) \in Nat
           /\ Cardinality(S) <= MaxInflight
           /\ Cardinality(S) = MaxInflight => S = Slot
<1>1. IsFiniteSet(Slot) /\ Cardinality(Slot) = MaxInflight
  BY InflightPositive, FS_Interval DEF Slot
<1> QED
  BY <1>1, FS_Subset, FS_CardinalityType

\* The running tasks and those in the list are sets of slots.
LEMMA RunningSlots == Running \in SUBSET Slot /\ InFlight \in SUBSET Slot
BY DEF Running, Exploring, With, InFlight

\* A slot that leaves a set lowers its size by one.
LEMMA OneLess ==
    ASSUME NEW S \in SUBSET Slot, NEW t \in S
    PROVE  Cardinality(S \ {t}) = Cardinality(S) - 1
BY SlotSets, FS_RemoveElement

\* The sizes of two sets of slots, one within the other.
LEMMA NoMore ==
    ASSUME NEW S \in SUBSET Slot, NEW T \in SUBSET S
    PROVE  Cardinality(T) <= Cardinality(S)
BY SlotSets, FS_Subset

\* The invariant holds at first: nothing runs and nothing has been charged.
LEMMA InitInvariant == Init => IInv
<1> SUFFICES ASSUME Init PROVE IInv
  OBVIOUS
<1>1. Typed
  BY LoopAssumption DEF Init, Typed, Entry, States, Free, Phases
<1>2. Running = {}
  BY DEF Init, Running, Exploring, With, Free
<1>3. BudgetKept
  BY <1>2, FS_EmptySet, InflightPositive, LoopAssumption DEF Init, BudgetKept
<1>4. InFlight = {}
  BY DEF Init, InFlight
<1> QED
  BY <1>1, <1>3, <1>4, LoopAssumption DEF Init, IInv, RoomWhileLooping, Accounted

\* A step that charges nothing and starts no task keeps the budget.
LEMMA FewerRunning ==
    ASSUME IInv, Running' \subseteq Running,
           UNCHANGED <<mode, remaining, explorations>>
    PROVE  Accounted' /\ BudgetKept'
<1>1. Cardinality(Running') \in Nat /\ Cardinality(Running) \in Nat
      /\ Cardinality(Running') <= Cardinality(Running)
  BY RunningSlots, NoMore, SlotSets
<1> QED
  BY <1>1, InflightPositive, LoopAssumption DEF IInv, Typed, Accounted, BudgetKept

\* The dispatcher finds a slot for the task it spawns.
LEMMA FreeSlot ==
    ASSUME IInv, phase = "looping"
    PROVE  LET t == CHOOSE t \in Slot : slots[t] = Free
           IN  t \in Slot /\ slots[t] = Free
<1>1. InFlight # Slot
  BY SlotSets, RunningSlots, InflightPositive, FS_Interval DEF IInv, RoomWhileLooping, Slot
<1> QED
  BY <1>1 DEF InFlight

\* Dispatch starts one task, as long as a unit of the budget is left.
LEMMA DispatchKeeps == IInv /\ Dispatch => IInv'
<1> SUFFICES ASSUME IInv, Dispatch PROVE IInv'
  OBVIOUS
<1> DEFINE t == CHOOSE t \in Slot : slots[t] = Free
<1>1. t \in Slot /\ slots[t] = Free
  BY FreeSlot DEF Dispatch
<1>2. slots' = [slots EXCEPT ![t] = [state |-> "created", scenario |-> Popped(frontier)]]
  BY DEF Dispatch
<1> HIDE DEF t
<1>3. Typed'
  <2>1. \A s \in Slot : s # t => slots'[s] = slots[s]
    BY <1>2 DEF IInv, Typed
  <2>2. slots'[t] = [state |-> "created", scenario |-> Popped(frontier)]
    BY <1>1, <1>2 DEF IInv, Typed
  <2>3. slots' = [s \in Slot |-> slots'[s]]
    BY <1>2 DEF IInv, Typed
  <2>4. \A s \in Slot : Entry(slots'[s])
    BY <2>1, <2>2 DEF IInv, Typed, Entry, States
  <2>5. remaining' = remaining /\ explorations' = explorations /\ phase' \in Phases
    BY DEF Dispatch, governor, progress, Phases
  <2> QED
    BY <2>3, <2>4, <2>5 DEF IInv, Typed
<1>4. InFlight' = InFlight \cup {t}
  BY <1>1, <1>2 DEF IInv, Typed, InFlight, Free
<1>5. t \notin InFlight
  BY <1>1 DEF InFlight
<1>6. Cardinality(InFlight') = Cardinality(InFlight) + 1
  BY <1>4, <1>5, SlotSets, RunningSlots, FS_AddElement
<1>7. RoomWhileLooping'
  BY <1>6, SlotSets, RunningSlots, InflightPositive DEF IInv, RoomWhileLooping, Dispatch
<1>8. Accounted'
  BY DEF IInv, Accounted, Dispatch, governor, progress
<1>9. BudgetKept'
  <2>1. Running' \in SUBSET Slot
    BY DEF Running, Exploring, With
  <2>2. Cardinality(Running') \in Nat /\ Cardinality(Running') <= MaxInflight
    BY <2>1, SlotSets
  <2>3. CASE mode = "budget"
    <3>1. remaining >= 1
      BY <2>3 DEF Dispatch, GoesOn, ShouldContinue
    <3>2. explorations <= Budget - 1
      BY <2>3, <3>1, LoopAssumption DEF IInv, Typed, Accounted
    <3> QED
      BY <2>2, <3>2, InflightPositive, LoopAssumption
         DEF BudgetKept, Dispatch, governor, progress, IInv, Typed
  <2> QED
    BY <2>3 DEF BudgetKept, Dispatch, governor
<1> QED
  BY <1>3, <1>7, <1>8, <1>9 DEF IInv

\* A task has been spawned by a dispatcher that is past the seeding.
LEMMA NotSeeding ==
    ASSUME IInv, NEW t \in Slot, slots[t].state # "free"
    PROVE  phase # "seeding"
BY DEF IInv, RoomWhileLooping, InFlight, Free

\* An exploration that ends is counted where a running task was.
LEMMA TaskEndKeeps ==
    ASSUME IInv, NEW t \in Slot, NEW files, NEW branches, TaskEnd(t, files, branches)
    PROVE  IInv'
<1>1. slots[t].state = "exploring" /\ slots' = [slots EXCEPT ![t].state = "done"]
  BY DEF TaskEnd
<1>2. phase' = phase /\ phase # "looping" /\ mode' = mode
      /\ explorations' = explorations + 1 /\ remaining' = Charge
  BY DEF TaskEnd, AtAwait
<1>3. Typed'
  <2>1. slots' = [s \in Slot |-> slots'[s]] /\ \A s \in Slot : Entry(slots'[s])
    BY <1>1 DEF IInv, Typed, Entry, States
  <2>2. remaining' \in 0..Budget /\ explorations' \in Nat
    BY <1>2, LoopAssumption DEF IInv, Typed, Charge
  <2> QED
    BY <1>2, <2>1, <2>2 DEF IInv, Typed
<1>4. RoomWhileLooping'
  BY <1>1, <1>2, NotSeeding DEF RoomWhileLooping
<1>5. Accounted'
  BY <1>2, LoopAssumption DEF IInv, Typed, Accounted, Charge
<1>6. BudgetKept'
  <2>1. Running' = Running \ {t} /\ t \in Running
    BY <1>1 DEF IInv, Typed, Entry, Running, Exploring, With
  <2>2. Cardinality(Running') = Cardinality(Running) - 1 /\ Cardinality(Running) \in Nat
    BY <2>1, OneLess, RunningSlots, SlotSets
  <2> QED
    BY <1>2, <2>2, InflightPositive, LoopAssumption DEF IInv, Typed, BudgetKept
<1> QED
  BY <1>3, <1>4, <1>5, <1>6 DEF IInv

\* A task that starts, or is let go, runs no more than before.
LEMMA TaskStartKeeps ==
    ASSUME IInv, NEW t \in Slot, TaskStart(t)
    PROVE  IInv'
<1>1. PICK state \in {"done", "exploring"} : slots' = [slots EXCEPT ![t].state = state]
  BY DEF TaskStart
<1>2. slots[t].state = "created" /\ phase' = phase /\ phase # "looping"
      /\ UNCHANGED <<mode, remaining, explorations>>
  BY DEF TaskStart, AtAwait, governor, progress
<1>3. Typed'
  <2>1. slots' = [s \in Slot |-> slots'[s]] /\ \A s \in Slot : Entry(slots'[s])
    BY <1>1, <1>2 DEF IInv, Typed, Entry, States
  <2> QED
    BY <1>2, <2>1 DEF IInv, Typed
<1>4. Running' \subseteq Running
  BY <1>1, <1>2 DEF IInv, Typed, Entry, Running, Exploring, With
<1> QED
  BY <1>2, <1>3, <1>4, FewerRunning, NotSeeding DEF IInv, RoomWhileLooping

\* Finished tasks leave the list, and make room in it.
LEMMA CollectKeeps == IInv /\ Collect => IInv'
<1> SUFFICES ASSUME IInv, Collect PROVE IInv'
  OBVIOUS
<1>1. slots' = [t \in Slot |-> IF t \in With("done") THEN Free ELSE slots[t]]
      /\ With("done") # {} /\ phase' = "looping"
      /\ UNCHANGED <<mode, remaining, explorations>>
  BY DEF Collect, governor, progress
<1>2. Typed'
  BY <1>1 DEF IInv, Typed, Entry, States, Free, Phases
<1>3. Running' \subseteq Running
  BY <1>1 DEF Running, Exploring, With, Free
<1>4. RoomWhileLooping'
  <2>1. PICK t \in Slot : slots[t].state = "done"
    BY <1>1 DEF With
  <2>2. InFlight' \in SUBSET Slot /\ t \notin InFlight'
    BY <1>1, <2>1 DEF InFlight, With
  <2>3. Cardinality(InFlight') # MaxInflight
    BY <2>2, SlotSets
  <2> QED
    BY <1>1, <2>2, <2>3, SlotSets, InflightPositive DEF RoomWhileLooping
<1> QED
  BY <1>1, <1>2, <1>3, <1>4, FewerRunning DEF IInv

\* The steps in which every task goes on as it was.
LEMMA SameSlotsKeeps ==
    ASSUME IInv, slots' = slots, phase' \in Phases,
           phase' = "looping" => phase = "looping" \/ InFlight = {},
           phase' = "seeding" => phase = "seeding",
           UNCHANGED <<mode, remaining, explorations>>
    PROVE  IInv'
<1>1. Typed'
  BY DEF IInv, Typed
<1>2. Running' = Running /\ InFlight' = InFlight
  BY DEF Running, Exploring, With, InFlight
<1>3. RoomWhileLooping'
  BY <1>2, FS_EmptySet, InflightPositive DEF IInv, RoomWhileLooping
<1> QED
  BY <1>1, <1>2, <1>3, FewerRunning DEF IInv

\* The steps that end the cycle and leave no task.
LEMMA NoSlotsKeeps ==
    ASSUME IInv, slots' = [t \in Slot |-> Free], phase' \in Phases \ {"looping", "seeding"},
           UNCHANGED <<mode, remaining, explorations>>
    PROVE  IInv'
<1>1. Typed'
  BY DEF IInv, Typed, Entry, States, Free
<1>2. Running' \subseteq Running
  BY DEF Running, Exploring, With, Free
<1> QED
  BY <1>1, <1>2, FewerRunning DEF IInv, RoomWhileLooping

-----------------------------------------------------------------------------
\* Every step keeps the invariant: one case for each action.
LEMMA StepInvariant == IInv /\ [Next]_vars => IInv'
<1> SUFFICES ASSUME IInv, [Next]_vars PROVE IInv'
  OBVIOUS
<1>1. CASE \E id \in Id, priority \in 0..MaxPriority : Seed(id, priority)
  BY <1>1, SameSlotsKeeps DEF Seed, governor, progress, IInv, Typed
<1>2. CASE StartExploring
  BY <1>2, SameSlotsKeeps
     DEF StartExploring, governor, progress, Phases, IInv, RoomWhileLooping
<1>3. CASE Dispatch
  BY <1>3, DispatchKeeps
<1>4. CASE LeaveLoop
  BY <1>4, SameSlotsKeeps DEF LeaveLoop, governor, progress, Phases
<1>5. CASE Collect
  BY <1>5, CollectKeeps
<1>6. CASE Drained
  BY <1>6, NoSlotsKeeps DEF Drained, governor, progress, Phases
<1>7. CASE Tasks
  BY <1>7, TaskStartKeeps, TaskEndKeeps DEF Tasks
<1>8. CASE Preempt
  <2>1. CASE phase = "draining"
    BY <1>8, <2>1, NoSlotsKeeps DEF Preempt, governor, progress, Phases
  <2>2. CASE phase # "draining"
    BY <1>8, <2>2, SameSlotsKeeps DEF Preempt, governor, progress, Phases
  <2> QED
    BY <2>1, <2>2
<1>9. CASE DeadlinePasses \/ UserRequest \/ OrphanEnds \/ UNCHANGED vars
  BY <1>9, SameSlotsKeeps
     DEF DeadlinePasses, UserRequest, OrphanEnds, vars, governor, progress, IInv, Typed
<1> QED
  BY <1>1, <1>2, <1>3, <1>4, <1>5, <1>6, <1>7, <1>8, <1>9 DEF Next, Dispatcher

\* However many tasks finish late, the explorations of a cycle, those in flight
\* included, exceed its budget by less than the limit on tasks in flight.
THEOREM BudgetOverrunBounded == Spec => []BudgetKept
<1>1. IInv => BudgetKept
  BY DEF IInv
<1> QED
  BY <1>1, InitInvariant, StepInvariant, PTL DEF Spec

-----------------------------------------------------------------------------
(* All the pushes of a task.                                               *)

\* g holds the frontier after each of the first n pushes.
Unrolled(f, s, branches, n, g) ==
    g = [i \in 0..n |-> IF i = 0 THEN f ELSE PushBranch(g[i - 1], s, branches[i])]

LEMMA PushAllDefined ==
    ASSUME NEW f, NEW s, NEW branches, Len(branches) \in Nat, NEW n \in 0..Len(branches)
    PROVE  \E g : Unrolled(f, s, branches, n, g)
<1> DEFINE Defined(k) == \E g : Unrolled(f, s, branches, k, g)
           S == {k \in 0..Len(branches) : ~Defined(k)}
<1> SUFFICES ASSUME S # {} PROVE FALSE
  OBVIOUS
<1>1. S \in SUBSET Nat
  OBVIOUS
<1>2. PICK m \in S : \A k \in S : m <= k
  <2> HIDE DEF S
  <2> QED
    BY <1>1, Least
<1>3. m \in 0..Len(branches) /\ ~Defined(m)
  OBVIOUS
<1>4. m # 0
  <2>1. [i \in 0..0 |-> f] = [i \in 0..0 |-> IF i = 0 THEN f
                               ELSE PushBranch([j \in 0..0 |-> f][i - 1], s, branches[i])]
    OBVIOUS
  <2>2. Defined(0)
    BY <2>1 DEF Unrolled
  <2> QED
    BY <1>3, <2>2
<1>5. m - 1 \in 0..Len(branches) /\ Defined(m - 1)
  <2>1. m - 1 \in 0..Len(branches)
    BY <1>3, <1>4
  <2>2. m - 1 \notin S
    <3> HIDE DEF S
    <3> QED
      BY <1>2, <1>3
  <2> HIDE DEF Defined
  <2> QED
    BY <2>1, <2>2
<1>6. PICK g : g = [i \in 0..(m - 1) |-> IF i = 0 THEN f
                                        ELSE PushBranch(g[i - 1], s, branches[i])]
  BY <1>5 DEF Unrolled
<1> DEFINE h == [i \in 0..m |-> IF i = m THEN PushBranch(g[m - 1], s, branches[m]) ELSE g[i]]
<1>7. \A i \in 0..m : h[i] = IF i = 0 THEN f ELSE PushBranch(h[i - 1], s, branches[i])
  <2> TAKE i \in 0..m
  <2>1. CASE i = m
    <3>1. h[i] = PushBranch(g[m - 1], s, branches[m])
      BY <2>1
    <3>2. h[m - 1] = g[m - 1]
      BY <1>3, <1>4
    <3> HIDE DEF h
    <3> QED
      BY <1>4, <2>1, <3>1, <3>2
  <2>2. CASE i # m
    <3>1. i \in 0..(m - 1) /\ h[i] = g[i]
      BY <1>3, <2>2
    <3>2. g[i] = IF i = 0 THEN f ELSE PushBranch(g[i - 1], s, branches[i])
      BY <1>6, <3>1
    <3>3. i # 0 => h[i - 1] = g[i - 1]
      BY <1>3, <3>1
    <3> HIDE DEF h
    <3> QED
      BY <3>1, <3>2, <3>3
  <2> QED
    BY <2>1, <2>2
<1>8. h = [i \in 0..m |-> IF i = 0 THEN f ELSE PushBranch(h[i - 1], s, branches[i])]
  <2>1. h = [i \in 0..m |-> h[i]]
    OBVIOUS
  <2> HIDE DEF h
  <2> QED
    BY <1>7, <2>1
<1> HIDE DEF h
<1> QED
  BY <1>3, <1>8 DEF Unrolled

\* Whatever a single push preserves holds after all of them.
LEMMA PushAllKeeps ==
    ASSUME NEW G, NEW f \in G, NEW s, NEW branches, Len(branches) \in Nat,
           \A g \in G : \A i \in 1..Len(branches) : PushBranch(g, s, branches[i]) \in G
    PROVE  PushAll(f, s, branches) \in G
<1> DEFINE n == Len(branches)
           after == CHOOSE g : Unrolled(f, s, branches, n, g)
           S == {i \in 0..n : after[i] \notin G}
<1>1. PushAll(f, s, branches) = after[n]
  BY DEF PushAll, Unrolled
<1>2. after = [i \in 0..n |-> IF i = 0 THEN f ELSE PushBranch(after[i - 1], s, branches[i])]
  <2>1. n \in 0..Len(branches)
    OBVIOUS
  <2>2. \E g : Unrolled(f, s, branches, n, g)
    BY <2>1, PushAllDefined
  <2>3. Unrolled(f, s, branches, n, after)
    BY <2>2
  <2> HIDE DEF n, after
  <2> QED
    BY <2>3 DEF Unrolled
<1> HIDE DEF after
<1>3. after[0] = f /\ \A i \in 1..n : after[i] = PushBranch(after[i - 1], s, branches[i])
  BY <1>2
<1>4. S = {}
  <2>0. SUFFICES ASSUME S # {} PROVE FALSE
    OBVIOUS
  <2>1. S \in SUBSET Nat
    OBVIOUS
  <2>2. PICK m \in S : \A k \in S : m <= k
    <3> HIDE DEF S
    <3> QED
      BY <2>0, <2>1, Least
  <2>3. m \in 1..n
    BY <1>3
  <2>4. after[m - 1] \in G
    BY <2>2, <2>3
  <2> QED
    BY <1>3, <2>3, <2>4
<1> QED
  BY <1>1, <1>4

\* What a push may do to the frontier f.
Grown(f, g) ==
    /\ Good(g)
    /\ PendingIds(f) \subseteq PendingIds(g) /\ g.explored = f.explored
    /\ NoneLowered(f, g)
    /\ \A id \in Id : id \in PendingIds(g) \/ g.entry[id] = f.entry[id]

LEMMA BranchScenario ==
    ASSUME NEW s \in Scenario, NEW branch \in Branch
    PROVE  [id |-> branch.id, priority |-> branch.priority, depth |-> s.depth + 1,
            bonus |-> ChildBonus(s), llm |-> TRUE] \in Scenario
<1>1. s.depth + 1 \in Nat /\ branch.id \in Id /\ branch.priority \in 0..MaxPriority
  BY DEF Scenario, Branch
<1>2. ChildBonus(s) \in Nat
  BY LoopAssumption DEF ChildBonus, Scenario
<1> QED
  BY <1>1, <1>2 DEF Scenario

LEMMA PushAllGrows ==
    ASSUME NEW f, Good(f), NEW s \in Scenario, NEW branches \in Branches
    PROVE  Grown(f, PushAll(f, s, branches))
<1> DEFINE G == {g \in Frontiers : Grown(f, g)}
<1>1. PICK n \in 0..MaxFollowOns : branches \in [1..n -> Branch]
  BY DEF Branches
<1>2. Len(branches) = n /\ n \in Nat
  <2>1. n \in Nat
    BY LoopAssumption
  <2> QED
    BY <1>1, <2>1
<1>3. f \in G
  BY NoneLoweredSame DEF Grown, Good, FieldsOK
<1>4. ASSUME NEW g \in G, NEW i \in 1..Len(branches)
      PROVE  PushBranch(g, s, branches[i]) \in G
  <2> DEFINE r == [id |-> branches[i].id, priority |-> branches[i].priority,
                   depth |-> s.depth + 1, bonus |-> ChildBonus(s), llm |-> TRUE]
  <2>1. branches[i] \in Branch
    BY <1>1, <1>2
  <2>2. r \in Scenario
    BY <2>1, BranchScenario
  <2>3. PushBranch(g, s, branches[i]) = Push(g, r)
    BY DEF PushBranch
  <2> HIDE DEF r
  <2>4. Grown(g, Push(g, r))
    BY <2>2, PushGood DEF Grown
  <2>5. NoneLowered(f, Push(g, r))
    BY <2>4, NoneLoweredTwice DEF Grown, Good
  <2>6. Grown(f, Push(g, r))
    BY <2>4, <2>5 DEF Grown
  <2> QED
    BY <2>3, <2>6 DEF Grown, Good, FieldsOK
<1> HIDE DEF G
<1>5. PushAll(f, s, branches) \in G
  BY <1>2, <1>3, <1>4, PushAllKeeps
<1> QED
  BY <1>5 DEF G

-----------------------------------------------------------------------------
(* The frontier within the loop.                                           *)

\* Of TypeOK, what IInv and Good do not say already.
TasksOK ==
    /\ slots \in [Slot -> Task \cup {Free}]
    /\ mode \in {"budget", "background"}
    /\ userActive \in BOOLEAN /\ late \in BOOLEAN /\ orphan \in BOOLEAN

LInv == IInv /\ Good(frontier) /\ TasksOK /\ NothingLost

LEMMA LInvTypes == LInv => TypeOK
BY DEF LInv, IInv, Typed, TasksOK, TypeOK, Good, FieldsOK, PendingOK

LEMMA LInvBooks == LInv => Bookkeeping
<1> SUFFICES ASSUME LInv PROVE Bookkeeping
  OBVIOUS
<1>1. \A s \in frontier.pending : \E e \in Live(frontier) :
         /\ e.priority = s.priority
         /\ {d \in Live(frontier) : d.id = s.id} = {e}
  BY LiveEntry DEF LInv
<1> QED
  BY <1>1 DEF LInv, Good, PendingOK, Bookkeeping

LEMMA InitLInv == Init => LInv
<1> SUFFICES ASSUME Init PROVE LInv
  OBVIOUS
<1>1. IInv
  BY InitInvariant
<1>2. Good(frontier)
  BY GoodEmpty DEF Init
<1>3. TasksOK
  BY DEF Init, TasksOK
<1>4. NothingLost
  BY DEF Init, NothingLost, EmptyFrontier
<1> QED
  BY <1>1, <1>2, <1>3, <1>4 DEF LInv

\* A step that only adds to the frontier, and leaves the tasks alone, loses nothing.
LEMMA GrownKeeps ==
    ASSUME LInv, IInv', Grown(frontier, frontier'),
           UNCHANGED <<slots, mode, userActive, late, orphan>>, phase # "cancelled"
    PROVE  LInv'
<1>1. Good(frontier') /\ TasksOK'
  BY DEF LInv, Grown, TasksOK
<1>2. Running' = Running
  BY DEF Running, Exploring, With
<1>3. NothingLost'
  BY <1>2 DEF LInv, NothingLost, Grown
<1> QED
  BY <1>1, <1>3 DEF LInv

LEMMA SeedKeepsAll ==
    ASSUME LInv, IInv', NEW id \in Id, NEW priority \in 0..MaxPriority, Seed(id, priority)
    PROVE  LInv'
<1> DEFINE s == [id |-> id, priority |-> priority, depth |-> 0, bonus |-> 0,
                 llm |-> id \notin GraphSeeds]
<1>1. s \in Scenario
  BY DEF Scenario
<1>2. frontier' = Push(frontier, s)
  BY DEF Seed
<1> HIDE DEF s
<1>3. Grown(frontier, frontier')
  BY <1>1, <1>2, PushGood DEF LInv, Grown
<1> QED
  BY <1>3, GrownKeeps DEF Seed, governor, progress

LEMMA StartKeepsAll == LInv /\ IInv' /\ StartExploring => LInv'
<1> SUFFICES ASSUME LInv, IInv', StartExploring PROVE LInv'
  OBVIOUS
<1> DEFINE cap == IF MaxDepth >= 1 THEN 1 ELSE MaxDepth
<1>1. cap \in 0..MaxDepth /\ frontier' = [frontier EXCEPT !.cap = cap]
  BY FrontierAssumption DEF StartExploring
<1> HIDE DEF cap
<1>2. NoneLowered(frontier, frontier')
  BY <1>1, CapGood, NoneLoweredSame DEF LInv, Good, NoneLowered
<1>3. Grown(frontier, frontier')
  BY <1>1, <1>2, CapGood DEF LInv, Grown
<1> QED
  BY <1>3, GrownKeeps DEF StartExploring, governor, progress

\* What is popped is what the new task explores.
LEMMA DispatchKeepsAll == LInv /\ IInv' /\ Dispatch => LInv'
<1> SUFFICES ASSUME LInv, IInv', Dispatch PROVE LInv'
  OBVIOUS
<1> DEFINE t == CHOOSE t \in Slot : slots[t] = Free
           s == Popped(frontier)
<1>1. t \in Slot /\ slots[t] = Free
  BY FreeSlot DEF Dispatch, LInv
<1>2. slots' = [slots EXCEPT ![t] = [state |-> "created", scenario |-> s]]
      /\ frontier' = AfterPop(frontier)
      /\ UNCHANGED <<mode, userActive, late, orphan>> /\ phase = "looping"
  BY DEF Dispatch, governor, progress
<1>3. frontier.pending # {}
  BY DEF Dispatch, GoesOn, Saturated
<1>4. s \in frontier.pending /\ s.id = Top(frontier).id
  BY <1>3, PoppedIsBest DEF LInv
<1>5. s \in Scenario
  BY <1>4 DEF LInv, Good, FieldsOK, Frontiers
<1> HIDE DEF t, s
<1>6. /\ Good(frontier') /\ PendingIds(frontier') = PendingIds(frontier) \ {s.id}
      /\ frontier'.explored = frontier.explored /\ frontier'.entry = frontier.entry
  BY <1>2, <1>3, <1>4, AfterPopGood DEF LInv
<1>7. TasksOK'
  BY <1>1, <1>2, <1>5 DEF LInv, TasksOK, Task
<1>8. NothingLost'
  <2>1. slots'[t].state = "created" /\ slots'[t].scenario.id = s.id /\ t \in Running'
    BY <1>1, <1>2 DEF LInv, TasksOK, Running, Exploring, With
  <2>2. \A r \in Running : r \in Running' /\ slots'[r] = slots[r]
    BY <1>1, <1>2 DEF LInv, TasksOK, Running, Exploring, With, Free
  <2> QED
    BY <1>2, <1>6, <2>1, <2>2 DEF LInv, NothingLost
<1> QED
  BY <1>6, <1>7, <1>8 DEF LInv

LEMMA TaskStartKeepsAll ==
    ASSUME LInv, IInv', NEW t \in Slot, TaskStart(t)
    PROVE  LInv'
<1>1. PICK state \in {"done", "exploring"} :
         slots' = [slots EXCEPT ![t].state = state] /\ (state = "done" => late)
  BY DEF TaskStart, LInv, TasksOK
<1>2. slots[t].state = "created" /\ UNCHANGED <<frontier, mode, userActive, late, phase, orphan>>
  BY DEF TaskStart, governor, progress
<1>3. slots[t] \in Task
  BY <1>2 DEF LInv, TasksOK, Free
<1>4. TasksOK'
  BY <1>1, <1>2, <1>3 DEF LInv, TasksOK, Task
<1>5. NothingLost'
  <2>1. CASE late
    BY <1>2, <2>1 DEF NothingLost
  <2>2. CASE ~late
    <3>1. \A r \in Running : r \in Running' /\ slots'[r].scenario = slots[r].scenario
      BY <1>1, <1>2, <1>3, <2>2 DEF LInv, TasksOK, Running, Exploring, With, Task
    <3> QED
      BY <1>2, <3>1 DEF LInv, NothingLost
  <2> QED
    BY <2>1, <2>2
<1> QED
  BY <1>2, <1>4, <1>5 DEF LInv

\* What the ended task explored is marked, and what it proposed is pushed.
LEMMA TaskEndKeepsAll ==
    ASSUME LInv, IInv', NEW t \in Slot, NEW files \in SUBSET File, NEW branches \in Branches,
           TaskEnd(t, files, branches)
    PROVE  LInv'
<1> DEFINE s == slots[t].scenario
           f == PushAll(frontier, s, branches)
           g == MarkExplored(f, s.id, files)
           cap == IF Covers(g, BreadthPercent) THEN MaxDepth ELSE g.cap
<1>1. slots[t].state = "exploring" /\ slots' = [slots EXCEPT ![t].state = "done"]
      /\ UNCHANGED <<mode, userActive, late, phase, orphan>>
      /\ frontier' = [g EXCEPT !.cap = cap]
  BY DEF TaskEnd
<1>2. slots[t] \in Task
  BY <1>1 DEF LInv, TasksOK, Free
<1>3. s \in Scenario /\ s.id \in Id
  BY <1>2, FrontierAssumption DEF Task, Scenario
<1>4. Grown(frontier, f)
  BY <1>3, PushAllGrows DEF LInv
<1> HIDE DEF f
<1>5. /\ Good(g) /\ PendingIds(g) = PendingIds(f) \ {s.id}
      /\ g.explored = f.explored \cup {s.id} /\ g.entry = f.entry
  BY <1>3, <1>4, MarkExploredGood DEF Grown
<1> HIDE DEF g
<1>6. cap \in 0..MaxDepth
  <2>1. g.cap \in 0..MaxDepth
    BY <1>5 DEF Good, FieldsOK, Frontiers
  <2> QED
    BY <2>1, FrontierAssumption
<1> HIDE DEF cap
<1>7. /\ Good(frontier') /\ PendingIds(frontier') = PendingIds(g)
      /\ frontier'.explored = g.explored /\ frontier'.entry = g.entry
  BY <1>1, <1>5, <1>6, CapGood
<1>8. TasksOK'
  BY <1>1, <1>2 DEF LInv, TasksOK, Task
<1>9. NothingLost'
  <2>1. \A r \in Running : r # t => r \in Running' /\ slots'[r] = slots[r]
    BY <1>1 DEF LInv, TasksOK, Running, Exploring, With
  <2>2. SUFFICES ASSUME ~late', phase' # "cancelled", NEW id \in Id, frontier'.entry[id] > 0
                 PROVE  \/ id \in PendingIds(frontier') \cup frontier'.explored
                        \/ \E r \in Running' : slots'[r].scenario.id = id
    BY DEF NothingLost
  <2>3. CASE id = s.id
    BY <1>5, <1>7, <2>3
  <2>4. CASE id # s.id /\ id \in PendingIds(f)
    BY <1>5, <1>7, <2>4
  <2>5. CASE id # s.id /\ id \notin PendingIds(f)
    <3>1. frontier.entry[id] > 0 /\ ~late /\ phase # "cancelled"
      BY <1>1, <1>4, <1>5, <1>7, <2>2, <2>5 DEF Grown
    <3>2. \/ id \in PendingIds(frontier) \cup frontier.explored
          \/ \E r \in Running : slots[r].scenario.id = id
      BY <3>1 DEF LInv, NothingLost
    <3>3. id \notin PendingIds(frontier)
      BY <1>4, <2>5 DEF Grown
    <3> QED
      BY <1>4, <1>5, <1>7, <2>1, <2>5, <3>2, <3>3 DEF Grown
  <2> QED
    BY <2>3, <2>4, <2>5
<1> QED
  BY <1>7, <1>8, <1>9 DEF LInv

\* The steps that leave the frontier and what runs alone.
LEMMA SameFrontierKeeps ==
    ASSUME LInv, IInv', TasksOK', frontier' = frontier, late => late',
           \/ phase' = "cancelled"
           \/ /\ phase # "cancelled"
              /\ \A r \in Running : r \in Running' /\ slots'[r] = slots[r]
    PROVE  LInv'
BY DEF LInv, NothingLost

LEMMA NextLInv == LInv /\ [Next]_vars => LInv'
<1> SUFFICES ASSUME LInv, [Next]_vars PROVE LInv'
  OBVIOUS
<1>0. IInv'
  BY StepInvariant DEF LInv
<1>1. CASE \E id \in Id, priority \in 0..MaxPriority : Seed(id, priority)
  BY <1>0, <1>1, SeedKeepsAll
<1>2. CASE StartExploring
  BY <1>0, <1>2, StartKeepsAll
<1>3. CASE Dispatch
  BY <1>0, <1>3, DispatchKeepsAll
<1>4. CASE LeaveLoop
  <2>1. TasksOK' /\ Running' = Running
    BY <1>4 DEF LInv, TasksOK, LeaveLoop, governor, progress, Running, Exploring, With
  <2> QED
    BY <1>0, <1>4, <2>1, SameFrontierKeeps DEF LeaveLoop
<1>5. CASE Collect
  <2>1. TasksOK'
    BY <1>5 DEF LInv, TasksOK, Collect, governor, progress
  <2>2. \A r \in Running : r \in Running' /\ slots'[r] = slots[r]
    BY <1>5 DEF Collect, Running, Exploring, With
  <2> QED
    BY <1>0, <1>5, <2>1, <2>2, SameFrontierKeeps DEF Collect
<1>6. CASE Drained
  <2>1. TasksOK'
    BY <1>6 DEF LInv, TasksOK, Drained, governor, progress
  <2> QED
    BY <1>0, <1>6, <2>1, SameFrontierKeeps DEF Drained
<1>7. CASE Tasks
  BY <1>0, <1>7, TaskStartKeepsAll, TaskEndKeepsAll DEF Tasks
<1>8. CASE Preempt
  <2>1. TasksOK'
    BY <1>8 DEF LInv, TasksOK, Preempt, governor, progress
  <2> QED
    BY <1>0, <1>8, <2>1, SameFrontierKeeps DEF Preempt
<1>9. CASE DeadlinePasses \/ UserRequest \/ OrphanEnds \/ UNCHANGED vars
  <2>1. TasksOK' /\ Running' = Running /\ slots' = slots /\ phase' = phase
        /\ frontier' = frontier /\ (late => late')
    BY <1>9 DEF LInv, TasksOK, DeadlinePasses, UserRequest, OrphanEnds, vars, governor,
                progress, Running, Exploring, With
  <2> QED
    BY <1>0, <2>1, SameFrontierKeeps
<1> QED
  BY <1>1, <1>2, <1>3, <1>4, <1>5, <1>6, <1>7, <1>8, <1>9 DEF Next, Dispatcher

\* The variables keep their types, and the frontier its bounds.
THEOREM TypeCorrect == Spec => []TypeOK
BY InitLInv, NextLInv, LInvTypes, PTL DEF Spec

\* Heap, pending table and file sets agree, however pushes, upgrades, pops and
\* marks of concurrent tasks interleave.
THEOREM TablesAgree == Spec => []Bookkeeping
BY InitLInv, NextLInv, LInvBooks, PTL DEF Spec

\* What has been explored is never pending again.
THEOREM ExploredOnce == Spec => []NeverReenters
<1>1. LInv => NeverReenters
  BY DEF LInv, Good, PendingOK, NeverReenters
<1> QED
  BY <1>1, InitLInv, NextLInv, PTL DEF Spec

\* What was admitted waits, runs or has been explored, until the deadline passes or
\* the cycle is cancelled.
THEOREM AdmittedIsKept == Spec => []NothingLost
<1>1. LInv => NothingLost
  BY DEF LInv
<1> QED
  BY <1>1, InitLInv, NextLInv, PTL DEF Spec

-----------------------------------------------------------------------------
(* How often a scenario is explored.                                       *)

\* The tasks at work on what another one has marked in the meantime.
Repeating == {t \in Running : slots[t].scenario.id \in frontier.explored}

\* What these will have explored by the time they are done is within the bound.
Repeats ==
    /\ IsFiniteSet(frontier.explored)
    /\ explorations + Cardinality(Repeating) <= MaxInflight * Cardinality(frontier.explored)

LEMMA RepeatsImplies == LInv /\ Repeats => RepeatsBounded
<1> SUFFICES ASSUME LInv, Repeats PROVE RepeatsBounded
  OBVIOUS
<1>1. Repeating \in SUBSET Slot
  BY RunningSlots DEF Repeating
<1>2. Cardinality(Repeating) \in Nat /\ explorations \in Nat
      /\ MaxInflight * Cardinality(frontier.explored) \in Nat
  BY <1>1, SlotSets, FS_CardinalityType, InflightPositive DEF Repeats, LInv, IInv, Typed
<1> QED
  BY <1>2 DEF Repeats, RepeatsBounded

LEMMA InitRepeats == Init => Repeats
<1> SUFFICES ASSUME Init PROVE Repeats
  OBVIOUS
<1>1. frontier.explored = {} /\ explorations = 0
  BY DEF Init, EmptyFrontier
<1>2. Repeating = {}
  BY <1>1 DEF Repeating
<1> QED
  BY <1>1, <1>2, FS_EmptySet, InflightPositive DEF Repeats

\* A step that marks nothing and starts nothing that is marked.
LEMMA FewerRepeating ==
    ASSUME LInv, Repeats, Repeating' \subseteq Repeating,
           frontier'.explored = frontier.explored, explorations' = explorations
    PROVE  Repeats'
<1>1. Repeating \in SUBSET Slot
  BY RunningSlots DEF Repeating
<1>2. Cardinality(Repeating') <= Cardinality(Repeating)
      /\ Cardinality(Repeating') \in Nat /\ Cardinality(Repeating) \in Nat
  BY <1>1, NoMore, SlotSets
<1>3. explorations \in Nat /\ MaxInflight * Cardinality(frontier.explored) \in Nat
  BY FS_CardinalityType, InflightPositive DEF Repeats, LInv, IInv, Typed
<1> QED
  BY <1>2, <1>3 DEF Repeats

\* What is dispatched was pending, and nothing pending has been explored.
LEMMA DispatchRepeats ==
    ASSUME LInv, Repeats, Dispatch
    PROVE  Repeats'
<1> DEFINE t == CHOOSE t \in Slot : slots[t] = Free
           s == Popped(frontier)
<1>1. t \in Slot /\ slots[t] = Free
  BY FreeSlot DEF Dispatch, LInv
<1>2. slots' = [slots EXCEPT ![t] = [state |-> "created", scenario |-> s]]
      /\ frontier' = AfterPop(frontier) /\ explorations' = explorations
      /\ frontier.pending # {}
  BY DEF Dispatch, progress, GoesOn, Saturated
<1>3. s \in frontier.pending /\ s.id = Top(frontier).id
  BY <1>2, PoppedIsBest DEF LInv
<1> HIDE DEF t, s
<1>4. frontier'.explored = frontier.explored
  BY <1>2, <1>3, AfterPopGood DEF LInv
<1>5. s.id \notin frontier.explored
  BY <1>3 DEF LInv, Good, PendingOK, PendingIds
<1>6. slots'[t].scenario = s /\ \A r \in Slot : r # t => slots'[r] = slots[r]
  BY <1>1, <1>2 DEF LInv, TasksOK
<1>7. Repeating' \subseteq Repeating
  BY <1>4, <1>5, <1>6 DEF Repeating, Running, Exploring, With
<1> QED
  BY <1>2, <1>4, <1>7, FewerRepeating

\* The first task that marks a scenario leaves fewer others at work on it than
\* there are slots; any other one was counted already.
LEMMA TaskEndRepeats ==
    ASSUME LInv, Repeats, NEW t \in Slot, NEW files \in SUBSET File,
           NEW branches \in Branches, TaskEnd(t, files, branches)
    PROVE  Repeats'
<1> DEFINE s == slots[t].scenario
           f == PushAll(frontier, s, branches)
           g == MarkExplored(f, s.id, files)
           cap == IF Covers(g, BreadthPercent) THEN MaxDepth ELSE g.cap
           M == MaxInflight
           n == Cardinality(frontier.explored)
<1>1. slots[t].state = "exploring" /\ slots' = [slots EXCEPT ![t].state = "done"]
      /\ explorations' = explorations + 1 /\ frontier' = [g EXCEPT !.cap = cap]
  BY DEF TaskEnd
<1>2. slots[t] \in Task
  BY <1>1 DEF LInv, TasksOK, Free
<1>3. s \in Scenario /\ s.id \in Id
  BY <1>2, FrontierAssumption DEF Task, Scenario
<1>4. frontier'.explored = frontier.explored \cup {s.id}
  <2>1. Good(f) /\ f.explored = frontier.explored
    BY <1>3, PushAllGrows DEF LInv, Grown
  <2> HIDE DEF f
  <2>2. Good(g) /\ g.explored = f.explored \cup {s.id}
    BY <1>3, <2>1, MarkExploredGood
  <2> HIDE DEF g
  <2> QED
    BY <1>1, <2>1, <2>2 DEF Good, FieldsOK, Frontiers
<1> HIDE DEF f, g, cap
<1>5. Running' = Running \ {t} /\ t \in Running
      /\ \A r \in Running' : slots'[r] = slots[r]
  BY <1>1 DEF LInv, TasksOK, Running, Exploring, With, Task
<1>6. Repeating \in SUBSET Slot /\ Repeating' \in SUBSET Slot
  BY <1>5, RunningSlots DEF Repeating
<1>7. /\ Cardinality(Repeating) \in Nat /\ Cardinality(Repeating') \in Nat
      /\ n \in Nat /\ explorations \in Nat /\ M \in Nat
      /\ explorations + Cardinality(Repeating) <= M * n
  BY <1>6, SlotSets, FS_CardinalityType, InflightPositive DEF Repeats, LInv, IInv, Typed
<1>8. IsFiniteSet(frontier'.explored)
      /\ Cardinality(frontier'.explored) = IF s.id \in frontier.explored THEN n ELSE n + 1
  <2> DEFINE E == frontier.explored
  <2>1. IsFiniteSet(E)
    BY DEF Repeats
  <2> HIDE DEF E
  <2>2. IsFiniteSet(E \cup {s.id})
        /\ Cardinality(E \cup {s.id}) = IF s.id \in E THEN Cardinality(E) ELSE Cardinality(E) + 1
    BY <2>1, FS_AddElement
  <2> QED
    BY <1>4, <2>2 DEF E
<1>9. CASE s.id \in frontier.explored
  <2>1. t \in Repeating /\ Repeating' = Repeating \ {t}
    BY <1>4, <1>5, <1>9 DEF Repeating
  <2>2. Cardinality(Repeating') = Cardinality(Repeating) - 1
    BY <1>6, <2>1, OneLess
  <2>3. frontier'.explored = frontier.explored
    BY <1>4, <1>9
  <2> QED
    BY <1>1, <1>7, <1>8, <2>2, <2>3 DEF Repeats
<1>10. CASE s.id \notin frontier.explored
  <2> DEFINE Others == Slot \ {t}
  <2>1. Repeating' \subseteq Repeating \cup Others
    BY <1>5, <1>6 DEF Repeating
  <2>2. Repeating \cup Others \in SUBSET Slot /\ Repeating \cap Others \in SUBSET Slot
        /\ Others \in SUBSET Slot
    BY <1>6
  <2>3. Cardinality(Others) = M - 1
    <3>1. Cardinality(Slot) = M
      BY InflightPositive, FS_Interval DEF Slot
    <3> QED
      BY <3>1, OneLess
  <2>4. Cardinality(Repeating \cup Others) <= Cardinality(Repeating) + (M - 1)
    <3>1. Cardinality(Repeating \cup Others)
            = Cardinality(Repeating) + Cardinality(Others) - Cardinality(Repeating \cap Others)
      BY <1>6, <2>2, SlotSets, FS_Union
    <3>2. Cardinality(Repeating \cap Others) \in Nat
      BY <2>2, SlotSets
    <3> QED
      BY <1>7, <2>3, <3>1, <3>2
  <2>5. Cardinality(Repeating') <= Cardinality(Repeating \cup Others)
        /\ Cardinality(Repeating \cup Others) \in Nat
    BY <2>1, <2>2, NoMore, SlotSets
  <2>6. M * (n + 1) = M * n + M /\ M * n \in Nat
    BY <1>7
  <2>7. explorations + 1 + Cardinality(Repeating') <= M * n + M
    BY <1>7, <2>4, <2>5, <2>6
  <2>8. Cardinality(frontier'.explored) = n + 1
    BY <1>8, <1>10
  <2> QED
    BY <1>1, <1>8, <2>6, <2>7, <2>8 DEF Repeats
<1> QED
  BY <1>9, <1>10

LEMMA NextRepeats == LInv /\ LInv' /\ Repeats /\ [Next]_vars => Repeats'
<1> SUFFICES ASSUME LInv, Repeats, [Next]_vars PROVE Repeats'
  OBVIOUS
<1>1. ASSUME NEW id \in Id, NEW priority \in 0..MaxPriority, Seed(id, priority)
      PROVE  Repeats'
  <2> DEFINE s == [id |-> id, priority |-> priority, depth |-> 0, bonus |-> 0,
                   llm |-> id \notin GraphSeeds]
  <2>1. s \in Scenario
    BY DEF Scenario
  <2>2. frontier' = Push(frontier, s) /\ UNCHANGED <<slots, explorations>>
    BY <1>1 DEF Seed, progress
  <2> HIDE DEF s
  <2>3. frontier'.explored = frontier.explored
    BY <2>1, <2>2, PushGood DEF LInv
  <2>4. Repeating' = Repeating
    BY <2>2, <2>3 DEF Repeating, Running, Exploring, With
  <2> QED
    BY <2>2, <2>3, <2>4, FewerRepeating
<1>2. CASE Dispatch
  BY <1>2, DispatchRepeats
<1>3. ASSUME NEW t \in Slot, TaskStart(t) PROVE Repeats'
  <2>1. PICK state \in {"done", "exploring"} : slots' = [slots EXCEPT ![t].state = state]
    BY <1>3 DEF TaskStart
  <2>2. slots[t].state = "created" /\ slots[t] \in Task /\ UNCHANGED <<frontier, explorations>>
    BY <1>3 DEF TaskStart, LInv, TasksOK, Free, progress
  <2>3. \A r \in Slot : slots'[r].scenario = slots[r].scenario
                       /\ (r # t => slots'[r] = slots[r])
    BY <2>1, <2>2 DEF LInv, TasksOK, Task
  <2>4. Repeating' \subseteq Repeating
    BY <2>2, <2>3 DEF Repeating, Running, Exploring, With
  <2> QED
    BY <2>2, <2>4, FewerRepeating
<1>4. ASSUME NEW t \in Slot, NEW files \in SUBSET File,
             NEW branches \in Branches, TaskEnd(t, files, branches)
      PROVE  Repeats'
  BY <1>4, TaskEndRepeats
<1>5. CASE StartExploring \/ LeaveLoop \/ Collect \/ Drained \/ Preempt \/ DeadlinePasses
           \/ UserRequest \/ OrphanEnds \/ UNCHANGED vars
  <2>1. frontier'.explored = frontier.explored /\ explorations' = explorations
    BY <1>5 DEF StartExploring, LeaveLoop, Collect, Drained, Preempt, DeadlinePasses,
                UserRequest, OrphanEnds, vars, progress, LInv, Good, FieldsOK, Frontiers
  <2>2. \A r \in Running' : r \in Running /\ slots'[r] = slots[r]
    BY <1>5 DEF StartExploring, LeaveLoop, Collect, Drained, Preempt, DeadlinePasses,
                UserRequest, OrphanEnds, vars, Running, Exploring, With, Free
  <2>3. Repeating' \subseteq Repeating
    BY <2>1, <2>2 DEF Repeating
  <2> QED
    BY <2>1, <2>3, FewerRepeating
<1> QED
  BY <1>1, <1>2, <1>3, <1>4, <1>5 DEF Next, Dispatcher, Tasks

\* However often the tasks propose a scenario, it is explored no oftener than tasks
\* may be in flight.
THEOREM RepeatsAreBounded == Spec => []RepeatsBounded
BY InitLInv, NextLInv, InitRepeats, NextRepeats, RepeatsImplies, PTL DEF Spec

-----------------------------------------------------------------------------
(* The queue.                                                              *)

LEMMA QueueVariables ==
    /\ Waiting = WaitingOf(frontier)
    /\ Waiting' = WaitingOf(frontier')
BY DEF Waiting, WaitingOf

\* What a slot is at, by its state.
LEMMA WorkingSlots ==
    \A t \in Slot : Working[t] = IF slots[t].state \in {"created", "exploring"}
                                THEN {slots[t].scenario.id} ELSE {}
BY DEF Working, Running, Exploring, With

LEMMA WorkingSlotsNext ==
    /\ \A t \in Slot : Working'[t] = IF slots'[t].state \in {"created", "exploring"}
                                    THEN {slots'[t].scenario.id} ELSE {}
    /\ Working' = [t \in Slot |-> Working'[t]] /\ Working = [t \in Slot |-> Working[t]]
BY DEF Working, Running, Exploring, With

\* A slot that is freed or finished, among others that go on.
LEMMA SomeLetGo ==
    ASSUME TasksOK, TasksOK',
           \A t \in Slot : slots'[t] = slots[t] \/ slots'[t].state \in {"free", "done"}
                          \/ (slots'[t].state = "exploring" /\ slots[t].state = "created"
                              /\ slots'[t].scenario = slots[t].scenario)
    PROVE  /\ Working' \in [Slot -> SUBSET Id]
           /\ \A t \in Slot : Working'[t] = {} \/ Working'[t] = Working[t]
<1>1. \A t \in Slot : Working'[t] = {} \/ Working'[t] = Working[t]
  BY WorkingSlots, WorkingSlotsNext
<1>2. ASSUME NEW t \in Slot, slots'[t].state \in {"created", "exploring"}
      PROVE  slots'[t].scenario.id \in Id
  <2>1. slots'[t] \in Task
    BY <1>2 DEF TasksOK, Free
  <2> QED
    BY <2>1 DEF Task, Scenario
<1>3. \A t \in Slot : Working'[t] \in SUBSET Id
  BY <1>2, WorkingSlotsNext
<1> QED
  BY <1>1, <1>3, WorkingSlotsNext

\* Where every slot goes on as it was, or was done and is freed, nothing changes.
LEMMA SameWorking ==
    ASSUME \A t \in Slot : \/ slots'[t] = slots[t]
                           \/ /\ slots[t].state \notin {"created", "exploring"}
                              /\ slots'[t].state \notin {"created", "exploring"}
    PROVE  Working' = Working
<1>1. \A t \in Slot : Working'[t] = Working[t]
  BY WorkingSlots, WorkingSlotsNext
<1> QED
  BY <1>1, WorkingSlotsNext

LEMMA InitQueue == Init => Queue!Init
<1> SUFFICES ASSUME Init PROVE Queue!Init
  OBVIOUS
<1>1. Waiting = [id \in Id |-> -1]
  BY DEF Init, Waiting, EmptyFrontier, PendingIds
<1>2. Working = [t \in Slot |-> {}]
  BY DEF Init, Working, Running, Exploring, With, Free
<1>3. frontier.explored = {} /\ Abandoned = FALSE
  BY DEF Init, EmptyFrontier, Abandoned
<1> QED
  BY <1>1, <1>2, <1>3 DEF Queue!Init, Queue!NotWaiting

\* A frontier that grows, and workers that go on, propose.
LEMMA GrownProposes ==
    ASSUME LInv, Grown(frontier, frontier'), slots' = slots, UNCHANGED Abandoned
    PROVE  Queue!Propose
<1>1. /\ WaitingOf(frontier') \in [Id -> -1..MaxPriority]
      /\ \A id \in Id : WaitingOf(frontier')[id] >= WaitingOf(frontier)[id]
      /\ \A id \in frontier'.explored : WaitingOf(frontier')[id] = -1
  BY WaitingValues, WaitsAsWell, ExploredDoesNotWait DEF LInv, Grown
<1>2. Working' = Working /\ frontier'.explored = frontier.explored
  BY SameWorking DEF Grown
<1> QED
  BY <1>1, <1>2, QueueVariables DEF Queue!Propose, Queue!Raised, Queue!NotWaiting

LEMMA DispatchTakes ==
    ASSUME LInv, LInv', Dispatch
    PROVE  \E t \in Slot, id \in Id : Queue!Take(t, id)
<1> DEFINE t == CHOOSE t \in Slot : slots[t] = Free
           s == Popped(frontier)
<1>1. t \in Slot /\ slots[t] = Free
  BY FreeSlot DEF Dispatch, LInv
<1>2. slots' = [slots EXCEPT ![t] = [state |-> "created", scenario |-> s]]
      /\ frontier' = AfterPop(frontier) /\ UNCHANGED Abandoned /\ frontier.pending # {}
  BY DEF Dispatch, Abandoned, GoesOn, Saturated
<1>3. /\ s \in frontier.pending /\ s.id = Top(frontier).id
      /\ \A r \in frontier.pending : r.priority <= s.priority
  BY <1>2, PoppedIsBest DEF LInv
<1> HIDE DEF t, s
<1>4. s.id \in Id /\ s.priority \in Nat /\ WaitingOf(frontier)[s.id] = s.priority
  BY <1>3, Priorities, WaitingValues DEF LInv, Good
<1>5. frontier'.pending = {r \in frontier.pending : r.id # s.id}
      /\ frontier'.explored = frontier.explored
  BY <1>2, <1>3, AfterPopGood DEF LInv
<1>6. WaitingOf(frontier') = [WaitingOf(frontier) EXCEPT ![s.id] = -1]
  BY <1>4, <1>5, WaitsWithout DEF LInv
<1>7. ASSUME NEW id \in Id PROVE WaitingOf(frontier)[id] <= WaitingOf(frontier)[s.id]
  <2>1. CASE id \in PendingIds(frontier)
    <3>1. PICK r \in frontier.pending : r.id = id
      BY <2>1 DEF PendingIds
    <3> QED
      BY <1>3, <1>4, <3>1, WaitingValues DEF LInv
  <2>2. CASE id \notin PendingIds(frontier)
    BY <1>4, <2>2, WaitingValues DEF LInv
  <2> QED
    BY <2>1, <2>2
<1>8. Working[t] = {} /\ Working' = [Working EXCEPT ![t] = {s.id}]
  <2>0. /\ slots[t].state = "free"
        /\ slots'[t].state = "created" /\ slots'[t].scenario = s
        /\ \A r \in Slot : r # t => slots'[r] = slots[r]
    BY <1>1, <1>2 DEF LInv, TasksOK, Free
  <2>1. \A r \in Slot : Working'[r] = IF r = t THEN {s.id} ELSE Working[r]
    BY <2>0, WorkingSlots, WorkingSlotsNext
  <2>2. Working[t] = {}
    BY <1>1, <2>0, WorkingSlots
  <2> QED
    BY <2>1, <2>2, WorkingSlotsNext
<1>9. Queue!Take(t, s.id)
  BY <1>2, <1>4, <1>5, <1>6, <1>7, <1>8, QueueVariables DEF Queue!Take, Queue!NotWaiting
<1> QED
  BY <1>1, <1>4, <1>9

LEMMA TaskEndFinishes ==
    ASSUME LInv, LInv', NEW t \in Slot, NEW files \in SUBSET File, NEW branches \in Branches,
           TaskEnd(t, files, branches)
    PROVE  \E id \in Id : Queue!Finish(t, id)
<1> DEFINE s == slots[t].scenario
           f == PushAll(frontier, s, branches)
           g == MarkExplored(f, s.id, files)
           cap == IF Covers(g, BreadthPercent) THEN MaxDepth ELSE g.cap
<1>1. slots[t].state = "exploring" /\ slots' = [slots EXCEPT ![t].state = "done"]
      /\ UNCHANGED Abandoned /\ frontier' = [g EXCEPT !.cap = cap]
  BY DEF TaskEnd, Abandoned
<1>2. slots[t] \in Task
  BY <1>1 DEF LInv, TasksOK, Free
<1>3. s \in Scenario /\ s.id \in Id
  BY <1>2, FrontierAssumption DEF Task, Scenario
<1>4. Grown(frontier, f)
  BY <1>3, PushAllGrows DEF LInv
<1> HIDE DEF f
<1>5. /\ Good(g) /\ g.explored = f.explored \cup {s.id}
      /\ g.pending = {p \in f.pending : p.id # s.id}
  BY <1>3, <1>4, MarkExploredGood DEF Grown
<1> HIDE DEF g
<1>6. cap \in 0..MaxDepth
  <2>1. g.cap \in 0..MaxDepth
    BY <1>5 DEF Good, FieldsOK, Frontiers
  <2> QED
    BY <2>1, FrontierAssumption
<1> HIDE DEF cap
<1>7. frontier'.pending = g.pending /\ frontier'.explored = g.explored
  BY <1>1, <1>5, <1>6, CapGood
<1>8. WaitingOf(frontier') = [WaitingOf(f) EXCEPT ![s.id] = -1]
  BY <1>3, <1>4, <1>5, <1>7, WaitsWithout DEF LInv, Grown
<1>9. \A id \in Id : WaitingOf(f)[id] >= WaitingOf(frontier)[id]
  BY <1>4, WaitsAsWell DEF LInv, Grown
<1>10. /\ WaitingOf(frontier') \in [Id -> -1..MaxPriority]
       /\ WaitingOf(f) \in [Id -> -1..MaxPriority]
       /\ \A id \in frontier'.explored : WaitingOf(frontier')[id] = -1
  BY <1>4, WaitingValues, ExploredDoesNotWait DEF LInv, Grown
<1>11. \A id \in Id \ {s.id} : WaitingOf(frontier')[id] >= WaitingOf(frontier)[id]
  BY <1>8, <1>9, <1>10
<1>12. frontier'.explored = frontier.explored \cup {s.id}
  BY <1>4, <1>5, <1>7 DEF Grown
<1>13. Working[t] = {s.id} /\ Working' = [Working EXCEPT ![t] = {}]
  <2>1. \A r \in Slot : Working'[r] = IF r = t THEN {} ELSE Working[r]
    BY <1>1, <1>2, WorkingSlots, WorkingSlotsNext DEF LInv, TasksOK, Task
  <2>2. Working[t] = {s.id}
    BY <1>1, WorkingSlots
  <2> QED
    BY <2>1, <2>2, WorkingSlotsNext
<1>14. Queue!Finish(t, s.id)
  BY <1>1, <1>10, <1>11, <1>12, <1>13, QueueVariables
     DEF Queue!Finish, Queue!Raised, Queue!NotWaiting
<1> QED
  BY <1>3, <1>14

\* A task that starts goes on; one that the deadline stops is let go.
LEMMA TaskStartLetsGo ==
    ASSUME LInv, LInv', NEW t \in Slot, TaskStart(t)
    PROVE  [Queue!Next]_(Queue!vars)
<1>1. PICK state \in {"done", "exploring"} :
         slots' = [slots EXCEPT ![t].state = state] /\ (state = "done" => late)
  BY DEF TaskStart, LInv, TasksOK
<1>2. /\ slots[t].state = "created" /\ slots[t] \in Task
      /\ UNCHANGED <<frontier, late, phase>>
  BY DEF TaskStart, LInv, TasksOK, Free
<1>3. slots' \in [Slot -> Task \cup {Free}]
      /\ slots'[t].state = state /\ slots'[t].scenario = slots[t].scenario
      /\ \A r \in Slot : r # t => slots'[r] = slots[r]
  BY <1>1, <1>2 DEF LInv, TasksOK, Task
<1>4. UNCHANGED <<Waiting, frontier.explored, Abandoned>>
  BY <1>2, QueueVariables DEF Abandoned
<1>5. CASE late
  <2>1. Working' \in [Slot -> SUBSET Id]
        /\ \A r \in Slot : Working'[r] = {} \/ Working'[r] = Working[r]
    BY <1>1, <1>2, <1>3, SomeLetGo DEF LInv
  <2>2. Abandoned' = TRUE
    BY <1>2, <1>5 DEF Abandoned
  <2> QED
    BY <1>4, <2>1, <2>2 DEF Queue!LetGo, Queue!Next
<1>6. CASE ~late
  <2>1. state = "exploring"
    BY <1>1, <1>6
  <2>2. \A r \in Slot : Working'[r] = Working[r]
    BY <1>2, <1>3, <2>1, WorkingSlots, WorkingSlotsNext
  <2>3. Working' = Working
    BY <2>2, WorkingSlotsNext
  <2> QED
    BY <1>4, <2>3 DEF Queue!vars
<1> QED
  BY <1>5, <1>6

LEMMA StepQueue == LInv /\ LInv' /\ [Next]_vars => [Queue!Next]_(Queue!vars)
<1> SUFFICES ASSUME LInv, LInv', [Next]_vars PROVE [Queue!Next]_(Queue!vars)
  OBVIOUS
<1>1. ASSUME NEW id \in Id, NEW priority \in 0..MaxPriority, Seed(id, priority)
      PROVE  [Queue!Next]_(Queue!vars)
  <2> DEFINE s == [id |-> id, priority |-> priority, depth |-> 0, bonus |-> 0,
                   llm |-> id \notin GraphSeeds]
  <2>1. s \in Scenario
    BY DEF Scenario
  <2>2. frontier' = Push(frontier, s) /\ slots' = slots /\ UNCHANGED Abandoned
    BY <1>1 DEF Seed, Abandoned
  <2> HIDE DEF s
  <2>3. Grown(frontier, frontier')
    BY <2>1, <2>2, PushGood DEF LInv, Grown
  <2> QED
    BY <2>2, <2>3, GrownProposes DEF Queue!Next
<1>2. CASE StartExploring
  <2> DEFINE cap == IF MaxDepth >= 1 THEN 1 ELSE MaxDepth
  <2>1. cap \in 0..MaxDepth /\ frontier' = [frontier EXCEPT !.cap = cap]
        /\ slots' = slots /\ UNCHANGED Abandoned
    BY <1>2, FrontierAssumption DEF StartExploring, Abandoned
  <2> HIDE DEF cap
  <2>2. NoneLowered(frontier, frontier')
    BY <2>1, CapGood, NoneLoweredSame DEF LInv, Good, NoneLowered
  <2>3. Grown(frontier, frontier')
    BY <2>1, <2>2, CapGood DEF LInv, Grown
  <2> QED
    BY <2>1, <2>3, GrownProposes DEF Queue!Next
<1>3. CASE Dispatch
  BY <1>3, DispatchTakes DEF Queue!Next
<1>4. CASE Tasks
  BY <1>4, TaskStartLetsGo, TaskEndFinishes DEF Tasks, Queue!Next
<1>5. CASE Preempt
  <2>1. Working' \in [Slot -> SUBSET Id]
        /\ \A r \in Slot : Working'[r] = {} \/ Working'[r] = Working[r]
    BY <1>5, SomeLetGo DEF Preempt, LInv, Free
  <2>2. Abandoned' = TRUE /\ UNCHANGED <<Waiting, frontier.explored>>
    BY <1>5, QueueVariables DEF Preempt, Abandoned
  <2> QED
    BY <2>1, <2>2 DEF Queue!LetGo, Queue!Next
<1>6. CASE DeadlinePasses
  <2>1. Working' \in [Slot -> SUBSET Id]
        /\ \A r \in Slot : Working'[r] = {} \/ Working'[r] = Working[r]
    BY <1>6, SomeLetGo DEF DeadlinePasses, LInv
  <2>2. Abandoned' = TRUE /\ UNCHANGED <<Waiting, frontier.explored>>
    BY <1>6, QueueVariables DEF DeadlinePasses, Abandoned
  <2> QED
    BY <2>1, <2>2 DEF Queue!LetGo, Queue!Next
<1>7. CASE LeaveLoop \/ Collect \/ Drained \/ UserRequest \/ OrphanEnds \/ UNCHANGED vars
  <2>1. Working' = Working
    BY <1>7, SameWorking DEF LeaveLoop, Collect, Drained, UserRequest, OrphanEnds, vars,
                             Running, Exploring, With, Free
  <2>2. UNCHANGED <<frontier, Abandoned>>
    BY <1>7 DEF LeaveLoop, Collect, Drained, UserRequest, OrphanEnds, vars, Abandoned
  <2> QED
    BY <2>1, <2>2, QueueVariables DEF Queue!vars
<1> QED
  BY <1>1, <1>2, <1>3, <1>4, <1>5, <1>6, <1>7 DEF Next, Dispatcher

\* The frontier, its dispatcher and any number of tasks implement the queue.
THEOREM ImplementsTheQueue == Spec => KeepsTheQueue
BY InitLInv, NextLInv, InitQueue, StepQueue, PTL DEF Spec, KeepsTheQueue, Queue!Spec

================================================================================
