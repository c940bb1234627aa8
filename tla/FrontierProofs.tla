---------------------------- MODULE FrontierProofs ----------------------------
(***************************************************************************)
(* The methods of the frontier keep its tables in step, for any scenarios, *)
(* file sets and bounds, and its heap has a top as long as something is    *)
(* pending.                                                                *)
(***************************************************************************)
EXTENDS Frontier, FiniteSetTheorems, WellFoundedInduction, TLAPS

-----------------------------------------------------------------------------
(* Least numbers.                                                          *)

\* Intervals are ordered as their ends are.
LEMMA Intervals ==
    ASSUME NEW i \in Nat, NEW j \in Nat, j < i
    PROVE  (0..j) \subseteq (0..i) /\ (0..j) # (0..i)
<1>1. i \in 0..i /\ i \notin 0..j
  OBVIOUS
<1> QED
  BY <1>1

\* Every non-empty set of natural numbers has a least element.
LEMMA Least ==
    ASSUME NEW S \in SUBSET Nat, S # {}
    PROVE  \E m \in S : \A k \in S : m <= k
<1> DEFINE R == StrictSubsetOrdering(Nat)
           T == {0..i : i \in S}
<1>1. IsWellFoundedOn(R, FiniteSubsetsOf(Nat))
  BY FS_StrictSubsetOrderingWellFounded
<1>2. T \subseteq FiniteSubsetsOf(Nat)
  <2>1. \A i \in S : IsFiniteSet(0..i) /\ (0..i) \in SUBSET Nat
    BY FS_Interval
  <2> QED
    BY <2>1 DEF FiniteSubsetsOf
<1>3. T # {}
  OBVIOUS
<1>4. \E x \in T : \A y \in T : <<y, x>> \notin R
  <2> HIDE DEF R, T
  <2> QED
    BY <1>1, <1>2, <1>3, WFMin
<1>5. PICK x \in T : \A y \in T : <<y, x>> \notin R
  BY <1>4
<1>6. PICK m \in S : x = 0..m
  OBVIOUS
<1>7. ASSUME NEW k \in S PROVE m <= k
  <2> SUFFICES ASSUME k < m PROVE FALSE
    OBVIOUS
  <2>1. (0..k) \subseteq (0..m) /\ (0..k) # (0..m)
    BY Intervals
  <2>2. (0..k) \in SUBSET Nat /\ (0..m) \in SUBSET Nat
    OBVIOUS
  <2>3. <<0..k, 0..m>> \in R
    BY <2>1, <2>2 DEF StrictSubsetOrdering
  <2> QED
    BY <1>5, <1>6, <2>3
<1> QED
  BY <1>7

-----------------------------------------------------------------------------
(* What every method preserves.                                            *)

\* The fields have their types, and no more is pending than may be.
FieldsOK(f) ==
    /\ f \in Frontiers
    /\ IsFiniteSet(f.pending) /\ Cardinality(f.pending) <= MaxSize

\* Ids and file sets name what is pending, and nothing explored is.
PendingOK(f) ==
    /\ \A s, r \in f.pending : s.id = r.id => s = r
    /\ \A s, r \in f.pending : s # r => Files[s.id] # Files[r.id]
    /\ f.fileSets = {Files[id] : id \in PendingIds(f)}
    /\ f.explored \cap PendingIds(f) = {}

\* A counter names one entry of the heap, and what is pending has the entry of
\* its last push there.
HeapOK(f) ==
    /\ \A e \in f.heap : e.counter <= f.pushes
    /\ \A e, d \in f.heap : e.counter = d.counter => e = d
    /\ \A s \in f.pending : \E e \in f.heap :
         e.id = s.id /\ e.counter = f.entry[s.id] /\ e.priority = s.priority

Good(f) == FieldsOK(f) /\ PendingOK(f) /\ HeapOK(f)

\* What is pending in f is so in g, with the same priority or a higher one.
NoneLowered(f, g) ==
    \A s \in f.pending : \E r \in g.pending : r.id = s.id /\ r.priority >= s.priority

\* Priorities are numbers.
LEMMA Priorities ==
    ASSUME NEW f, FieldsOK(f), NEW s \in f.pending
    PROVE  s.id \in Id /\ s.priority \in 0..MaxPriority /\ s.priority \in Nat
<1>1. s \in Scenario
  BY DEF FieldsOK, Frontiers
<1> QED
  BY <1>1, FrontierAssumption DEF Scenario

LEMMA NoneLoweredSame == ASSUME NEW f, FieldsOK(f) PROVE NoneLowered(f, f)
BY Priorities DEF NoneLowered

LEMMA NoneLoweredTwice ==
    ASSUME NEW f, NEW g, NEW h, FieldsOK(f), FieldsOK(g), FieldsOK(h),
           NoneLowered(f, g), NoneLowered(g, h)
    PROVE  NoneLowered(f, h)
<1> SUFFICES ASSUME NEW s \in f.pending
             PROVE  \E r \in h.pending : r.id = s.id /\ r.priority >= s.priority
  BY DEF NoneLowered
<1>1. PICK q \in g.pending : q.id = s.id /\ q.priority >= s.priority
  BY DEF NoneLowered
<1>2. PICK r \in h.pending : r.id = q.id /\ r.priority >= q.priority
  BY DEF NoneLowered
<1>3. s.priority \in Nat /\ q.priority \in Nat /\ r.priority \in Nat
  BY Priorities
<1> QED
  BY <1>1, <1>2, <1>3

LEMMA GoodEmpty == Good(EmptyFrontier)
<1>1. EmptyFrontier \in Frontiers
  BY FrontierAssumption DEF EmptyFrontier, Frontiers
<1>2. IsFiniteSet({}) /\ Cardinality({}) = 0
  BY FS_EmptySet
<1> QED
  BY <1>1, <1>2, FrontierAssumption
     DEF EmptyFrontier, Good, FieldsOK, PendingOK, HeapOK, PendingIds

\* The one scenario an id names among the pending.
LEMMA PendingOf ==
    ASSUME NEW f, Good(f), NEW s \in f.pending
    PROVE  Pending(f, s.id) = s
BY DEF Pending, Good, PendingOK

\* The live entry of what is pending.
LEMMA LiveEntry ==
    ASSUME NEW f, Good(f), NEW s \in f.pending
    PROVE  \E e \in Live(f) :
             /\ e.id = s.id /\ e.counter = f.entry[s.id] /\ e.priority = s.priority
             /\ {d \in Live(f) : d.id = s.id} = {e}
<1>1. PICK e \in f.heap : e.id = s.id /\ e.counter = f.entry[s.id] /\ e.priority = s.priority
  BY DEF Good, HeapOK
<1>2. e \in Live(f)
  BY <1>1 DEF Live, Good, PendingOK, PendingIds
<1>3. ASSUME NEW d \in Live(f), d.id = s.id PROVE d = e
  BY <1>1, <1>3 DEF Live, Good, HeapOK
<1> QED
  BY <1>1, <1>2, <1>3

\* A live entry is the entry of a pending scenario, and has its priority.
LEMMA LiveScenario ==
    ASSUME NEW f, Good(f), NEW e \in Live(f)
    PROVE  \E s \in f.pending : s.id = e.id /\ s.priority = e.priority
<1>1. PICK s \in f.pending : s.id = e.id
  BY DEF Live, PendingIds
<1>2. PICK d \in Live(f) : d.priority = s.priority /\ {x \in Live(f) : x.id = s.id} = {d}
  BY LiveEntry
<1> QED
  BY <1>1, <1>2

\* As long as something is pending, the heap has a top.
LEMMA TopExists ==
    ASSUME NEW f, Good(f), f.pending # {}
    PROVE  Top(f) \in Live(f) /\ \A e \in Live(f) \ {Top(f)} : Before(Top(f), e)
<1>0. \A e \in Live(f) : /\ e \in HeapEntry /\ e.priority \in 0..MaxPriority
                        /\ e.counter \in Nat /\ MaxPriority - e.priority \in Nat
  <2>1. Live(f) \subseteq HeapEntry
    BY DEF Live, Good, FieldsOK, Frontiers
  <2> QED
    BY <2>1, FrontierAssumption DEF HeapEntry
<1>1. Live(f) # {}
  BY LiveEntry
<1>2. PICK best \in Live(f) : \A e \in Live(f) : e.priority <= best.priority
  <2> DEFINE S == {MaxPriority - e.priority : e \in Live(f)}
  <2>1. S \in SUBSET Nat /\ S # {}
    BY <1>0, <1>1
  <2> HIDE DEF S
  <2>2. PICK m \in S : \A k \in S : m <= k
    BY <2>1, Least
  <2>3. PICK b \in Live(f) : m = MaxPriority - b.priority
    BY DEF S
  <2>4. ASSUME NEW e \in Live(f) PROVE e.priority <= b.priority
    <3>1. m <= MaxPriority - e.priority
      BY <2>2 DEF S
    <3> QED
      BY <1>0, <2>3, <3>1, FrontierAssumption
  <2> QED
    BY <2>4
<1>3. PICK top \in Live(f) : /\ top.priority = best.priority
                            /\ \A e \in Live(f) : e.priority = best.priority
                                 => top.counter <= e.counter
  <2> DEFINE S == {e.counter : e \in {x \in Live(f) : x.priority = best.priority}}
  <2>1. S \in SUBSET Nat /\ S # {}
    BY <1>0
  <2> HIDE DEF S
  <2>2. PICK m \in S : \A k \in S : m <= k
    BY <2>1, Least
  <2> QED
    BY <2>2 DEF S
<1>4. ASSUME NEW e \in Live(f) \ {top} PROVE Before(top, e)
  <2>1. e.counter # top.counter
    BY DEF Live, Good, HeapOK
  <2> QED
    BY <1>0, <1>2, <1>3, <2>1 DEF Before
<1> QED
  BY <1>4 DEF Top

\* pop() returns the pending scenario of the top, and none has a higher priority.
LEMMA PoppedIsBest ==
    ASSUME NEW f, Good(f), f.pending # {}
    PROVE  /\ Popped(f) \in f.pending /\ Popped(f).id = Top(f).id
           /\ \A s \in f.pending : s.priority <= Popped(f).priority
<1>1. Top(f) \in Live(f) /\ \A e \in Live(f) \ {Top(f)} : Before(Top(f), e)
  BY TopExists
<1>2. PICK best \in f.pending : best.id = Top(f).id /\ best.priority = Top(f).priority
  BY <1>1, LiveScenario
<1>3. Popped(f) = best
  BY <1>2, PendingOf DEF Popped
<1>4. ASSUME NEW s \in f.pending PROVE s.priority <= best.priority
  <2>1. PICK e \in Live(f) : e.priority = s.priority
    BY LiveEntry
  <2>2. s \in Scenario /\ best \in Scenario
    BY DEF Good, FieldsOK, Frontiers
  <2>3. s.priority \in Nat /\ best.priority \in Nat
    BY <2>2, FrontierAssumption DEF Scenario
  <2> QED
    BY <1>1, <1>2, <2>1, <2>3 DEF Before
<1> QED
  BY <1>2, <1>3, <1>4

\* With which priority an id is pending.
WaitingOf(f) ==
    [id \in Id |-> IF id \in PendingIds(f) THEN Pending(f, id).priority ELSE -1]

LEMMA WaitingValues ==
    ASSUME NEW f, Good(f)
    PROVE  /\ WaitingOf(f) \in [Id -> -1..MaxPriority]
           /\ \A s \in f.pending : s.id \in Id /\ WaitingOf(f)[s.id] = s.priority
           /\ \A id \in Id : id \notin PendingIds(f) => WaitingOf(f)[id] = -1
<1>1. \A s \in f.pending : s.id \in Id /\ WaitingOf(f)[s.id] = s.priority
  <2> TAKE s \in f.pending
  <2>1. s.id \in PendingIds(f) /\ s.id \in Id
    BY Priorities DEF PendingIds, Good
  <2> QED
    BY <2>1, PendingOf DEF WaitingOf
<1>2. \A id \in Id : id \notin PendingIds(f) => WaitingOf(f)[id] = -1
  BY DEF WaitingOf
<1>3. ASSUME NEW id \in Id PROVE WaitingOf(f)[id] \in -1..MaxPriority
  <2>1. CASE id \in PendingIds(f)
    <3>1. PICK s \in f.pending : s.id = id
      BY <2>1 DEF PendingIds
    <3> QED
      BY <1>1, <3>1, Priorities, FrontierAssumption DEF Good
  <2>2. CASE id \notin PendingIds(f)
    BY <1>2, <2>2, FrontierAssumption
  <2> QED
    BY <2>1, <2>2
<1>4. WaitingOf(f) = [id \in Id |-> WaitingOf(f)[id]]
  BY DEF WaitingOf
<1> QED
  BY <1>1, <1>2, <1>3, <1>4

\* Nothing that has been explored waits.
LEMMA ExploredDoesNotWait ==
    ASSUME NEW f, Good(f)
    PROVE  \A id \in f.explored : WaitingOf(f)[id] = -1
<1>1. \A id \in f.explored : id \in Id /\ id \notin PendingIds(f)
  BY DEF Good, FieldsOK, Frontiers, PendingOK
<1> QED
  BY <1>1, WaitingValues

\* What is not lowered waits at least as well as before.
LEMMA WaitsAsWell ==
    ASSUME NEW f, NEW g, Good(f), Good(g), NoneLowered(f, g)
    PROVE  \A id \in Id : WaitingOf(g)[id] >= WaitingOf(f)[id]
<1> TAKE id \in Id
<1>1. CASE id \in PendingIds(f)
  <2>1. PICK s \in f.pending : s.id = id
    BY <1>1 DEF PendingIds
  <2>2. PICK r \in g.pending : r.id = s.id /\ r.priority >= s.priority
    BY DEF NoneLowered
  <2> QED
    BY <2>1, <2>2, WaitingValues
<1>2. CASE id \notin PendingIds(f)
  <2>1. WaitingOf(f)[id] = -1 /\ WaitingOf(g)[id] \in -1..MaxPriority
    BY <1>2, WaitingValues
  <2> QED
    BY <2>1, FrontierAssumption
<1> QED
  BY <1>1, <1>2

\* What is taken out waits no more, and the others as before.
LEMMA WaitsWithout ==
    ASSUME NEW f, NEW g, Good(f), Good(g), NEW gone \in Id,
           g.pending = {s \in f.pending : s.id # gone}
    PROVE  WaitingOf(g) = [WaitingOf(f) EXCEPT ![gone] = -1]
<1>1. ASSUME NEW id \in Id
      PROVE  WaitingOf(g)[id] = IF id = gone THEN -1 ELSE WaitingOf(f)[id]
  <2>1. CASE id \notin PendingIds(g)
    <3>1. id = gone \/ id \notin PendingIds(f)
      BY <2>1 DEF PendingIds
    <3> QED
      BY <2>1, <3>1, WaitingValues
  <2>2. CASE id \in PendingIds(g)
    <3>1. PICK s \in g.pending : s.id = id
      BY <2>2 DEF PendingIds
    <3>2. s \in f.pending /\ id # gone
      BY <3>1
    <3> QED
      BY <3>1, <3>2, WaitingValues
  <2> QED
    BY <2>1, <2>2
<1>2. /\ WaitingOf(f) = [id \in Id |-> WaitingOf(f)[id]]
      /\ WaitingOf(g) = [id \in Id |-> WaitingOf(g)[id]]
  BY DEF WaitingOf
<1> HIDE DEF WaitingOf
<1> QED
  BY <1>1, <1>2

-----------------------------------------------------------------------------
(* push                                                                    *)

\* Queued, field by field.
LEMMA QueuedFields ==
    ASSUME NEW f \in Frontiers, NEW s \in Scenario
    PROVE  LET g == Queued(f, s)
           IN  /\ g \in Frontiers
               /\ g.pending = {p \in f.pending : p.id # s.id} \cup {s}
               /\ g.heap = f.heap \cup {[id |-> s.id, priority |-> s.priority,
                                        counter |-> f.pushes + 1]}
               /\ g.entry = [f.entry EXCEPT ![s.id] = f.pushes + 1]
               /\ g.pushes = f.pushes + 1
               /\ g.fileSets = f.fileSets /\ g.explored = f.explored
               /\ g.covered = f.covered /\ g.cap = f.cap
<1> DEFINE g == Queued(f, s)
           e == [id |-> s.id, priority |-> s.priority, counter |-> f.pushes + 1]
<1>1. /\ f.pending \in SUBSET Scenario /\ f.fileSets \in SUBSET SUBSET File
      /\ f.heap \in SUBSET HeapEntry /\ f.entry \in [Id -> Nat] /\ f.pushes \in Nat
      /\ f.explored \in SUBSET Id /\ f.covered \in SUBSET File /\ f.cap \in 0..MaxDepth
  BY DEF Frontiers
<1>2. e \in HeapEntry /\ s.id \in Id
  BY <1>1 DEF HeapEntry, Scenario
<1> DEFINE pending == {p \in f.pending : p.id # s.id} \cup {s}
           heap == f.heap \cup {e}
           entry == [f.entry EXCEPT ![s.id] = f.pushes + 1]
           pushes == f.pushes + 1
<1>3. g = [f EXCEPT !.pending = pending, !.heap = heap, !.entry = entry, !.pushes = pushes]
  BY DEF Queued, Frontiers
<1>4. entry \in [Id -> Nat] /\ pushes \in Nat
  BY <1>1, <1>2
<1>5. pending \in SUBSET Scenario /\ heap \in SUBSET HeapEntry
  BY <1>1, <1>2
<1> HIDE DEF g, e, pending, heap, entry, pushes
<1>6. g = [pending |-> pending, fileSets |-> f.fileSets, heap |-> heap, entry |-> entry,
           pushes |-> pushes, explored |-> f.explored, covered |-> f.covered, cap |-> f.cap]
  BY <1>3 DEF Frontiers
<1>7. g \in Frontiers
  BY <1>1, <1>4, <1>5, <1>6 DEF Frontiers
<1>8. /\ g.pending = pending /\ g.heap = heap /\ g.entry = entry /\ g.pushes = pushes
      /\ g.fileSets = f.fileSets /\ g.explored = f.explored
      /\ g.covered = f.covered /\ g.cap = f.cap
  BY <1>6
<1> QED
  BY <1>7, <1>8 DEF g, e, pending, heap, entry, pushes

\* The heap stays in step when a scenario is queued.
LEMMA QueuedHeap ==
    ASSUME NEW f, FieldsOK(f), HeapOK(f), NEW s \in Scenario
    PROVE  HeapOK(Queued(f, s))
<1> DEFINE g == Queued(f, s)
           n == [id |-> s.id, priority |-> s.priority, counter |-> f.pushes + 1]
<1>1. /\ g.pending = {p \in f.pending : p.id # s.id} \cup {s}
      /\ g.heap = f.heap \cup {n}
      /\ g.entry = [f.entry EXCEPT ![s.id] = f.pushes + 1]
      /\ g.pushes = f.pushes + 1
  BY QueuedFields DEF FieldsOK
<1>2. /\ f.pushes \in Nat /\ f.entry \in [Id -> Nat] /\ s.id \in Id
      /\ \A e \in f.heap : e.counter \in Nat /\ e.counter <= f.pushes
      /\ \A p \in f.pending : p.id \in Id
  <2>1. f.heap \subseteq HeapEntry /\ f.pending \subseteq Scenario
        /\ f.pushes \in Nat /\ f.entry \in [Id -> Nat]
    BY DEF FieldsOK, Frontiers
  <2> QED
    BY <2>1 DEF HeapOK, HeapEntry, Scenario
<1>3. n.id = s.id /\ n.priority = s.priority /\ n.counter = f.pushes + 1
  OBVIOUS
<1> HIDE DEF g, n
<1>4. \A e \in g.heap : e.counter <= g.pushes
  BY <1>1, <1>2, <1>3
<1>5. \A e, d \in g.heap : e.counter = d.counter => e = d
  BY <1>1, <1>2, <1>3 DEF HeapOK
<1>6. ASSUME NEW p \in g.pending
      PROVE  \E e \in g.heap : e.id = p.id /\ e.counter = g.entry[p.id] /\ e.priority = p.priority
  <2>1. CASE p = s
    BY <1>1, <1>2, <1>3, <2>1
  <2>2. CASE p \in f.pending /\ p.id # s.id
    BY <1>1, <1>2, <2>2 DEF HeapOK
  <2> QED
    BY <1>1, <2>1, <2>2
<1> QED
  BY <1>4, <1>5, <1>6 DEF HeapOK, g

\* A file set is similar to itself.
LEMMA SelfSimilar ==
    ASSUME NEW a \in SUBSET File
    PROVE  Similar(a, a)
<1>1. Cardinality(a) \in Nat
  BY FrontierAssumption, FS_Subset, FS_CardinalityType
<1>2. a \cap a = a /\ a \cup a = a
  OBVIOUS
<1>3. ASSUME NEW c \in Nat, NEW d \in 0..100 PROVE 100 * c >= d * c
  OBVIOUS
<1> QED
  BY <1>1, <1>2, <1>3, FrontierAssumption DEF Similar

\* The pending scenario of an id gives way to a better one.
LEMMA UpgradedGood ==
    ASSUME NEW f, Good(f), NEW s \in Scenario, s.id \in PendingIds(f)
    PROVE  /\ Good(Upgraded(f, s))
           /\ PendingIds(Upgraded(f, s)) = PendingIds(f)
           /\ NoneLowered(f, Upgraded(f, s))
           /\ Upgraded(f, s).explored = f.explored
           /\ \A id \in Id : id # s.id => Upgraded(f, s).entry[id] = f.entry[id]
<1>1. PICK old \in f.pending : old.id = s.id
  BY DEF PendingIds
<1>2. Pending(f, s.id) = old /\ old \in Scenario
  BY <1>1, PendingOf DEF Good, FieldsOK, Frontiers
<1> DEFINE r == [s EXCEPT !.bonus = IF @ >= old.bonus THEN @ ELSE old.bonus]
           g == Queued(f, r)
<1>3. r \in Scenario /\ r.id = s.id /\ r.priority = s.priority
  BY <1>2 DEF Scenario
<1>4. Upgraded(f, s) = IF s.priority > old.priority THEN g ELSE f
  BY <1>2 DEF Upgraded
<1> HIDE DEF r
<1>5. /\ g \in Frontiers /\ g.pending = {p \in f.pending : p.id # s.id} \cup {r}
      /\ g.entry = [f.entry EXCEPT ![s.id] = f.pushes + 1]
      /\ g.fileSets = f.fileSets /\ g.explored = f.explored
  BY <1>3, QueuedFields DEF Good, FieldsOK
<1>6. HeapOK(g)
  BY <1>3, QueuedHeap DEF Good
<1> HIDE DEF g
<1>7. PendingIds(g) = PendingIds(f)
  BY <1>1, <1>3, <1>5 DEF PendingIds
<1>8. IsFiniteSet(g.pending) /\ Cardinality(g.pending) <= MaxSize
  <2>0. IsFiniteSet(f.pending) /\ Cardinality(f.pending) <= MaxSize /\ MaxSize \in Nat
    BY FrontierAssumption DEF Good, FieldsOK
  <2>1. {p \in f.pending : p.id # s.id} = f.pending \ {old}
    BY <1>1 DEF Good, PendingOK
  <2>2. IsFiniteSet(f.pending \ {old}) /\ Cardinality(f.pending \ {old}) = Cardinality(f.pending) - 1
    BY <1>1, <2>0, FS_RemoveElement
  <2>3. r \notin f.pending \ {old}
    BY <1>3, <2>1
  <2>4. IsFiniteSet(g.pending) /\ Cardinality(g.pending) = Cardinality(f.pending) - 1 + 1
    <3> DEFINE others == f.pending \ {old}
    <3>1. g.pending = others \cup {r}
      BY <1>5, <2>1
    <3>2. IsFiniteSet(others) /\ r \notin others /\ Cardinality(others) = Cardinality(f.pending) - 1
      BY <2>2, <2>3
    <3> HIDE DEF others
    <3>3. IsFiniteSet(others \cup {r}) /\ Cardinality(others \cup {r}) = Cardinality(others) + 1
      BY <3>2, FS_AddElement
    <3> QED
      BY <3>1, <3>2, <3>3
  <2>5. Cardinality(f.pending) \in Nat
    BY <2>0, FS_CardinalityType
  <2> QED
    BY <2>0, <2>4, <2>5
<1>9. PendingOK(g)
  <2>1. \A p, q \in g.pending : p.id = q.id => p = q
    BY <1>3, <1>5 DEF Good, PendingOK
  <2>2. \A p, q \in g.pending : p # q => Files[p.id] # Files[q.id]
    BY <1>1, <1>3, <1>5 DEF Good, PendingOK
  <2> QED
    BY <1>5, <1>7, <2>1, <2>2 DEF Good, PendingOK
<1>10. Good(g)
  BY <1>5, <1>6, <1>8, <1>9 DEF Good, FieldsOK
<1>11. f.entry \in [Id -> Nat]
  BY DEF Good, FieldsOK, Frontiers
<1>12. ASSUME s.priority > old.priority PROVE NoneLowered(f, g)
  <2>1. ASSUME NEW p \in f.pending
        PROVE  \E q \in g.pending : q.id = p.id /\ q.priority >= p.priority
    <3>1. CASE p = old
      <4>1. r \in g.pending /\ r.id = p.id /\ r.priority >= p.priority
        BY <1>1, <1>2, <1>3, <1>5, <1>12, <3>1, FrontierAssumption DEF Scenario
      <4> QED
        BY <4>1
    <3>2. CASE p # old
      <4>1. p \in g.pending
        BY <1>1, <1>5, <3>2 DEF Good, PendingOK
      <4> QED
        BY <4>1, Priorities DEF Good
    <3> QED
      BY <3>1, <3>2
  <2> QED
    BY <2>1 DEF NoneLowered
<1>13. NoneLowered(f, f)
  BY NoneLoweredSame DEF Good
<1> QED
  BY <1>4, <1>5, <1>7, <1>10, <1>11, <1>12, <1>13

\* A new scenario is admitted next to dissimilar ones only.
LEMMA AdmittedGood ==
    ASSUME NEW f, Good(f), NEW s \in Scenario,
           s.id \notin PendingIds(f), s.id \notin f.explored, Admits(f, s)
    PROVE  /\ Good(Admitted(f, s))
           /\ PendingIds(Admitted(f, s)) = PendingIds(f) \cup {s.id}
           /\ NoneLowered(f, Admitted(f, s))
           /\ Admitted(f, s).explored = f.explored
           /\ \A id \in Id : id # s.id => Admitted(f, s).entry[id] = f.entry[id]
<1> DEFINE q == Queued(f, s)
           g == Admitted(f, s)
<1>0. f \in Frontiers /\ f.entry \in [Id -> Nat] /\ s.id \in Id /\ Files[s.id] \in SUBSET File
  BY FrontierAssumption DEF Good, FieldsOK, Frontiers, Scenario
<1>1. /\ q \in Frontiers /\ q.pending = {p \in f.pending : p.id # s.id} \cup {s}
      /\ q.entry = [f.entry EXCEPT ![s.id] = f.pushes + 1]
      /\ q.fileSets = f.fileSets /\ q.explored = f.explored
  BY <1>0, QueuedFields
<1>2. {p \in f.pending : p.id # s.id} = f.pending
  BY DEF PendingIds
<1>3. HeapOK(q)
  BY QueuedHeap DEF Good
<1>4. g = [q EXCEPT !.fileSets = q.fileSets \cup {Files[s.id]}]
  BY <1>1 DEF Admitted
<1> HIDE DEF q, g
<1>5. g \in Frontiers /\ g.fileSets = f.fileSets \cup {Files[s.id]}
      /\ g.pending = f.pending \cup {s} /\ g.heap = q.heap /\ g.entry = q.entry
      /\ g.pushes = q.pushes /\ g.explored = f.explored
  BY <1>0, <1>1, <1>2, <1>4 DEF Frontiers
<1>6. HeapOK(g)
  BY <1>1, <1>2, <1>3, <1>5 DEF HeapOK
<1>7. IsFiniteSet(g.pending) /\ Cardinality(g.pending) <= MaxSize
  <2>1. IsFiniteSet(f.pending) /\ Cardinality(f.pending) \in Nat /\ Cardinality(f.pending) < MaxSize
    BY FS_CardinalityType DEF Good, FieldsOK, Admits
  <2>2. s \notin f.pending
    BY DEF PendingIds
  <2>3. IsFiniteSet(g.pending) /\ Cardinality(g.pending) = Cardinality(f.pending) + 1
    <3>1. /\ IsFiniteSet(f.pending \cup {s})
          /\ Cardinality(f.pending \cup {s}) = Cardinality(f.pending) + 1
      BY <2>1, <2>2, FS_AddElement
    <3> QED
      BY <1>5, <3>1
  <2> QED
    BY <2>1, <2>3, FrontierAssumption
<1>8. PendingIds(g) = PendingIds(f) \cup {s.id}
  BY <1>5 DEF PendingIds
<1>9. PendingOK(g)
  <2>1. \A p, r \in g.pending : p.id = r.id => p = r
    BY <1>5 DEF Good, PendingOK, PendingIds
  <2>2. ASSUME NEW p \in f.pending PROVE Files[p.id] # Files[s.id]
    <3>1. Files[p.id] \in f.fileSets
      BY DEF Good, PendingOK, PendingIds
    <3>2. ~Similar(Files[s.id], Files[p.id])
      BY <3>1 DEF Admits
    <3> QED
      BY <1>0, <3>2, SelfSimilar
  <2>3. \A p, r \in g.pending : p # r => Files[p.id] # Files[r.id]
    BY <1>5, <2>2 DEF Good, PendingOK
  <2>4. g.fileSets = {Files[id] : id \in PendingIds(g)}
    BY <1>5, <1>8 DEF Good, PendingOK
  <2>5. g.explored \cap PendingIds(g) = {}
    BY <1>5, <1>8 DEF Good, PendingOK
  <2> QED
    BY <2>1, <2>3, <2>4, <2>5 DEF PendingOK
<1>10. Good(g)
  BY <1>5, <1>6, <1>7, <1>9 DEF Good, FieldsOK
<1>11. NoneLowered(f, g)
  BY <1>5, Priorities DEF Good, NoneLowered
<1> QED
  BY <1>0, <1>1, <1>5, <1>8, <1>10, <1>11 DEF g

\* push() keeps the tables in step, drops or lowers nothing that was pending, and
\* gives an entry only to what is then pending.
LEMMA PushGood ==
    ASSUME NEW f, Good(f), NEW s \in Scenario
    PROVE  /\ Good(Push(f, s))
           /\ PendingIds(f) \subseteq PendingIds(Push(f, s))
           /\ NoneLowered(f, Push(f, s))
           /\ Push(f, s).explored = f.explored
           /\ \A id \in Id : \/ id \in PendingIds(Push(f, s))
                            \/ Push(f, s).entry[id] = f.entry[id]
<1>0. NoneLowered(f, f)
  BY NoneLoweredSame DEF Good
<1>1. CASE s.id \in f.explored
  BY <1>0, <1>1 DEF Push
<1>2. CASE s.id \notin f.explored /\ s.id \in PendingIds(f)
  <2>1. Push(f, s) = Upgraded(f, s)
    BY <1>2 DEF Push
  <2> QED
    BY <1>2, <2>1, UpgradedGood
<1>3. CASE s.id \notin f.explored /\ s.id \notin PendingIds(f)
  <2>1. Push(f, s) = IF Admits(f, s) THEN Admitted(f, s) ELSE f
    BY <1>3 DEF Push
  <2> QED
    BY <1>0, <1>3, <2>1, AdmittedGood
<1> QED
  BY <1>1, <1>2, <1>3

-----------------------------------------------------------------------------
(* pop, mark_explored and the depth cap                                    *)

\* A frontier with less pending, and nothing live taken from the heap.
LEMMA FewerGood ==
    ASSUME NEW f, Good(f), NEW g, g \in Frontiers, NEW gone \in Id,
           g.pending = {s \in f.pending : s.id # gone},
           g.fileSets = IF gone \in PendingIds(f) THEN f.fileSets \ {Files[gone]} ELSE f.fileSets,
           g.entry = f.entry, g.pushes = f.pushes,
           g.heap \subseteq f.heap,
           \A e \in Live(f) : e.id = gone \/ e \in g.heap,
           g.explored \subseteq f.explored \cup {gone}
    PROVE  Good(g) /\ PendingIds(g) = PendingIds(f) \ {gone}
<1>1. PendingIds(g) = PendingIds(f) \ {gone}
  BY DEF PendingIds
<1>2. FieldsOK(g)
  <2>1. IsFiniteSet(f.pending) /\ Cardinality(f.pending) <= MaxSize
    BY DEF Good, FieldsOK
  <2>2. g.pending \in SUBSET f.pending
    OBVIOUS
  <2>3. IsFiniteSet(g.pending) /\ Cardinality(g.pending) <= Cardinality(f.pending)
    BY <2>1, <2>2, FS_Subset
  <2>4. Cardinality(g.pending) \in Nat /\ Cardinality(f.pending) \in Nat
    BY <2>1, <2>3, FS_CardinalityType
  <2> QED
    BY <2>1, <2>3, <2>4, FrontierAssumption DEF FieldsOK
<1>3. PendingOK(g)
  <2>1. \A s, r \in g.pending : (s.id = r.id => s = r) /\ (s # r => Files[s.id] # Files[r.id])
    BY DEF Good, PendingOK
  <2>2. g.fileSets = {Files[id] : id \in PendingIds(g)}
    <3>1. f.fileSets = {Files[id] : id \in PendingIds(f)}
      BY DEF Good, PendingOK
    <3>2. \A id \in PendingIds(f) : id # gone /\ gone \in PendingIds(f) => Files[id] # Files[gone]
      BY DEF Good, PendingOK, PendingIds
    <3> QED
      BY <1>1, <3>1, <3>2
  <2>3. g.explored \cap PendingIds(g) = {}
    BY <1>1 DEF Good, PendingOK
  <2> QED
    BY <2>1, <2>2, <2>3 DEF PendingOK
<1>4. HeapOK(g)
  <2>1. ASSUME NEW s \in g.pending
        PROVE  \E e \in g.heap : e.id = s.id /\ e.counter = g.entry[s.id] /\ e.priority = s.priority
    <3>1. s \in f.pending /\ s.id # gone
      OBVIOUS
    <3>2. PICK e \in Live(f) : e.id = s.id /\ e.counter = f.entry[s.id] /\ e.priority = s.priority
      BY <3>1, LiveEntry
    <3> QED
      BY <3>1, <3>2
  <2> QED
    BY <2>1 DEF HeapOK, Good
<1> QED
  BY <1>1, <1>2, <1>3, <1>4 DEF Good

\* pop() takes one scenario out of all the tables; the stale entries it skips are
\* nobody's.
LEMMA AfterPopGood ==
    ASSUME NEW f, Good(f), f.pending # {}
    PROVE  /\ Good(AfterPop(f)) /\ PendingIds(AfterPop(f)) = PendingIds(f) \ {Top(f).id}
           /\ AfterPop(f).explored = f.explored /\ AfterPop(f).entry = f.entry
           /\ AfterPop(f).pending = {s \in f.pending : s.id # Top(f).id}
<1> DEFINE g == AfterPop(f)
           top == Top(f)
           heap == {e \in f.heap : Before(top, e)}
           pending == {s \in f.pending : s.id # top.id}
           fileSets == f.fileSets \ {Files[top.id]}
<1>0. top \in Live(f) /\ \A e \in Live(f) \ {top} : Before(top, e)
  BY TopExists
<1>1. f \in Frontiers
  BY DEF Good, FieldsOK
<1>2. top.id \in PendingIds(f) /\ top.id \in Id
  BY <1>0, <1>1 DEF Live, Frontiers, HeapEntry
<1>3. g = [f EXCEPT !.pending = pending, !.fileSets = fileSets, !.heap = heap]
  BY <1>1 DEF AfterPop, Frontiers
<1>4. pending \subseteq f.pending /\ fileSets \subseteq f.fileSets /\ heap \subseteq f.heap
  OBVIOUS
<1>5. \A e \in Live(f) : e.id = top.id \/ e \in heap
  <2> TAKE e \in Live(f)
  <2>1. CASE e = top
    BY <2>1
  <2>2. CASE e # top
    BY <1>0, <2>2 DEF Live
  <2> QED
    BY <2>1, <2>2
<1>6. pending = {s \in f.pending : s.id # top.id} /\ fileSets = f.fileSets \ {Files[top.id]}
  OBVIOUS
<1> HIDE DEF g, top, heap, pending, fileSets
<1>7. g = [pending |-> pending, fileSets |-> fileSets, heap |-> heap, entry |-> f.entry,
           pushes |-> f.pushes, explored |-> f.explored, covered |-> f.covered, cap |-> f.cap]
  BY <1>1, <1>3 DEF Frontiers
<1>8. /\ g.pending = pending /\ g.fileSets = fileSets /\ g.heap = heap /\ g.entry = f.entry
      /\ g.pushes = f.pushes /\ g.explored = f.explored /\ g \in Frontiers
  BY <1>1, <1>4, <1>7 DEF Frontiers
<1>9. Good(g) /\ PendingIds(g) = PendingIds(f) \ {top.id}
  BY <1>2, <1>4, <1>5, <1>6, <1>8, FewerGood
<1> QED
  BY <1>6, <1>8, <1>9 DEF g, top

\* mark_explored() leaves the explored scenario neither pending nor in the file sets,
\* also when it was proposed again meanwhile.
LEMMA MarkExploredGood ==
    ASSUME NEW f, Good(f), NEW id \in Id, NEW files \in SUBSET File
    PROVE  /\ Good(MarkExplored(f, id, files))
           /\ PendingIds(MarkExplored(f, id, files)) = PendingIds(f) \ {id}
           /\ MarkExplored(f, id, files).explored = f.explored \cup {id}
           /\ MarkExplored(f, id, files).entry = f.entry
           /\ MarkExplored(f, id, files).pending = {s \in f.pending : s.id # id}
<1> DEFINE g == MarkExplored(f, id, files)
           again == id \in PendingIds(f)
           explored == f.explored \cup {id}
           covered == f.covered \cup files \cup (IF again THEN Files[id] ELSE {})
           pending == {s \in f.pending : s.id # id}
           fileSets == IF again THEN f.fileSets \ {Files[id]} ELSE f.fileSets
<1>1. f \in Frontiers
  BY DEF Good, FieldsOK
<1>2. Files[id] \in SUBSET File
  BY FrontierAssumption
<1>3. g = [f EXCEPT !.explored = explored, !.covered = covered, !.pending = pending,
                    !.fileSets = fileSets]
  BY <1>1 DEF MarkExplored, Frontiers
<1>4. /\ explored \in SUBSET Id /\ covered \in SUBSET File /\ pending \subseteq f.pending
      /\ fileSets \subseteq f.fileSets
  BY <1>1, <1>2 DEF Frontiers
<1>5. /\ explored = f.explored \cup {id} /\ pending = {s \in f.pending : s.id # id}
      /\ fileSets = IF id \in PendingIds(f) THEN f.fileSets \ {Files[id]} ELSE f.fileSets
  OBVIOUS
<1> HIDE DEF g, explored, covered, pending, fileSets
<1>6. g = [pending |-> pending, fileSets |-> fileSets, heap |-> f.heap, entry |-> f.entry,
           pushes |-> f.pushes, explored |-> explored, covered |-> covered, cap |-> f.cap]
  BY <1>1, <1>3 DEF Frontiers
<1>7. /\ g.pending = pending /\ g.fileSets = fileSets /\ g.heap = f.heap /\ g.entry = f.entry
      /\ g.pushes = f.pushes /\ g.explored = explored /\ g \in Frontiers
  BY <1>1, <1>4, <1>6 DEF Frontiers
<1>8. \A e \in Live(f) : e \in f.heap
  BY DEF Live
<1>9. Good(g) /\ PendingIds(g) = PendingIds(f) \ {id}
  BY <1>5, <1>7, <1>8, FewerGood
<1> QED
  BY <1>5, <1>7, <1>9 DEF g

\* The depth cap is read by push() only.
LEMMA CapGood ==
    ASSUME NEW f, Good(f), NEW cap \in 0..MaxDepth
    PROVE  LET g == [f EXCEPT !.cap = cap]
           IN  /\ Good(g) /\ PendingIds(g) = PendingIds(f)
               /\ g.explored = f.explored /\ g.entry = f.entry /\ g.pending = f.pending
<1> DEFINE g == [f EXCEPT !.cap = cap]
<1>1. f \in Frontiers
  BY DEF Good, FieldsOK
<1>2. g = [pending |-> f.pending, fileSets |-> f.fileSets, heap |-> f.heap, entry |-> f.entry,
           pushes |-> f.pushes, explored |-> f.explored, covered |-> f.covered, cap |-> cap]
  BY <1>1 DEF Frontiers
<1> HIDE DEF g
<1>3. /\ g.pending = f.pending /\ g.fileSets = f.fileSets /\ g.heap = f.heap /\ g.entry = f.entry
      /\ g.pushes = f.pushes /\ g.explored = f.explored /\ g \in Frontiers
  BY <1>1, <1>2 DEF Frontiers
<1>4. PendingIds(g) = PendingIds(f)
  BY <1>3 DEF PendingIds
<1> QED
  BY <1>3, <1>4 DEF Good, FieldsOK, PendingOK, HeapOK, g
================================================================================
