------------------------------- MODULE Frontier -------------------------------
(***************************************************************************)
(* The exploration frontier (intent/frontier.py): a priority queue of      *)
(* scenarios kept as a heap with lazy deletion, a table of what is         *)
(* pending, the file sets new scenarios are compared with, and what has    *)
(* been explored.  Its methods are operators on the record of its fields.  *)
(*                                                                         *)
(* A scenario's id is the fingerprint of its file set; the structured      *)
(* seeds hash a prediction id with it, so two ids may have the same files. *)
(* The priority given to Push is the effective one, after the multiplier   *)
(* of the source and the alignment boost.  No caller sets prediction_gate. *)
(***************************************************************************)
EXTENDS Integers, FiniteSets

CONSTANTS
    Id,                 \* scenario fingerprints
    File,               \* the available paths
    Files,              \* the file set of each id
    MaxPriority,        \* bound
    MinPriority,        \* min_priority
    MaxDepth,           \* max_depth
    MaxSize,            \* max_size
    DedupPercent,       \* dedup_threshold
    SaturationPercent   \* saturation_coverage

ASSUME FrontierAssumption ==
    /\ IsFiniteSet(Id) /\ IsFiniteSet(File)
    /\ Files \in [Id -> (SUBSET File) \ {{}}]
    /\ MaxPriority \in Nat /\ MinPriority \in Nat
    /\ MaxDepth \in Nat /\ MaxSize \in Nat
    /\ DedupPercent \in 0..100 /\ SaturationPercent \in 0..100

\* llm: it is sent to the LLM (not is_trivial).
Scenario == [id : Id, priority : 0..MaxPriority, depth : Nat, bonus : Nat, llm : BOOLEAN]
HeapEntry == [id : Id, priority : 0..MaxPriority, counter : Nat]

Frontiers ==
    [pending : SUBSET Scenario,         \* _pending
     fileSets : SUBSET SUBSET File,     \* _pending_file_sets
     heap : SUBSET HeapEntry,           \* _heap
     entry : [Id -> Nat],               \* _entry_counter, 0 where it has no key
     pushes : Nat,                      \* _push_counter
     explored : SUBSET Id,              \* _explored
     covered : SUBSET File,             \* _covered_file_set
     cap : 0..MaxDepth]                 \* _effective_max_depth

EmptyFrontier ==
    [pending |-> {}, fileSets |-> {}, heap |-> {}, entry |-> [id \in Id |-> 0],
     pushes |-> 0, explored |-> {}, covered |-> {}, cap |-> MaxDepth]

PendingIds(f) == {s.id : s \in f.pending}
Pending(f, id) == CHOOSE s \in f.pending : s.id = id

-----------------------------------------------------------------------------
(* push                                                                    *)

\* The Jaccard index of two file sets reaches dedup_threshold.
Similar(a, b) == 100 * Cardinality(a \cap b) >= DedupPercent * Cardinality(a \cup b)

\* The scenario becomes the pending one of its id, with a heap entry of its own.
Queued(f, s) ==
    LET counter == f.pushes + 1
    IN  [f EXCEPT !.pending = {p \in @ : p.id # s.id} \cup {s},
                  !.heap = @ \cup {[id |-> s.id, priority |-> s.priority, counter |-> counter]},
                  !.entry[s.id] = counter,
                  !.pushes = counter]

UpgradedInPlace(f, s) ==    \* mutant: the heap keeps the old priority
    [f EXCEPT !.pending = {p \in @ : p.id # s.id} \cup {s}]

Requeued(f, s) ==    \* mutant: the last one that was pushed wins
    Queued(f, s)

\* A pending scenario is replaced when the new one is better.  Neither the depth
\* cap nor the threshold on priorities is looked at.
Upgraded(f, s) ==
    LET existing == Pending(f, s.id)
    IN  IF s.priority > existing.priority
        THEN Queued(f, [s EXCEPT !.bonus = IF @ >= existing.bonus THEN @ ELSE existing.bonus])
        ELSE f

Admits(f, s) ==
    /\ s.depth <= f.cap + s.bonus
    /\ s.priority >= MinPriority
    /\ Cardinality(f.pending) < MaxSize
    /\ \A files \in f.fileSets : ~Similar(Files[s.id], files)

Admitted(f, s) == [Queued(f, s) EXCEPT !.fileSets = @ \cup {Files[s.id]}]

Push(f, s) ==
    CASE s.id \in f.explored -> f
      [] s.id \notin f.explored /\ s.id \in PendingIds(f) -> Upgraded(f, s)
      [] OTHER -> IF Admits(f, s) THEN Admitted(f, s) ELSE f

-----------------------------------------------------------------------------
(* pop, mark_explored, is_saturated, coverage_ratio                        *)

\* The order of the heap.
Before(a, b) == a.priority > b.priority \/ (a.priority = b.priority /\ a.counter < b.counter)

\* The entries pop() does not skip.
Live(f) == {e \in f.heap : /\ e.id \notin f.explored
                           /\ e.counter = f.entry[e.id]
                           /\ e.id \in PendingIds(f)}

Top(f) == CHOOSE e \in Live(f) : \A other \in Live(f) \ {e} : Before(e, other)

\* What pop() returns, and what it leaves.
Popped(f) == Pending(f, Top(f).id)
AfterPop(f) ==
    [f EXCEPT !.pending = {s \in @ : s.id # Top(f).id},
              !.fileSets = @ \ {Files[Top(f).id]},
              !.heap = {e \in @ : Before(Top(f), e)}]

MarkExploredOnly(f, id, files) ==    \* mutant: it is left pending
    [f EXCEPT !.explored = @ \cup {id}, !.covered = @ \cup files]

MarkUnlessProposed(f, id, files) ==    \* mutant: proposed again, it is explored again
    IF id \in PendingIds(f) THEN [f EXCEPT !.covered = @ \cup files]
    ELSE [f EXCEPT !.explored = @ \cup {id}, !.covered = @ \cup files]

\* Another task may have proposed the scenario while it was being explored: it
\* is pending again then.
MarkExplored(f, id, files) ==
    LET again == id \in PendingIds(f)
    IN  [f EXCEPT !.explored = @ \cup {id},
                  !.covered = @ \cup files \cup (IF again THEN Files[id] ELSE {}),
                  !.pending = {s \in @ : s.id # id},
                  !.fileSets = IF again THEN @ \ {Files[id]} ELSE @]

\* The share of the available files that is covered.
Covers(f, percent) == 100 * Cardinality(f.covered) >= percent * Cardinality(File)

Saturated(f) == f.pending = {} \/ (File # {} /\ Covers(f, SaturationPercent))

================================================================================
