--------------------------- MODULE AdoptionOutcomes ---------------------------
(***************************************************************************)
(* What becomes of an adoption: the queue of the registry, the rows of the *)
(* outcome log in SQLite, and the three things the precompute cycle does   *)
(* to them (resolve what its sweep staled or rolled back, flush the queue, *)
(* confirm what has aged), with the background refinement pass, whose kept *)
(* maturations are what a sweep rolls back.                                *)
(*                                                                         *)
(* A step is the code between two awaits.  A sweep is reduced to the       *)
(* predictions it touches and those it stales (PredictionRegistry has the  *)
(* signals), and a probation window to the cycles it still lasts.          *)
(***************************************************************************)
EXTENDS Integers, FiniteSets, Sequences, FiniteSetsExt

CONSTANTS
    Pred,             \* prediction ids
    MaxAdoptions,     \* bound: adoptions recorded in a behaviour
    Limit,            \* rows one confirm sweep may fetch
    Cap,              \* max_revisits_per_prediction
    ProbationCycles,  \* _PROBATION_CYCLES
    MaxCandidates,    \* max_candidates_per_cycle
    Faults            \* what may go wrong: "crash", "preempt", "store"

ASSUME OutcomesAssumption ==
    /\ MaxAdoptions \in Nat /\ Limit \in Nat \ {0} /\ Cap \in Nat
    /\ ProbationCycles \in Nat /\ MaxCandidates \in Nat
    /\ Faults \subseteq {"crash", "preempt", "store"}

VARIABLES
    reg,         \* _predictions, reduced to what the log and refinement read
    queue,       \* _pending_adoption_descriptors
    rows,        \* the table prediction_adoption_outcomes, in order of adopted_at
    aged,        \* how many of the rows are older than the confirm window
    staled,      \* _last_staled_prediction_ids
    rolledBack,  \* _last_rolled_back_prediction_ids
    phase,       \* where precompute_cycle stands
    draining,    \* descriptors the flush has taken off the queue
    fetched,     \* rows the confirm sweep has fetched and not updated yet
    candidates,  \* predictions the refinement pass has selected
    maturing,    \* the prediction whose drafter and judge are awaited
    adoptions    \* how many adoptions there have been

cycleLocals == <<draining, fetched, candidates, maturing>>
log == <<queue, rows, aged, adoptions>>
vars == <<reg, queue, rows, aged, staled, rolledBack, phase, cycleLocals, adoptions>>

Phases == {"idle", "opening", "staling", "rejecting", "reconciling", "exploring",
           "flushing", "confirming", "refining"}
NoWindow == -1
None == "none"

Entry == [readiness : {"absent", "preparing", "ready", "stale"},
          spent     : BOOLEAN,
          revision  : 0..Cap,
          failed    : 0..Cap,                       \* failed_revisits
          window    : NoWindow..ProbationCycles,    \* probationary_until_cycle
          snapshot  : BOOLEAN]                      \* pre_maturation_* are set

Descriptor == [adoption : 1..MaxAdoptions, pred : Pred, revision : 0..Cap]
Row == [adoption : 1..MaxAdoptions, pred : Pred, revision : 0..Cap,
        outcome : {"pending", "confirmed", "rejected", "stale"}]

Absent == [readiness |-> "absent", spent |-> FALSE, revision |-> 0, failed |-> 0,
           window |-> NoWindow, snapshot |-> FALSE]

Live == {p \in Pred : reg[p].readiness \in {"preparing", "ready"}}
OnProbation(p) == reg[p].window # NoWindow

Init ==
    /\ reg = [p \in Pred |-> Absent]
    /\ queue = << >> /\ rows = << >> /\ aged = 0
    /\ staled = {} /\ rolledBack = {}
    /\ phase = "idle"
    /\ draining = << >> /\ fetched = {} /\ candidates = {} /\ maturing = None
    /\ adoptions = 0

-----------------------------------------------------------------------------
(* The top of the cycle: sweep, then the bridge to the log.                *)

\* The cycle counter goes up, so every window has one cycle less to last.
CycleBegin ==
    /\ phase = "idle"
    /\ phase' = "opening"
    /\ reg' = [p \in Pred |->
                 [reg[p] EXCEPT !.window = IF @ = NoWindow THEN NoWindow ELSE @ - 1]]
    /\ UNCHANGED <<log, staled, rolledBack, cycleLocals>>

RolledBackOnProbation(e) ==        \* mutant: the window stays open
    [e EXCEPT !.revision = IF @ > 0 THEN @ - 1 ELSE 0, !.snapshot = FALSE]

\* rollback_kept_maturation consumes the snapshot and does not count as a
\* failed revisit.
RolledBack(e) ==
    [e EXCEPT !.revision = IF @ > 0 THEN @ - 1 ELSE 0,
              !.window = NoWindow,
              !.snapshot = FALSE]

ToStaleTouched(touched, staling) ==    \* mutant: every prediction touched
    {p \in touched : ~OnProbation(p)}

ToStaleNever(touched, staling) == {}   \* mutant: the log is not told

\* What the sweep hands over to be resolved as "stale": a rollback has priority.
ToStale(touched, staling) == {p \in staling : ~OnProbation(p)}

\* _apply_cycle_invalidation: the signals touch some predictions and stale
\* some of those; the ones on probation are rolled back.
CycleSweep(touched, staling) ==
    LET rolled == {p \in touched : OnProbation(p)}
        after(p) == IF p \in staling THEN [reg[p] EXCEPT !.readiness = "stale"]
                                     ELSE reg[p]
    IN  /\ phase = "opening"
        /\ touched \subseteq Live /\ staling \subseteq touched
        /\ reg' = [p \in Pred |-> IF p \in rolled THEN RolledBack(after(p))
                                                  ELSE after(p)]
        /\ staled' = ToStale(touched, staling)
        /\ rolledBack' = rolled
        /\ phase' = "staling"
        /\ UNCHANGED <<log, cycleLocals>>

ResolvedAnyway(preds, outcome) ==      \* mutant: no "outcome = 'pending'"
    [i \in DOMAIN rows |-> IF rows[i].pred \in preds
                           THEN [rows[i] EXCEPT !.outcome = outcome]
                           ELSE rows[i]]

\* update_pending_by_prediction_id
Resolved(preds, outcome) ==
    [i \in DOMAIN rows |-> IF rows[i].pred \in preds /\ rows[i].outcome = "pending"
                           THEN [rows[i] EXCEPT !.outcome = outcome]
                           ELSE rows[i]]

\* _resolve_pending_adoptions_for_predictions for the staled predictions; an
\* exception of the store is swallowed and the list is cleared all the same.
ResolveStale(failing) ==
    /\ phase = "staling"
    /\ failing => "store" \in Faults
    /\ rows' = IF failing THEN rows ELSE Resolved(staled, "stale")
    /\ staled' = {}
    /\ phase' = "rejecting"
    /\ UNCHANGED <<reg, queue, aged, adoptions, rolledBack, cycleLocals>>

\* The same for the predictions rolled back.
ResolveRejected(failing) ==
    /\ phase = "rejecting"
    /\ failing => "store" \in Faults
    /\ rows' = IF failing THEN rows ELSE Resolved(rolledBack, "rejected")
    /\ rolledBack' = {}
    /\ phase' = "reconciling"
    /\ UNCHANGED <<reg, queue, aged, adoptions, staled, cycleLocals>>

-----------------------------------------------------------------------------
(* The middle of the cycle, as far as the log and refinement see it.       *)

\* A reconciled artefact contradicts the item a prediction is about: it is
\* staled here, after the bridge, and the log is not told.
Contradict(p) ==
    /\ phase = "reconciling"
    /\ p \in Live
    /\ reg' = [reg EXCEPT ![p].readiness = "stale"]
    /\ UNCHANGED <<log, staled, rolledBack, phase, cycleLocals>>

\* merge enrols what it does not know; it never replaces an entry.
Merge(batch) ==
    /\ phase = "reconciling"
    /\ reg' = [p \in Pred |-> IF p \in batch /\ reg[p].readiness = "absent"
                              THEN [Absent EXCEPT !.readiness = "preparing"]
                              ELSE reg[p]]
    /\ phase' = "exploring"
    /\ UNCHANGED <<log, staled, rolledBack, cycleLocals>>

\* A worker, the primer or the drafter makes a prediction ready; workers that
\* outlive their cycle do so at any time.
Prepare(p) ==
    /\ reg[p].readiness = "preparing"
    /\ reg' = [reg EXCEPT ![p].readiness = "ready"]
    /\ UNCHANGED <<log, staled, rolledBack, phase, cycleLocals>>

\* record_adoption, from an endpoint or a completed item: at any time, for any
\* enrolled prediction, stale ones included.
Adopt(p) ==
    /\ reg[p].readiness # "absent"
    /\ adoptions < MaxAdoptions
    /\ adoptions' = adoptions + 1
    /\ reg' = [reg EXCEPT ![p].spent = TRUE]
    /\ queue' = Append(queue, [adoption |-> adoptions', pred |-> p,
                               revision |-> reg[p].revision])
    /\ UNCHANGED <<rows, aged, staled, rolledBack, phase, cycleLocals>>

-----------------------------------------------------------------------------
(* The end of the cycle: flush, confirm, refine.                           *)

QueueKept == queue       \* mutant: the queue is copied but not cleared

\* consume_pending_adoption_descriptors clears the queue under its lock.
QueueConsumed == << >>

FlushStart ==
    /\ phase = "exploring"
    /\ draining' = queue /\ queue' = QueueConsumed
    /\ phase' = "flushing"
    /\ UNCHANGED <<reg, rows, aged, adoptions, staled, rolledBack, fetched,
                   candidates, maturing>>

Pending(d) == [adoption |-> d.adoption, pred |-> d.pred, revision |-> d.revision,
               outcome |-> "pending"]

\* create_outcome, one descriptor at a time; a failed insert is skipped.
FlushOne(failing) ==
    /\ phase = "flushing" /\ draining # << >>
    /\ failing => "store" \in Faults
    /\ rows' = IF failing THEN rows ELSE Append(rows, Pending(Head(draining)))
    /\ draining' = Tail(draining)
    /\ UNCHANGED <<reg, queue, aged, adoptions, staled, rolledBack, phase, fetched,
                   candidates, maturing>>

OldestOf(listed) ==
    {i \in listed : Cardinality({j \in listed : j < i}) < Limit}

FetchedOfAll ==          \* mutant: the limit is applied before the filter
    {i \in OldestOf(DOMAIN rows) : i <= aged /\ rows[i].outcome = "pending"}

\* list_pending_outcomes, oldest first up to the limit, then the age test.
Fetched ==
    {i \in OldestOf({j \in DOMAIN rows : rows[j].outcome = "pending"}) : i <= aged}

ConfirmStartEarly ==     \* mutant: while the flush still holds some
    /\ phase = "flushing"
    /\ fetched' = Fetched
    /\ phase' = "confirming"
    /\ UNCHANGED <<reg, log, staled, rolledBack, draining, candidates, maturing>>

ConfirmStart ==
    /\ phase = "flushing" /\ draining = << >>
    /\ fetched' = Fetched
    /\ phase' = "confirming"
    /\ UNCHANGED <<reg, log, staled, rolledBack, draining, candidates, maturing>>

\* update_outcome_state of the next row.
ConfirmOne(failing) ==
    /\ phase = "confirming" /\ fetched # {}
    /\ failing => "store" \in Faults
    /\ LET i == Min(fetched)
       IN  /\ rows' = IF failing \/ rows[i].outcome # "pending" THEN rows
                      ELSE [rows EXCEPT ![i].outcome = "confirmed"]
           /\ fetched' = fetched \ {i}
    /\ UNCHANGED <<reg, queue, aged, adoptions, staled, rolledBack, phase, draining,
                   candidates, maturing>>

\* select_maturation_candidates over active(), all of them chosen up front.
Eligible(p) ==
    /\ reg[p].readiness = "ready" /\ ~reg[p].spent
    /\ reg[p].failed < Cap /\ reg[p].revision < Cap
    /\ ~OnProbation(p)

RefineStart(chosen) ==
    /\ phase = "confirming" /\ fetched = {}
    /\ chosen \subseteq {p \in Pred : Eligible(p)}
    /\ Cardinality(chosen) <= MaxCandidates
    /\ candidates' = chosen
    /\ phase' = "refining"
    /\ UNCHANGED <<reg, log, staled, rolledBack, draining, fetched, maturing>>

\* The pass checks is_terminal again before it calls mature_one, nothing else.
MatureStart(p) ==
    /\ phase = "refining" /\ maturing = None
    /\ p \in candidates
    /\ candidates' = candidates \ {p}
    /\ maturing' = IF reg[p].readiness = "stale" THEN None ELSE p
    /\ UNCHANGED <<reg, log, staled, rolledBack, phase, draining, fetched>>

KeptTooLong(e) ==        \* mutant: the window is one cycle longer
    [e EXCEPT !.revision = @ + 1, !.window = ProbationCycles + 1,
              !.failed = 0, !.snapshot = TRUE]

\* The kept branch of mature_one.
Kept(e) ==
    [e EXCEPT !.revision = @ + 1, !.window = ProbationCycles,
              !.failed = 0, !.snapshot = TRUE]

\* A draft the judge does not keep.
Discarded(e) == [e EXCEPT !.failed = @ + 1]

\* The drafter and the judge have answered.
MatureDone(kept) ==
    /\ maturing # None
    /\ reg' = [reg EXCEPT ![maturing] = IF kept THEN Kept(@) ELSE Discarded(@)]
    /\ maturing' = None
    /\ UNCHANGED <<log, staled, rolledBack, phase, draining, fetched, candidates>>

\* The drafter or the judge raised.
MatureFail ==
    /\ maturing # None
    /\ maturing' = None
    /\ UNCHANGED <<reg, log, staled, rolledBack, phase, draining, fetched, candidates>>

\* No candidate left, or the governor or the deadline ends the pass.
CycleEnd ==
    /\ phase = "refining" /\ maturing = None
    /\ candidates' = {}
    /\ phase' = "idle"
    /\ UNCHANGED <<reg, log, staled, rolledBack, draining, fetched, maturing>>

-----------------------------------------------------------------------------
(* Time, cancellation and restarts.                                        *)

Age ==
    /\ aged < Len(rows)
    /\ aged' = aged + 1
    /\ UNCHANGED <<reg, queue, rows, adoptions, staled, rolledBack, phase, cycleLocals>>

LocalsLost == draining' = << >> /\ fetched' = {} /\ candidates' = {} /\ maturing' = None

\* The worker cancels the cycle at an await: what it holds in locals is gone.
CyclePreempted ==
    /\ "preempt" \in Faults
    /\ phase # "idle" /\ phase' = "idle"
    /\ LocalsLost
    /\ UNCHANGED <<reg, log, staled, rolledBack>>

\* The daemon dies: only the rows survive.
Crash ==
    /\ "crash" \in Faults
    /\ reg' = [p \in Pred |-> Absent]
    /\ queue' = << >> /\ staled' = {} /\ rolledBack' = {}
    /\ phase' = "idle"
    /\ LocalsLost
    /\ UNCHANGED <<rows, aged, adoptions>>

-----------------------------------------------------------------------------
CycleStep ==
    \/ CycleBegin
    \/ \E touched \in SUBSET Pred : \E staling \in SUBSET touched :
         CycleSweep(touched, staling)
    \/ \E failing \in BOOLEAN :
         \/ ResolveStale(failing) \/ ResolveRejected(failing)
         \/ FlushOne(failing) \/ ConfirmOne(failing)
    \/ \E p \in Pred : Contradict(p) \/ MatureStart(p)
    \/ \E batch \in SUBSET Pred : Merge(batch)
    \/ FlushStart \/ ConfirmStart
    \/ \E chosen \in SUBSET Pred : RefineStart(chosen)
    \/ \E kept \in BOOLEAN : MatureDone(kept)
    \/ MatureFail
    \/ CycleEnd

Next ==
    \/ CycleStep
    \/ \E p \in Pred : Prepare(p) \/ Adopt(p)
    \/ Age
    \/ CyclePreempted
    \/ Crash

Spec == Init /\ [][Next]_vars

\* The daemon keeps running cycles, a cycle that is not cancelled goes on to
\* its end, and time passes.
Fairness == WF_vars(CycleStep) /\ WF_vars(Age)

-----------------------------------------------------------------------------
TypeOK ==
    /\ reg \in [Pred -> Entry]
    /\ queue \in Seq(Descriptor) /\ draining \in Seq(Descriptor)
    /\ rows \in Seq(Row)
    /\ aged \in 0..Len(rows)
    /\ staled \subseteq Pred /\ rolledBack \subseteq Pred
    /\ phase \in Phases
    /\ fetched \subseteq DOMAIN rows
    /\ candidates \subseteq Pred /\ maturing \in Pred \cup {None}
    /\ adoptions \in 0..MaxAdoptions

Held == queue \o draining \o rows

\* However flushes, cancelled cycles and restarts interleave with adoptions, an
\* adoption is on the queue, or held by the flush, or in the log, and only once:
\* the scoring that counts the rows of a label never counts one adoption twice.
OneRecordEach ==
    \A i, j \in DOMAIN Held : i # j => Held[i].adoption # Held[j].adoption

\* As long as a sweep may roll a prediction back, what the last kept maturation
\* replaced is there to be restored and there is a revision to take back; the
\* sweep would otherwise restore nothing and zero the evidence
\* (engine.py:3611-3613).
ProbationCanRollBack ==
    \A p \in Pred : OnProbation(p) => reg[p].snapshot /\ reg[p].revision > 0

\* "stale" in the log is a verdict on the world: only the adoptions of a
\* prediction that really went stale get it, not those of one the sweep merely
\* demoted, and not those of one whose maturation it rolled back.
StaleMeansStaled ==
    [][\A i \in DOMAIN rows :
         rows[i].outcome = "pending" /\ rows'[i].outcome = "stale"
           => reg[rows[i].pred].readiness = "stale"]_vars

\* "Rollback takes priority for the adoption-outcome log because the user
\* adopted a matured draft that was then contradicted"
\* (tests/test_engine/test_adoption_outcome_engine.py:266-268).
RejectedWasMatured ==
    \A i \in DOMAIN rows : rows[i].outcome = "rejected" => rows[i].revision > 0

StateOf(a) ==
    LET recorded == {i \in DOMAIN rows : rows[i].adoption = a}
        waiting == {i \in DOMAIN (queue \o draining) : (queue \o draining)[i].adoption = a}
    IN  IF recorded # {} THEN rows[Min(recorded)].outcome
        ELSE IF waiting # {} THEN "queued"
        ELSE IF a <= adoptions THEN "lost" ELSE "none"

Log == INSTANCE AdoptionLog WITH
         Adoption <- 1..MaxAdoptions,
         state <- [a \in 1..MaxAdoptions |-> StateOf(a)]

\* The engine and its table keep the promise of the log, through cancelled
\* cycles, failing writes and restarts: an adoption is recorded once, resolved
\* once and never resolved again.
KeepsTheLog == Log!Spec

\* An adoption is only lost with the process, or on its way to the log: when the
\* cycle whose flush has taken it is cancelled, or when its own insert fails.  What
\* is on the queue waits for the next flush, whatever becomes of this one, and a
\* flush never overwrites what an earlier one has left.
LostOnlyByFault ==
    [][\A a \in 1..MaxAdoptions :
         StateOf(a) = "queued" /\ StateOf(a)' = "lost" =>
           \/ Crash
           \/ CyclePreempted /\ \E i \in DOMAIN draining : draining[i].adoption = a
           \/ FlushOne(TRUE) /\ Head(draining).adoption = a]_vars

\* With cycles that run to their end, every adoption is resolved in the end,
\* however many rows wait for the bounded confirm sweep.
EveryAdoptionResolved ==
    \A a \in 1..MaxAdoptions : StateOf(a) = "queued" ~> StateOf(a) \in Log!Outcomes

================================================================================
