-------------------------- MODULE PredictionRegistry --------------------------
(***************************************************************************)
(* The prediction registry (intent/prediction_registry.py) driven by       *)
(* everything that calls it: the precompute cycle of the engine (sweep,    *)
(* reconcile, merge, prime, explore, draft, refine), the exploration       *)
(* workers, the composer feed and the adoption endpoints.                  *)
(*                                                                         *)
(* Every registry method is synchronous and asyncio runs one task at a     *)
(* time, so a step is the code between two awaits.  Weights are shares of  *)
(* One, evidence is in small units that saturate at EvidenceCap, and a     *)
(* content hash is the version of the file it was taken from.  A probation *)
(* window is the number of cycles it still lasts.                          *)
(***************************************************************************)
EXTENDS Integers, FiniteSets, Readiness

CONSTANTS
    N,                \* bound: predictions, numbered in order of enrolment
    Scenario,         \* scenario ids: fingerprints of sets of files
    File,             \* evidence files watched by the hashes
    Category,         \* query categories
    Populations,      \* the specs that the N predictions may have
    One,              \* the whole weight, in weight units
    Floor,            \* MIN_FLOOR_WEIGHT
    CategoryDecay,    \* CATEGORY_SHIFT_CONFIDENCE_DECAY
    Confidences,      \* evidence deltas an LLM answer may carry (0: it failed)
    ConfidenceFloor,  \* _EVIDENCE_CONFIDENCE_FLOOR
    DraftThreshold,   \* evidence needed to synthesise a briefing
    PrimeGain,        \* evidence recorded when a fresh prompt is primed
    AdoptionBoost,    \* evidence recorded by an adoption
    EvidenceCap,      \* bound: evidence saturates here
    KeptGain,         \* on_kept_evidence_increment
    ProbationCycles,  \* _PROBATION_CYCLES
    RebalanceEvery,   \* _REBALANCE_EVERY_N
    MaxWorking,       \* bound: exploration tasks in flight, orphans included
    MaxVersion,       \* bound: versions a file goes through
    Restored          \* bound: versions in which a missing file comes back

Sources == {"arc", "pattern", "llm_branch", "macro", "history", "seed_prior",
            "goal", "horizon", "artefact_item", "composer_intent"}
Specificities == {"concrete", "category", "anchor"}
Anchors == Category \cup {"other"}   \* a category; else a query, item, session

ASSUME RegistryAssumption ==
    /\ N \in Nat
    /\ Populations \subseteq [1..N -> [source      : Sources,
                                       specificity : Specificities,
                                       anchor      : Anchors,
                                       matures     : BOOLEAN]]
    /\ One \in Nat /\ Floor \in Nat /\ Floor <= One
    /\ CategoryDecay \in Nat
    /\ Confidences \subseteq Nat
    /\ {ConfidenceFloor, DraftThreshold, PrimeGain, AdoptionBoost, EvidenceCap}
         \subseteq Nat
    /\ KeptGain \in Nat /\ ProbationCycles \in Nat
    /\ RebalanceEvery \in Nat /\ MaxWorking \in Nat /\ MaxVersion \in Nat

Pred == 1..N

VARIABLES
    spec,         \* the spec of each prediction: its feed, kind and anchor,
                  \* and whether its feed opts out of maturation
    reg,          \* _predictions: the entry of each prediction
    disk,         \* the version of each file in the working tree
    phase,        \* where precompute_cycle stands
    task,         \* the prediction it is priming, drafting or maturing
    candidates,   \* predictions selected for maturation and not yet reached
    held,         \* draft and evidence mature_one read before its awaits
    working,      \* the stage of each exploration task, by parent and scenario
    completions   \* completed_with_pid_box

vars == <<spec, reg, disk, phase, task, candidates, held, working, completions>>

cycle == <<phase, task, candidates, held>>
refinement == <<candidates, held>>

Stages == {"none", "asking", "completing"}
NoHash == -1                       \* no hash captured, or no such file
NoPred == 0
Hash == Int                        \* NoHash or a version
Kinds == {"briefing", "draft"}     \* the prepared artefacts of a prediction
Phases == {"idle", "reconciling", "merging", "merged", "priming", "exploring",
           "drafting", "refining", "maturing"}
NoWindow == -1                     \* not on probation
Drafts == {"draft"}                \* a draft_answer, or none: a subset of it
Snapshot == [draft : SUBSET Drafts, evidence : Nat]
NoSnapshot == [draft |-> {}, evidence |-> 0]

Entry == [readiness : ReadinessStates \cup {"absent"},
          weight    : Nat,
          evidence  : Nat,
          spent     : BOOLEAN,
          invalid   : BOOLEAN,           \* invalidation_reason is set
          prepared  : SUBSET Kinds,
          hashes    : [File -> Hash],    \* file_content_hashes
          window    : NoWindow..ProbationCycles,  \* probationary_until_cycle
          replaced  : Snapshot]          \* pre_maturation_* while it lasts

NoHashes == [f \in File |-> NoHash]

Absent == [readiness |-> "absent", weight |-> 0, evidence |-> 0,
           spent |-> FALSE, invalid |-> FALSE, prepared |-> {}, hashes |-> NoHashes,
           window |-> NoWindow, replaced |-> NoSnapshot]

Enrolled == {p \in Pred : reg[p].readiness # "absent"}
IsTerminal(e) == e.readiness \in {"stale", "absent"}
Active == {p \in Enrolled : ~IsTerminal(reg[p]) /\ ~reg[p].spent}

Saturate(n) == IF n > EvidenceCap THEN EvidenceCap ELSE n

-----------------------------------------------------------------------------
(* The methods of the registry, as functions from an entry to an entry.    *)

\* _transition: a move to the same state is a no-op, an illegal one raises
\* and leaves the entry as it is.
Transition(e, to) ==
    IF IsTransitionAllowed(e.readiness, to)
    THEN [e EXCEPT !.readiness = to]
    ELSE e

Enroll(weight) == [Absent EXCEPT !.readiness = "queued", !.weight = weight]

\* attach_scenario: the first scenario attached ends the wait in the queue.
\* complete_scenario only counts, and what tests the count has always just
\* raised it.
AttachScenario(e) ==
    IF e.readiness = "queued" THEN Transition(e, "grounding") ELSE e

RecordEvidence(e, delta) == [e EXCEPT !.evidence = Saturate(@ + delta)]

AttachArtifact(e, kinds, files) ==
    [e EXCEPT !.prepared = @ \cup kinds,
              !.hashes = [f \in File |->
                            IF f \in files /\ disk[f] # NoHash
                            THEN disk[f] ELSE @[f]]]

RecordAdoption(e) == [RecordEvidence(e, AdoptionBoost) EXCEPT !.spent = TRUE]

\* The populations rebalance() may produce from r: with no evidence anywhere
\* the weights stay; otherwise they are shares floored at Floor, and a
\* prediction without yield gets the floor.
Rebalanced(r) ==
    LET live == {p \in Pred : ~IsTerminal(r[p])}
        Weights == {w \in [live -> Floor..One] :
                      \A p \in live : r[p].evidence = 0 => w[p] = Floor}
    IN  IF \A p \in live : r[p].evidence = 0
        THEN {r}
        ELSE {[p \in Pred |-> IF p \in live
                              THEN [r[p] EXCEPT !.weight = w[p]]
                              ELSE r[p]] : w \in Weights}

-----------------------------------------------------------------------------
(* apply_invalidation_signals, one operator per kind of signal.            *)

StaledForgotten(e) == Absent   \* mutant: dropped from the table

Staled(e) == [Transition(e, "stale") EXCEPT !.invalid = TRUE]

OnCommit(p, e) ==
    IF IsTerminal(e) \/ spec[p].specificity = "concrete" THEN e ELSE Staled(e)

OnFileChangeKeepsStarved(changed, e) ==    \* mutant: never stales
    IF IsTerminal(e) \/ \A f \in changed : e.hashes[f] = NoHash
    THEN e
    ELSE [e EXCEPT !.weight = @ \div 2, !.prepared = {}, !.invalid = TRUE,
                   !.hashes = [f \in File |->
                     IF @[f] = NoHash THEN NoHash ELSE disk[f]]]

OnFileChangeKeepsDraft(changed, e) ==      \* mutant: clears only the briefing
    LET halved == e.weight \div 2
        cleared == [e EXCEPT !.weight = halved, !.invalid = TRUE,
                             !.prepared = @ \ {"briefing"},
                             !.hashes = [f \in File |->
                                IF @[f] = NoHash THEN NoHash ELSE disk[f]]]
    IN  IF IsTerminal(e) \/ \A f \in changed : e.hashes[f] = NoHash
        THEN e
        ELSE IF halved < Floor THEN Transition(cleared, "stale") ELSE cleared

OnFileChange(changed, e) ==
    LET halved == e.weight \div 2
        cleared == [e EXCEPT !.weight = halved,
                             !.prepared = {},
                             !.invalid = TRUE,
                             !.hashes = [f \in File |->
                                IF @[f] = NoHash THEN NoHash ELSE disk[f]]]
    IN  IF IsTerminal(e) \/ \A f \in changed : e.hashes[f] = NoHash
        THEN e
        ELSE IF halved < Floor THEN Transition(cleared, "stale") ELSE cleared

OnCategoryShift(p, from, e) ==
    LET decayed == IF e.weight > CategoryDecay THEN e.weight - CategoryDecay ELSE 0
        demoted == [e EXCEPT !.weight = decayed, !.invalid = TRUE]
    IN  IF IsTerminal(e) \/ spec[p].anchor # from
        THEN e
        ELSE IF decayed < Floor THEN Transition(demoted, "stale") ELSE demoted

\* build_file_change_signal over captured_all: the sweep keeps one captured
\* hash per path, that of the prediction enrolled last among its watchers.
Watchers(f) == {p \in Pred : ~IsTerminal(reg[p]) /\ reg[p].hashes[f] # NoHash}
LastWatcher(f) == CHOOSE p \in Watchers(f) : \A q \in Watchers(f) : q <= p
ChangedFiles ==
    {f \in File : /\ Watchers(f) # {}
                  /\ reg[LastWatcher(f)].hashes[f] # disk[f]}

OnProbation(e) == e.window # NoWindow

\* The cycle counter has gone up: every window lasts one cycle less.  The
\* snapshot of a window that is over is never read again.
Aged(e) ==
    IF e.window > 0 THEN [e EXCEPT !.window = @ - 1]
                    ELSE [e EXCEPT !.window = NoWindow, !.replaced = NoSnapshot]

\* rollback_kept_maturation: the draft that the maturation replaced is the
\* draft again, whatever the signals of this sweep have cleared.
RolledBack(e) ==
    [e EXCEPT !.prepared = (@ \ Drafts) \cup e.replaced.draft,
              !.evidence = e.replaced.evidence,
              !.window   = NoWindow,
              !.replaced = NoSnapshot]

\* The predictions apply_invalidation_signals has an outcome for.
Touched(p, commit, changed, from) ==
    /\ ~IsTerminal(reg[p])
    /\ \/ commit /\ spec[p].specificity # "concrete"
       \/ \E f \in changed : reg[p].hashes[f] # NoHash
       \/ spec[p].anchor = from

\* An entry after the signals, in the order of the code.
Signalled(p, commit, changed, from, e) ==
    LET afterCommit == IF commit THEN OnCommit(p, e) ELSE e
        afterFiles  == OnFileChange(changed, afterCommit)
    IN  OnCategoryShift(p, from, afterFiles)

\* The population after the sweep: a prediction on probation that a signal
\* has touched is rolled back.
Swept(commit, from) ==
    LET changed == ChangedFiles
    IN  [p \in Pred |->
           LET signalled == Signalled(p, commit, changed, from, Aged(reg[p]))
           IN  IF OnProbation(Aged(reg[p])) /\ Touched(p, commit, changed, from)
               THEN RolledBack(signalled) ELSE signalled]

-----------------------------------------------------------------------------
Init ==
    /\ spec \in Populations
    /\ reg = [p \in Pred |-> Absent]
    /\ disk \in [File -> {NoHash, 0}]
    /\ phase = "idle"
    /\ task = NoPred
    /\ candidates = {}
    /\ held = NoSnapshot
    /\ working = [t \in Pred \X Scenario |-> "none"]
    /\ completions = 0

(* The precompute cycle, from its top to its end.                          *)

\* _apply_cycle_invalidation: HEAD may have moved, files may differ from what
\* was captured, the user may have left a category.  The counter went up at
\* the top of the cycle, and nothing has read a window in between.
CycleSweep(commit, from) ==
    /\ phase = "idle"
    /\ reg' = Swept(commit, from)
    /\ phase' = IF Enrolled # {} /\ (commit \/ ChangedFiles # {})
                THEN "reconciling" ELSE "merging"
    /\ UNCHANGED <<spec, disk, task, refinement, working, completions>>

\* A cycle cancelled before its sweep has only raised the counter.
CycleCutShort ==
    /\ phase = "idle"
    /\ reg' = [p \in Pred |-> Aged(reg[p])]
    /\ UNCHANGED <<spec, disk, cycle, working, completions>>

Contradicted(e) == Staled([e EXCEPT !.weight = e.weight \div 4])
Stalled(e) == [e EXCEPT !.weight = e.weight \div 2, !.invalid = TRUE]

\* apply_item_state_delta, once per delta of a reconciled artefact.
ItemStateDelta(p, to) ==
    /\ phase = "reconciling"
    /\ p \in Enrolled /\ spec[p].source = "artefact_item"
    /\ \/ /\ to = "complete"
          /\ reg' = [reg EXCEPT ![p] = RecordAdoption(@)]
       \/ /\ to = "contradicted"
          /\ reg' = [reg EXCEPT ![p] = Contradicted(@)]
       \/ /\ to = "stalled"
          /\ reg' = [reg EXCEPT ![p] = Stalled(@)]
    /\ UNCHANGED <<spec, disk, cycle, working, completions>>

\* merge: predictions known from an earlier cycle keep their entry, new ones
\* are enrolled with a share of the weight.  The frontier, the semaphore and
\* the rebalance counter of the cycle are created after it.
MergeSpecs(batch) ==
    /\ phase \in {"reconciling", "merging"}
    /\ LET new == {p \in batch : p \notin Enrolled}
       IN  /\ \A p \in new, q \in Enrolled : q < p
           /\ \E share \in [new -> Floor..One] :
                /\ \A p \in new : new = {p} => share[p] = One
                /\ reg' = [p \in Pred |-> IF p \in new THEN Enroll(share[p])
                                                       ELSE reg[p]]
    /\ phase' = "merged"
    /\ completions' = 0
    /\ UNCHANGED <<spec, disk, task, refinement, working>>

\* _prime_latest_history_query_prediction chooses its candidate, awaits the
\* package for it and only then writes to the registry.
PrimeStart(p) ==
    /\ phase = "merged"
    /\ p \in Active
    /\ spec[p].source = "history" /\ spec[p].specificity = "concrete"
    /\ ~(reg[p].readiness = "ready" /\ "briefing" \in reg[p].prepared)
    /\ phase' = "priming" /\ task' = p
    /\ UNCHANGED <<spec, reg, disk, refinement, working, completions>>

Primed(e, files) ==
    LET gathered == RecordEvidence(AttachScenario(e), PrimeGain)
        grounded == IF gathered.readiness = "grounding"
                    THEN Transition(gathered, "evidence_gathering")
                    ELSE gathered
        drafting == IF grounded.readiness = "evidence_gathering"
                    THEN Transition(grounded, "drafting")
                    ELSE grounded
        briefed == AttachArtifact(drafting, {"briefing"}, files)
    IN  IF briefed.readiness = "drafting"
        THEN Transition(briefed, "ready") ELSE briefed

PrimeFinish(files) ==
    /\ phase = "priming"
    /\ reg' = [reg EXCEPT ![task] = Primed(@, files)]
    /\ phase' = "exploring" /\ task' = NoPred
    /\ UNCHANGED <<spec, disk, refinement, working, completions>>

\* No candidate for the latest query, or no package could be built for it.
PrimeNothing ==
    /\ phase \in {"merged", "priming"}
    /\ phase' = "exploring" /\ task' = NoPred
    /\ UNCHANGED <<spec, reg, disk, refinement, working, completions>>

\* _precompute_predicted_responses drafts one macro at a time: the LLM writes
\* from the evidence on disk now, the entry is updated when it has answered.
DraftStart(p) ==
    /\ phase = "exploring"
    /\ p \in Enrolled /\ spec[p].source = "pattern"
    /\ phase' = "drafting" /\ task' = p
    /\ UNCHANGED <<spec, reg, disk, refinement, working, completions>>

MacroDraftedBlindly(e, kinds, files) ==    \* mutant: ignores the current state
    [AttachArtifact(e, kinds, files) EXCEPT !.readiness = "ready"]

MacroDrafted(e, kinds, files) ==
    LET climbing == e.readiness \in {"queued", "grounding",
                                     "evidence_gathering", "drafting"}
        drafting == IF climbing THEN [e EXCEPT !.readiness = "drafting"] ELSE e
        attached == AttachArtifact(drafting, kinds, files)
    IN  IF climbing THEN Transition(attached, "ready") ELSE attached

DraftFinish(kinds, files) ==
    /\ phase = "drafting"
    /\ reg' = [reg EXCEPT ![task] = MacroDrafted(@, {"draft"} \cup kinds, files)]
    /\ phase' = "exploring" /\ task' = NoPred
    /\ UNCHANGED <<spec, disk, refinement, working, completions>>

DraftFail ==
    /\ phase = "drafting"
    /\ phase' = "exploring" /\ task' = NoPred
    /\ UNCHANGED <<spec, reg, disk, refinement, working, completions>>

\* _run_background_refinement_pass selects among the predictions on offer; the
\* caps on revisions and failures, which only make the choice smaller, are in
\* AdoptionOutcomes, as is what a cycle does to the queue and log of adoptions.
RefineStart(chosen) ==
    /\ phase = "exploring"
    /\ chosen # {}
    /\ \A p \in chosen : /\ p \in Active /\ spec[p].matures
                         /\ reg[p].readiness = "ready" /\ ~OnProbation(reg[p])
    /\ phase' = "refining" /\ candidates' = chosen
    /\ UNCHANGED <<spec, reg, disk, task, held, working, completions>>

\* mature_one reads draft and evidence, then awaits the drafter and the judge.
MatureStart(p) ==
    /\ phase = "refining"
    /\ p \in candidates /\ ~IsTerminal(reg[p])
    /\ phase' = "maturing" /\ task' = p
    /\ candidates' = candidates \ {p}
    /\ held' = [draft    |-> reg[p].prepared \cap Drafts,
                evidence |-> reg[p].evidence]
    /\ UNCHANGED <<spec, reg, disk, working, completions>>

\* It writes whatever has become of the entry, and captures no hashes.
Matured(e, old) ==
    [e EXCEPT !.prepared = @ \cup Drafts,
              !.evidence = Saturate(old.evidence + KeptGain),
              !.window   = ProbationCycles,
              !.replaced = old]

MatureDone(kept) ==
    /\ phase = "maturing"
    /\ reg' = IF kept THEN [reg EXCEPT ![task] = Matured(@, held)] ELSE reg
    /\ phase' = "refining" /\ task' = NoPred /\ held' = NoSnapshot
    /\ UNCHANGED <<spec, disk, candidates, working, completions>>

\* The end of a cycle, with or without a refinement pass: the pass may stop
\* before the last candidate (a user's request, the deadline).
CycleEnd ==
    /\ phase \in {"exploring", "refining"}
    /\ phase' = "idle" /\ candidates' = {}
    /\ UNCHANGED <<spec, reg, disk, task, held, working, completions>>

\* The worker process cancels a running cycle when fresher work arrives.
CyclePreempted ==
    /\ phase # "idle"
    /\ phase' = "idle" /\ task' = NoPred
    /\ candidates' = {} /\ held' = NoSnapshot
    /\ UNCHANGED <<spec, reg, disk, working, completions>>

-----------------------------------------------------------------------------
(* _process_scenario: three critical sections, with an LLM call      *)
(* between the first and the second when the scenario deserves one.  A     *)
(* preempted cycle leaves its tasks running, so a task is not confined to  *)
(* the phase, nor to the cycle, that started it.                           *)

WorkerAttach(p, s, useLlm) ==
    /\ phase = "exploring"
    /\ p \in Enrolled /\ working[<<p, s>>] = "none"
    /\ Cardinality({t \in Pred \X Scenario : working[t] # "none"}) < MaxWorking
    /\ reg' = [reg EXCEPT ![p] = AttachScenario(@)]
    /\ working' = [working EXCEPT ![<<p, s>>] =
                      IF useLlm THEN "asking" ELSE "completing"]
    /\ UNCHANGED <<spec, disk, cycle, completions>>

Recorded(e, confidence) ==
    LET gathered == RecordEvidence(e, confidence)
    IN  IF e.readiness = "grounding" /\ confidence >= ConfidenceFloor
        THEN Transition(gathered, "evidence_gathering") ELSE gathered

WorkerRecord(p, s, confidence) ==
    /\ working[<<p, s>>] = "asking"
    /\ reg' = [reg EXCEPT ![p] = Recorded(@, confidence)]
    /\ working' = [working EXCEPT ![<<p, s>>] = "completing"]
    /\ UNCHANGED <<spec, disk, cycle, completions>>

DraftDue(e) ==
    /\ e.readiness = "evidence_gathering"
    /\ e.evidence >= DraftThreshold
    /\ "briefing" \notin e.prepared

BriefedWithoutBriefing(e, files) ==        \* mutant: nothing attached
    Transition(Transition(e, "drafting"), "ready")

BriefedUnfinished(e, files) ==             \* mutant: left in "drafting"
    AttachArtifact(Transition(e, "drafting"), {"briefing"}, files)

Briefed(e, files) ==
    Transition(AttachArtifact(Transition(e, "drafting"), {"briefing"}, files),
               "ready")

WorkerComplete(p, s, files) ==
    /\ working[<<p, s>>] = "completing"
    /\ LET due == completions + 1 >= RebalanceEvery
       IN  /\ \E r \in (IF due THEN Rebalanced(reg) ELSE {reg}) :
                reg' = [r EXCEPT ![p] = IF DraftDue(@) THEN Briefed(@, files) ELSE @]
           /\ completions' = IF due THEN 0 ELSE completions + 1
    /\ working' = [working EXCEPT ![<<p, s>>] = "none"]
    /\ UNCHANGED <<spec, disk, cycle>>

-----------------------------------------------------------------------------
(* The other callers: composer feed, adoption endpoints, file edits.       *)

\* _on_composer_snapshot: merge of a single spec, then queued -> grounding.
ComposerSnapshot(p) ==
    /\ spec[p].source = "composer_intent"
    /\ p \notin Enrolled => \A q \in Enrolled : q < p
    /\ LET e == IF p \in Enrolled THEN reg[p] ELSE Enroll(One)
       IN  reg' = [reg EXCEPT ![p] =
                     IF e.readiness = "queued"
                     THEN Transition(e, "grounding") ELSE e]
    /\ UNCHANGED <<spec, disk, cycle, working, completions>>

\* predictions_adopt (HTTP) and vaner.predictions.adopt (MCP).
Adopt(p) ==
    /\ p \in Enrolled
    /\ reg' = [reg EXCEPT ![p] = RecordAdoption(@)]
    /\ UNCHANGED <<spec, disk, cycle, working, completions>>

\* The developer writes a new version of a file, or deletes it.
FileEdit(f, version) ==
    /\ version = NoHash \/ (version > disk[f] /\ version <= MaxVersion)
    /\ disk[f] = NoHash => version \in Restored
    /\ version # disk[f]
    /\ disk' = [disk EXCEPT ![f] = version]
    /\ UNCHANGED <<spec, reg, cycle, working, completions>>

-----------------------------------------------------------------------------
NoCategory == "none"

Cycle ==
    \/ \E commit \in BOOLEAN, from \in Category \cup {NoCategory} :
         CycleSweep(commit, from)
    \/ CycleCutShort
    \/ \E p \in Pred, to \in {"complete", "contradicted", "stalled"} :
         ItemStateDelta(p, to)
    \/ \E batch \in SUBSET Pred : MergeSpecs(batch)
    \/ \E p \in Pred : PrimeStart(p) \/ DraftStart(p)
    \/ \E files \in SUBSET File : PrimeFinish(files)
    \/ PrimeNothing
    \/ \E kinds \in SUBSET {"briefing"}, files \in SUBSET File :
         DraftFinish(kinds, files)
    \/ DraftFail
    \/ \E chosen \in SUBSET Pred : RefineStart(chosen)
    \/ \E p \in Pred : MatureStart(p)
    \/ \E kept \in BOOLEAN : MatureDone(kept)
    \/ CycleEnd
    \/ CyclePreempted

Workers ==
    \E p \in Pred, s \in Scenario :
      \/ \E useLlm \in BOOLEAN : WorkerAttach(p, s, useLlm)
      \/ \E confidence \in Confidences : WorkerRecord(p, s, confidence)
      \/ \E files \in SUBSET File : WorkerComplete(p, s, files)

Others ==
    \/ \E p \in Pred : ComposerSnapshot(p) \/ Adopt(p)
    \/ \E f \in File, version \in NoHash..MaxVersion : FileEdit(f, version)

Next == Cycle \/ Workers \/ Others

Spec == Init /\ [][Next]_vars

-----------------------------------------------------------------------------
TypeOK ==
    /\ spec \in Populations
    /\ reg \in [Pred -> Entry]
    /\ disk \in [File -> Hash]
    /\ phase \in Phases
    /\ task \in Pred \cup {NoPred}
    /\ phase \in {"priming", "drafting", "maturing"} => task \in Pred
    /\ candidates \in SUBSET Enrolled
    /\ held \in Snapshot
    /\ working \in [Pred \X Scenario -> Stages]
    /\ completions \in Nat
    /\ \A t \in Pred \X Scenario : working[t] # "none" => t[1] \in Enrolled
    /\ task # NoPred => task \in Enrolled

\* A prediction offered as ready has a briefing or a draft, unless a signal
\* took them away: workers, the primer and the drafter may interleave with
\* sweeps, and none of them may announce a prediction before it is prepared.
ReadyIsPrepared ==
    \A p \in Pred : reg[p].readiness = "ready" => reg[p].prepared # {} \/ reg[p].invalid

\* rebalance (prediction_registry.py:440) promises that no admitted prediction
\* is starved below the floor.  Only the items reported stalled or
\* contradicted by a reconciliation may be; decay stales every other one.
OnlyStallStarves ==
    \A p \in Pred : ~IsTerminal(reg[p]) /\ reg[p].weight < Floor
                     => spec[p].source = "artefact_item" /\ reg[p].invalid

\* Whoever moves a prediction to "drafting" moves it on to "ready" before
\* another task runs: no step finds a prediction half drafted, so a cancelled
\* cycle cannot leave one that nobody would pick up again.
DraftingNeverRests == \A p \in Pred : reg[p].readiness # "drafting"

Rank == [absent |-> 0, queued |-> 1, grounding |-> 2, evidence_gathering |-> 3,
         drafting |-> 4, ready |-> 5, stale |-> 6]

\* Whatever order sweeps, late workers, drafts and adoptions come in, a
\* prediction never climbs down, a stale one never comes back and an adopted
\* one is never offered again.
NeverRegresses ==
    [][\A p \in Pred : /\ Rank[reg[p].readiness] <= Rank[reg'[p].readiness]
                       /\ reg[p].spent => reg'[p].spent]_vars

CapturesAgree ==
    \A f \in File : \A p, q \in Watchers(f) : reg[p].hashes[f] = reg[q].hashes[f]

Sweeps == phase = "idle" /\ phase' # "idle"

Moved(e) == \E f \in File : e.hashes[f] \notin {NoHash, disk[f]}

\* A live prediction whose evidence has moved is left with the draft a
\* rollback gives back, and with nothing when there is none to give back.
KeepsOnlyReplaced(p) ==
    ~IsTerminal(reg'[p]) /\ Moved(reg[p])
      => reg'[p].prepared = Aged(reg[p]).replaced.draft

\* The sweep clears everything prepared from evidence that has moved on disk,
\* the briefing and the matured draft included, as long as the predictions
\* that watch a file captured the same version of it.  What it gives back is
\* the draft that a maturation still on probation had replaced, no other.
SweepDropsMovedEvidence ==
    [][Sweeps /\ CapturesAgree => \A p \in Pred : KeepsOnlyReplaced(p)]_vars

\* The same without the proviso, which the comment at engine.py:3569 gives as
\* a fact: "all predictions watching the same path captured it at the same
\* time (they share the same cycle's disk state)".
SweepDropsAllMovedEvidence ==
    [][Sweeps => \A p \in Pred : KeepsOnlyReplaced(p)]_vars

=============================================================================
