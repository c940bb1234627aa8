----------------------- MODULE PredictionRegistryProofs -----------------------
(***************************************************************************)
(* Proofs about the prediction registry, for any number of predictions,    *)
(* files and scenarios and any weights and thresholds.  The lemmas follow  *)
(* the methods of the registry: what a method does to one entry is proved  *)
(* once, and an action is a method applied to some entries.                *)
(***************************************************************************)
EXTENDS PredictionRegistry, WellFoundedInduction, TLAPS

-----------------------------------------------------------------------------
(* What every method keeps of an entry, and never undoes.                  *)

\* A live entry is never at rest in "drafting", is prepared when it is ready
\* and keeps its floor; the three invariants of the registry, for one entry.
Sound(p, e) ==
    /\ e \in Entry
    /\ e.readiness # "drafting"
    /\ e.readiness = "ready" => e.prepared # {} \/ e.invalid
    /\ ~IsTerminal(e) /\ e.weight < Floor
         => spec[p].source = "artefact_item" /\ e.invalid

Climbs(e, d) ==
    /\ Rank[e.readiness] <= Rank[d.readiness]
    /\ e.spent => d.spent

\* What a method called on an enrolled entry e may turn it into.
Legal(p, e, d) ==
    /\ Sound(p, d)
    /\ Climbs(e, d)
    /\ d.readiness # "absent"

\* Filling in an artefact or some evidence leaves the rest of the run alone.
SameRun(e, d) ==
    /\ d \in Entry
    /\ d.readiness = e.readiness
    /\ d.weight = e.weight
    /\ d.spent = e.spent
    /\ d.invalid = e.invalid

\* The probation of an entry is left alone.
SameProbation(e, d) == d.window = e.window /\ d.replaced = e.replaced

USE RegistryAssumption DEF cycle, refinement

\* A transition changes only the readiness, and only along the table.
LEMMA TransitionEffect ==
    ASSUME NEW e \in Entry, NEW to \in ReadinessStates,
           e.readiness # "absent"
    PROVE  /\ Transition(e, to) \in Entry
           /\ Transition(e, to).weight = e.weight
           /\ Transition(e, to).spent = e.spent
           /\ Transition(e, to).invalid = e.invalid
           /\ Transition(e, to).prepared = e.prepared
           /\ Transition(e, to).hashes = e.hashes
           /\ SameProbation(e, Transition(e, to))
           /\ Rank[e.readiness] <= Rank[Transition(e, to).readiness]
           /\ Transition(e, to).readiness
                = IF IsTransitionAllowed(e.readiness, to) THEN to ELSE e.readiness
  <1>1. CASE IsTransitionAllowed(e.readiness, to)
    <2>1. Transition(e, to) = [e EXCEPT !.readiness = to]
      BY <1>1 DEF Transition
    <2>2. e.readiness \in ReadinessStates
      BY DEF Entry
    <2>3. Rank[e.readiness] <= Rank[to]
      BY <1>1, <2>2 DEF IsTransitionAllowed, AllowedTransitions, ReadinessStates, Rank
    <2> QED
      BY <1>1, <2>1, <2>2, <2>3 DEF Entry, ReadinessStates, SameProbation
  <1>2. CASE ~IsTransitionAllowed(e.readiness, to)
    <2>1. Transition(e, to) = e
      BY <1>2 DEF Transition
    <2>2. Rank[e.readiness] \in Int
      BY DEF Entry, Rank, ReadinessStates
    <2> QED
      BY <1>2, <2>1, <2>2 DEF SameProbation
  <1> QED
    BY <1>1, <1>2

\* Every live entry may be staled; the rungs in between need the one before.
LEMMA TableFacts ==
    /\ \A from \in ReadinessStates \ {"stale"} : IsTransitionAllowed(from, "stale")
    /\ IsTransitionAllowed("queued", "grounding")
    /\ IsTransitionAllowed("grounding", "evidence_gathering")
    /\ IsTransitionAllowed("evidence_gathering", "drafting")
    /\ IsTransitionAllowed("drafting", "ready")
  BY DEF IsTransitionAllowed, AllowedTransitions, ReadinessStates

\* Ranks are numbers, so the arithmetic of the solver applies to them.
LEMMA RankIsInt == \A r \in ReadinessStates \cup {"absent"} : Rank[r] \in Int
  BY DEF Rank, ReadinessStates

\* The six states, spelled out for the leaves that need one of them.
LEMMA StatesAre ==
    {"queued", "grounding", "evidence_gathering", "drafting", "ready", "stale"}
      \subseteq ReadinessStates
  BY DEF ReadinessStates

\* Saturated evidence is still a natural number.
LEMMA SaturateIsNat == \A n \in Nat : Saturate(n) \in Nat
  BY DEF Saturate

\* What the methods that only fill in fields do to each of them.
LEMMA RecordEvidenceEffect ==
    ASSUME NEW e \in Entry, NEW delta \in Nat
    PROVE  /\ SameRun(e, RecordEvidence(e, delta))
           /\ RecordEvidence(e, delta).prepared = e.prepared
  <1>1. e.evidence + delta \in Nat
    BY DEF Entry
  <1>2. Saturate(e.evidence + delta) \in Nat
    BY <1>1, SaturateIsNat
  <1> QED
    BY <1>2 DEF RecordEvidence, Entry, SameRun

\* An adoption adds evidence and sets the spent mark, nothing else.
LEMMA RecordAdoptionEffect ==
    ASSUME NEW e \in Entry
    PROVE  /\ RecordAdoption(e) \in Entry
           /\ RecordAdoption(e).readiness = e.readiness
           /\ RecordAdoption(e).weight = e.weight
           /\ RecordAdoption(e).spent = TRUE
           /\ RecordAdoption(e).invalid = e.invalid
           /\ RecordAdoption(e).prepared = e.prepared
  <1> DEFINE g == RecordEvidence(e, AdoptionBoost)
  <1>1. /\ g \in Entry
        /\ g.readiness = e.readiness /\ g.weight = e.weight
        /\ g.invalid = e.invalid /\ g.prepared = e.prepared
    BY RecordEvidenceEffect DEF SameRun
  <1>2. RecordAdoption(e) = [g EXCEPT !.spent = TRUE]
    BY DEF RecordAdoption
  <1> HIDE DEF g
  <1> QED
    BY <1>1, <1>2 DEF Entry

\* Attaching adds kinds and hashes and keeps the rest of the entry.
LEMMA AttachArtifactEffect ==
    ASSUME NEW e \in Entry, NEW kinds \in SUBSET Kinds, NEW files \in SUBSET File,
           disk \in [File -> Hash]
    PROVE  /\ SameRun(e, AttachArtifact(e, kinds, files))
           /\ AttachArtifact(e, kinds, files).prepared = e.prepared \cup kinds
  <1> DEFINE h == [f \in File |-> IF f \in files /\ disk[f] # NoHash
                                 THEN disk[f] ELSE e.hashes[f]]
  <1>1. e.hashes \in [File -> Hash]
    BY DEF Entry
  <1>2. h \in [File -> Hash]
    BY <1>1
  <1>3. AttachArtifact(e, kinds, files)
          = [e EXCEPT !.prepared = e.prepared \cup kinds, !.hashes = h]
    BY DEF AttachArtifact
  <1> HIDE DEF h
  <1>4. e.prepared \cup kinds \in SUBSET Kinds
    BY DEF Entry
  <1> QED
    BY <1>2, <1>3, <1>4 DEF Entry, SameRun

-----------------------------------------------------------------------------
(* The methods, and the sequences of calls the handlers make, are legal.   *)

\* The first scenario attached moves a queued entry one rung up.
LEMMA AttachScenarioLegal ==
    ASSUME NEW p \in Pred, NEW e, Sound(p, e), e.readiness # "absent"
    PROVE  Legal(p, e, AttachScenario(e))
  <1>1. e \in Entry
    BY DEF Sound
  <1>2. CASE e.readiness = "queued"
    <2>1. AttachScenario(e) = Transition(e, "grounding")
      BY <1>2 DEF AttachScenario
    <2>2. Transition(e, "grounding").readiness = "grounding"
      BY <1>1, <1>2, TransitionEffect, TableFacts, StatesAre
    <2> QED
      BY <1>1, <1>2, <2>1, <2>2, TransitionEffect, StatesAre
      DEF Legal, Sound, Climbs, IsTerminal
  <1>3. CASE e.readiness # "queued"
    BY <1>1, <1>3, RankIsInt DEF AttachScenario, Legal, Climbs, Sound, Entry
  <1> QED
    BY <1>2, <1>3

\* An adoption is a legal change of an entry.
LEMMA RecordAdoptionLegal ==
    ASSUME NEW p \in Pred, NEW e, Sound(p, e), e.readiness # "absent"
    PROVE  Legal(p, e, RecordAdoption(e))
  <1>1. e \in Entry
    BY DEF Sound
  <1>2. Rank[e.readiness] \in Int
    BY <1>1, RankIsInt DEF Entry
  <1> DEFINE a == RecordAdoption(e)
  <1>3. /\ a \in Entry
        /\ a.readiness = e.readiness /\ a.weight = e.weight
        /\ a.invalid = e.invalid /\ a.prepared = e.prepared
    BY <1>1, RecordAdoptionEffect
  <1>4. a.spent
    BY <1>1, RecordAdoptionEffect
  <1> HIDE DEF a
  <1>5. Sound(p, a)
    BY <1>3 DEF Sound, IsTerminal
  <1>6. Climbs(e, a)
    BY <1>2, <1>3, <1>4 DEF Climbs
  <1> QED
    BY <1>3, <1>5, <1>6 DEF Legal, a

\* So is recording the evidence of an LLM answer, with its conditional rung.
LEMMA RecordedLegal ==
    ASSUME NEW p \in Pred, NEW e, Sound(p, e), e.readiness # "absent",
           NEW confidence \in Confidences
    PROVE  Legal(p, e, Recorded(e, confidence))
  <1> DEFINE g == RecordEvidence(e, confidence)
  <1>1. e \in Entry /\ confidence \in Nat
    BY DEF Sound
  <1>2. /\ g \in Entry
        /\ g.readiness = e.readiness /\ g.weight = e.weight
        /\ g.spent = e.spent /\ g.invalid = e.invalid
        /\ g.prepared = e.prepared
    BY <1>1, RecordEvidenceEffect DEF SameRun
  <1>3. Recorded(e, confidence) \in {g, Transition(g, "evidence_gathering")}
    BY DEF Recorded
  <1> HIDE DEF g
  <1>4. CASE Recorded(e, confidence) = g
    <2>1. Rank[e.readiness] \in Int
      BY <1>1, RankIsInt DEF Entry
    <2> QED
      BY <1>2, <1>4, <2>1 DEF Legal, Climbs, Sound, IsTerminal
  <1>5. CASE Recorded(e, confidence) = Transition(g, "evidence_gathering")
    <2> DEFINE t == Transition(g, "evidence_gathering")
    <2>1. /\ t \in Entry
          /\ t.weight = g.weight /\ t.spent = g.spent /\ t.invalid = g.invalid
          /\ t.prepared = g.prepared
          /\ Rank[g.readiness] <= Rank[t.readiness]
          /\ t.readiness \in {"evidence_gathering", g.readiness}
      BY <1>2, TransitionEffect, StatesAre
    <2> HIDE DEF t
    <2>2. Recorded(e, confidence) = t
      BY <1>5 DEF t
    <2>3. t.readiness = "stale" => g.readiness = "stale"
      BY <2>1
    <2>4. g.readiness = "stale" => t.readiness = "stale"
      BY <1>2, TransitionEffect, StatesAre DEF t, IsTransitionAllowed, AllowedTransitions
    <2> QED
      BY <1>2, <2>1, <2>2, <2>3, <2>4 DEF Legal, Climbs, Sound, IsTerminal
  <1> QED
    BY <1>3, <1>4, <1>5

\* Drafting in one go, from any rung below "drafting": up to it, attach, on to
\* "ready".
LEMMA DraftedLegal ==
    ASSUME NEW p \in Pred, NEW e, Sound(p, e),
           NEW d \in Entry, d.readiness = "drafting",
           d.weight = e.weight, d.spent = e.spent, d.invalid = e.invalid,
           Rank[e.readiness] <= Rank["drafting"],
           NEW kinds \in SUBSET Kinds, kinds # {}, NEW files \in SUBSET File,
           disk \in [File -> Hash], ~IsTerminal(e)
    PROVE  Legal(p, e, Transition(AttachArtifact(d, kinds, files), "ready"))
  <1> DEFINE a == AttachArtifact(d, kinds, files)
             r == Transition(a, "ready")
  <1>1. SameRun(d, a) /\ a.prepared = d.prepared \cup kinds
    BY AttachArtifactEffect
  <1> HIDE DEF a
  <1>2. /\ r \in Entry
        /\ r.readiness = "ready" /\ r.weight = a.weight /\ r.spent = a.spent
        /\ r.invalid = a.invalid /\ r.prepared = a.prepared
    BY <1>1, TransitionEffect, TableFacts, StatesAre DEF SameRun
  <1> HIDE DEF r
  <1>3. Sound(p, r)
    BY <1>1, <1>2 DEF Sound, IsTerminal, SameRun
  <1>4. Rank[e.readiness] <= Rank["ready"]
    <2>1. e.readiness \in ReadinessStates \cup {"absent"}
      BY DEF Sound, Entry
    <2> QED
      BY <2>1 DEF Rank, ReadinessStates
  <1> QED
    BY <1>1, <1>2, <1>3, <1>4 DEF Legal, Climbs, SameRun, a, r

\* The synthesis of a briefing goes through drafting and ends on ready.
LEMMA BriefedLegal ==
    ASSUME NEW p \in Pred, NEW e, Sound(p, e), DraftDue(e),
           NEW files \in SUBSET File, disk \in [File -> Hash]
    PROVE  Legal(p, e, Briefed(e, files))
  <1>1. e \in Entry /\ e.readiness = "evidence_gathering"
    BY DEF Sound, DraftDue
  <1> DEFINE d == Transition(e, "drafting")
  <1>2. /\ d \in Entry /\ d.readiness = "drafting" /\ d.weight = e.weight
        /\ d.spent = e.spent /\ d.invalid = e.invalid
    BY <1>1, TransitionEffect, TableFacts, StatesAre
  <1> HIDE DEF d
  <1>3. ~IsTerminal(e) /\ Rank[e.readiness] <= Rank["drafting"]
    BY <1>1 DEF IsTerminal, Rank
  <1>4. {"briefing"} \in SUBSET Kinds /\ {"briefing"} # {}
    BY DEF Kinds
  <1>5. Legal(p, e, Transition(AttachArtifact(d, {"briefing"}, files), "ready"))
    BY <1>2, <1>3, <1>4, DraftedLegal
  <1> QED
    BY <1>5 DEF Briefed, d

\* Attaching to an entry that is not being drafted changes no rung.
LEMMA AttachedLegal ==
    ASSUME NEW p \in Pred, NEW e, Sound(p, e), e.readiness # "absent",
           NEW kinds \in SUBSET Kinds, NEW files \in SUBSET File,
           disk \in [File -> Hash]
    PROVE  Legal(p, e, AttachArtifact(e, kinds, files))
  <1> DEFINE a == AttachArtifact(e, kinds, files)
  <1>1. e \in Entry /\ Rank[e.readiness] \in Int
    BY RankIsInt DEF Sound, Entry
  <1>2. SameRun(e, a) /\ a.prepared = e.prepared \cup kinds
    BY <1>1, AttachArtifactEffect
  <1> HIDE DEF a
  <1>3. Legal(p, e, a)
    BY <1>1, <1>2 DEF Legal, Climbs, Sound, IsTerminal, SameRun
  <1> QED
    BY <1>3 DEF a

\* A macro draft climbs to ready from any rung below, or only attaches.
LEMMA MacroDraftedLegal ==
    ASSUME NEW p \in Pred, NEW e, Sound(p, e), e.readiness # "absent",
           NEW kinds \in SUBSET Kinds, kinds # {}, NEW files \in SUBSET File,
           disk \in [File -> Hash]
    PROVE  Legal(p, e, MacroDrafted(e, kinds, files))
  <1> DEFINE climbing == e.readiness \in {"queued", "grounding",
                                          "evidence_gathering", "drafting"}
  <1>1. e \in Entry
    BY DEF Sound
  <1>2. CASE climbing
    <2> DEFINE d == [e EXCEPT !.readiness = "drafting"]
    <2>1. /\ d \in Entry /\ d.readiness = "drafting" /\ d.weight = e.weight
          /\ d.spent = e.spent /\ d.invalid = e.invalid
      BY <1>1 DEF Entry, ReadinessStates
    <2>2. MacroDrafted(e, kinds, files)
            = Transition(AttachArtifact(d, kinds, files), "ready")
      BY <1>2 DEF MacroDrafted
    <2> HIDE DEF d
    <2>3. ~IsTerminal(e) /\ Rank[e.readiness] <= Rank["drafting"]
      BY <1>2 DEF IsTerminal, Rank
    <2>4. Legal(p, e, Transition(AttachArtifact(d, kinds, files), "ready"))
      BY <2>1, <2>3, DraftedLegal
    <2> QED
      BY <2>2, <2>4
  <1>3. CASE ~climbing
    <2>1. MacroDrafted(e, kinds, files) = AttachArtifact(e, kinds, files)
      BY <1>3 DEF MacroDrafted
    <2> QED
      BY <2>1, AttachedLegal
  <1> QED
    BY <1>2, <1>3

\* A chain of legal changes is legal.
LEMMA LegalChain ==
    ASSUME NEW p \in Pred, NEW e, NEW d, NEW c, e \in Entry,
           Legal(p, e, d), Legal(p, d, c)
    PROVE  Legal(p, e, c)
  <1>1. /\ Rank[e.readiness] \in Int /\ Rank[d.readiness] \in Int
        /\ Rank[c.readiness] \in Int
    BY RankIsInt DEF Legal, Sound, Entry
  <1> QED
    BY <1>1 DEF Legal, Climbs

\* A transition that is not to "ready" nor to "drafting" is legal.
LEMMA TransitionLegal ==
    ASSUME NEW p \in Pred, NEW e, Sound(p, e), e.readiness # "absent",
           NEW to \in {"grounding", "evidence_gathering", "stale"}
    PROVE  Legal(p, e, Transition(e, to))
  <1> DEFINE t == Transition(e, to)
  <1>1. e \in Entry /\ to \in ReadinessStates
    BY StatesAre DEF Sound
  <1>2. /\ t \in Entry
        /\ t.weight = e.weight /\ t.spent = e.spent /\ t.invalid = e.invalid
        /\ t.prepared = e.prepared
        /\ Rank[e.readiness] <= Rank[t.readiness]
        /\ t.readiness
             = IF IsTransitionAllowed(e.readiness, to) THEN to ELSE e.readiness
    BY <1>1, TransitionEffect
  <1>3. ~IsTransitionAllowed("stale", to)
    BY DEF IsTransitionAllowed, AllowedTransitions
  <1> HIDE DEF t
  <1>4. ~IsTerminal(t) => ~IsTerminal(e)
    BY <1>2, <1>3 DEF IsTerminal
  <1>5. Sound(p, t)
    BY <1>2, <1>4 DEF Sound
  <1>6. Legal(p, e, t)
    BY <1>2, <1>5 DEF Legal, Climbs
  <1> QED
    BY <1>6 DEF t

\* Priming walks the whole ladder in one step, with the briefing on the way.
LEMMA PrimedLegal ==
    ASSUME NEW p \in Pred, NEW e, Sound(p, e), e.readiness # "absent",
           NEW files \in SUBSET File, disk \in [File -> Hash]
    PROVE  Legal(p, e, Primed(e, files))
  <1> DEFINE attached == AttachScenario(e)
             gathered == RecordEvidence(attached, PrimeGain)
             grounded == IF gathered.readiness = "grounding"
                         THEN Transition(gathered, "evidence_gathering")
                         ELSE gathered
             drafting == Transition(grounded, "drafting")
  <1>1. e \in Entry /\ {"briefing"} \in SUBSET Kinds /\ {"briefing"} # {}
    BY DEF Sound, Kinds
  <1>2. Legal(p, e, attached)
    BY AttachScenarioLegal
  <1> HIDE DEF attached
  <1>3. attached \in Entry /\ Rank[attached.readiness] \in Int
    BY <1>2, RankIsInt DEF Legal, Sound, Entry
  <1>4. SameRun(attached, gathered) /\ gathered.prepared = attached.prepared
    BY <1>3, RecordEvidenceEffect
  <1> HIDE DEF gathered
  <1>5. Legal(p, attached, gathered)
    BY <1>2, <1>3, <1>4 DEF Legal, Climbs, Sound, IsTerminal, SameRun
  <1>6. Legal(p, gathered, grounded)
    <2>1. CASE gathered.readiness = "grounding"
      BY <1>5, <2>1, TransitionLegal DEF Legal
    <2>2. CASE gathered.readiness # "grounding"
      BY <1>3, <1>4, <1>5, <2>2 DEF Legal, Climbs, SameRun
    <2> QED
      BY <2>1, <2>2
  <1> HIDE DEF grounded
  <1>7. Legal(p, e, grounded)
    <2>1. gathered \in Entry
      BY <1>4 DEF SameRun
    <2>2. Legal(p, attached, grounded)
      BY <1>3, <1>5, <1>6, LegalChain
    <2> QED
      BY <1>1, <1>2, <2>2, LegalChain
  <1>8. Primed(e, files)
          = LET briefed == AttachArtifact(IF grounded.readiness = "evidence_gathering"
                                          THEN drafting ELSE grounded,
                                          {"briefing"}, files)
            IN  IF briefed.readiness = "drafting"
                THEN Transition(briefed, "ready") ELSE briefed
    BY DEF Primed, grounded, gathered, attached
  <1>9. CASE grounded.readiness = "evidence_gathering"
    <2>1. grounded \in Entry /\ Sound(p, grounded)
      BY <1>6 DEF Legal, Sound
    <2>2. /\ drafting \in Entry /\ drafting.readiness = "drafting"
          /\ drafting.weight = grounded.weight /\ drafting.spent = grounded.spent
          /\ drafting.invalid = grounded.invalid
      BY <1>9, <2>1, TransitionEffect, TableFacts, StatesAre
    <2> HIDE DEF drafting
    <2>3. AttachArtifact(drafting, {"briefing"}, files).readiness = "drafting"
      BY <1>1, <2>2, AttachArtifactEffect DEF SameRun
    <2>4. Primed(e, files)
            = Transition(AttachArtifact(drafting, {"briefing"}, files), "ready")
      BY <1>8, <1>9, <2>3
    <2>5. ~IsTerminal(grounded) /\ Rank[grounded.readiness] <= Rank["drafting"]
      BY <1>9 DEF IsTerminal, Rank
    <2>6. Legal(p, grounded,
                Transition(AttachArtifact(drafting, {"briefing"}, files), "ready"))
      BY <1>1, <2>1, <2>2, <2>5, DraftedLegal
    <2> QED
      BY <1>1, <1>7, <2>4, <2>6, LegalChain
  <1>10. CASE grounded.readiness # "evidence_gathering"
    <2>1. /\ Sound(p, grounded) /\ grounded \in Entry
          /\ grounded.readiness \notin {"absent", "drafting"}
      BY <1>6 DEF Legal, Sound
    <2> HIDE DEF drafting
    <2>2. SameRun(grounded, AttachArtifact(grounded, {"briefing"}, files))
      BY <1>1, <2>1, AttachArtifactEffect
    <2>3. Primed(e, files) = AttachArtifact(grounded, {"briefing"}, files)
      BY <1>8, <1>10, <2>1, <2>2 DEF SameRun
    <2>4. Legal(p, grounded, Primed(e, files))
      BY <1>1, <2>1, <2>3, AttachedLegal
    <2> QED
      BY <1>1, <1>7, <2>4, LegalChain
  <1> QED
    BY <1>9, <1>10

-----------------------------------------------------------------------------
(* Invalidation and rebalancing.                                           *)

\* Staling an entry is legal whatever its weight has become, since what is
\* stale promises nothing any more.
LEMMA StaledLegal ==
    ASSUME NEW p \in Pred, NEW e \in Entry, e.readiness # "absent",
           NEW d \in Entry, d.readiness = e.readiness, e.spent => d.spent
    PROVE  Legal(p, e, Transition(d, "stale"))
  <1> DEFINE t == Transition(d, "stale")
  <1>1. t \in Entry /\ t.spent = d.spent /\ Rank[d.readiness] <= Rank[t.readiness]
    BY TransitionEffect, StatesAre
  <1>2. t.readiness = "stale"
    <2>1. d.readiness \in ReadinessStates
      BY DEF Entry
    <2> QED
      BY <2>1, TransitionEffect, TableFacts, StatesAre
  <1> HIDE DEF t
  <1>3. Legal(p, e, t)
    BY <1>1, <1>2 DEF Legal, Climbs, Sound, IsTerminal
  <1> QED
    BY <1>3 DEF t

\* Setting the invalidation reason afterwards changes nothing that matters.
LEMMA InvalidLegal ==
    ASSUME NEW p \in Pred, NEW e, NEW d, Legal(p, e, d)
    PROVE  Legal(p, e, [d EXCEPT !.invalid = TRUE])
  <1> DEFINE i == [d EXCEPT !.invalid = TRUE]
  <1>1. d \in Entry
    BY DEF Legal, Sound
  <1>2. /\ i \in Entry /\ i.readiness = d.readiness /\ i.weight = d.weight
        /\ i.spent = d.spent /\ i.prepared = d.prepared /\ i.invalid = TRUE
    BY <1>1 DEF Entry
  <1> HIDE DEF i
  <1>3. Legal(p, e, i)
    BY <1>2 DEF Legal, Climbs, Sound, IsTerminal
  <1> QED
    BY <1>3 DEF i

\* A commit stales whatever is not concrete.
LEMMA OnCommitLegal ==
    ASSUME NEW p \in Pred, NEW e, Sound(p, e)
    PROVE  OnCommit(p, e) = e \/ Legal(p, e, OnCommit(p, e))
  <1>1. SUFFICES ASSUME ~IsTerminal(e), OnCommit(p, e) = Staled(e)
                 PROVE  Legal(p, e, OnCommit(p, e))
    BY DEF OnCommit
  <1>2. e \in Entry /\ e.readiness # "absent"
    BY <1>1 DEF Sound, IsTerminal
  <1>3. Legal(p, e, Transition(e, "stale"))
    BY <1>2, StaledLegal
  <1> QED
    BY <1>1, <1>3, InvalidLegal DEF Staled

\* Halving and quartering a weight keep it a natural number.
LEMMA HalfIsNat == \A n \in Nat : n \div 2 \in Nat /\ n \div 4 \in Nat
  OBVIOUS

\* A file change halves, clears and stales what falls under the floor.
LEMMA OnFileChangeLegal ==
    ASSUME NEW p \in Pred, NEW e, Sound(p, e), NEW changed \in SUBSET File,
           disk \in [File -> Hash]
    PROVE  OnFileChange(changed, e) = e \/ Legal(p, e, OnFileChange(changed, e))
  <1> DEFINE halved == e.weight \div 2
             h == [f \in File |-> IF e.hashes[f] = NoHash THEN NoHash ELSE disk[f]]
             cleared == [e EXCEPT !.weight = halved, !.prepared = {},
                                  !.invalid = TRUE, !.hashes = h]
  <1>1. e \in Entry /\ e.weight \in Nat /\ halved \in Nat
    BY HalfIsNat DEF Sound, Entry
  <1>2. h \in [File -> Hash]
    BY DEF Hash, NoHash
  <1>3. SUFFICES ASSUME ~IsTerminal(e),
                        OnFileChange(changed, e)
                          = IF halved < Floor THEN Transition(cleared, "stale")
                                              ELSE cleared
                 PROVE  Legal(p, e, OnFileChange(changed, e))
    BY DEF OnFileChange
  <1> HIDE DEF halved, h
  <1>4. /\ cleared \in Entry /\ cleared.readiness = e.readiness
        /\ cleared.weight = halved /\ cleared.spent = e.spent
        /\ cleared.invalid = TRUE
    BY <1>1, <1>2 DEF Entry
  <1> HIDE DEF cleared
  <1>5. e.readiness # "absent"
    BY <1>3 DEF IsTerminal
  <1>6. CASE halved < Floor
    BY <1>1, <1>3, <1>4, <1>5, <1>6, StaledLegal
  <1>7. CASE ~(halved < Floor)
    <2>1. Rank[e.readiness] \in Int
      BY <1>1, RankIsInt DEF Entry
    <2>2. Legal(p, e, cleared)
      BY <1>1, <1>4, <1>5, <1>7, <2>1 DEF Legal, Climbs, Sound
    <2> QED
      BY <1>3, <1>7, <2>2
  <1> QED
    BY <1>6, <1>7

\* A category shift subtracts and stales what falls under the floor.
LEMMA OnCategoryShiftLegal ==
    ASSUME NEW p \in Pred, NEW e, Sound(p, e), NEW from
    PROVE  \/ OnCategoryShift(p, from, e) = e
           \/ Legal(p, e, OnCategoryShift(p, from, e))
  <1> DEFINE decayed == IF e.weight > CategoryDecay
                        THEN e.weight - CategoryDecay ELSE 0
             demoted == [e EXCEPT !.weight = decayed, !.invalid = TRUE]
  <1>1. e \in Entry /\ decayed \in Nat
    BY DEF Sound, Entry
  <1>2. SUFFICES ASSUME ~IsTerminal(e),
                        OnCategoryShift(p, from, e)
                          = IF decayed < Floor THEN Transition(demoted, "stale")
                                               ELSE demoted
                 PROVE  Legal(p, e, OnCategoryShift(p, from, e))
    BY DEF OnCategoryShift
  <1> HIDE DEF decayed
  <1>3. /\ demoted \in Entry /\ demoted.readiness = e.readiness
        /\ demoted.weight = decayed /\ demoted.spent = e.spent
        /\ demoted.invalid = TRUE
    BY <1>1 DEF Entry
  <1> HIDE DEF demoted
  <1>4. e.readiness # "absent"
    BY <1>2 DEF IsTerminal
  <1>5. CASE decayed < Floor
    BY <1>1, <1>2, <1>3, <1>4, <1>5, StaledLegal
  <1>6. CASE ~(decayed < Floor)
    <2>1. Rank[e.readiness] \in Int
      BY <1>1, RankIsInt DEF Entry
    <2>2. Legal(p, e, demoted)
      BY <1>1, <1>3, <1>4, <1>6, <2>1 DEF Legal, Climbs, Sound
    <2> QED
      BY <1>2, <1>6, <2>2
  <1> QED
    BY <1>5, <1>6

\* The entry of a prediction that was never enrolled is well typed.
LEMMA AbsentIsEntry ==
    Absent \in Entry /\ Absent.readiness = "absent" /\ Absent.spent = FALSE
  BY DEF Absent, Entry, ReadinessStates, NoHashes, Hash, NoHash, Kinds, NoWindow,
         NoSnapshot, Snapshot, Drafts

-----------------------------------------------------------------------------
(* Probation: ageing, maturation and rollback.                             *)

\* One cycle less on probation, and nothing else, but for a snapshot that
\* is never read again.
LEMMA AgedEffect ==
    ASSUME NEW e \in Entry
    PROVE  /\ SameRun(e, Aged(e))
           /\ Aged(e).prepared = e.prepared
           /\ Aged(e).hashes = e.hashes
           /\ ~OnProbation(Aged(e)) => Aged(e).replaced.draft = {}
  <1>1. e.window \in NoWindow..ProbationCycles /\ NoSnapshot \in Snapshot
    BY DEF Entry, NoSnapshot, Snapshot
  <1>2. CASE e.window > 0
    <2>1. Aged(e) = [e EXCEPT !.window = e.window - 1]
      BY <1>2 DEF Aged
    <2>2. e.window - 1 \in NoWindow..ProbationCycles /\ e.window - 1 # NoWindow
      BY <1>1, <1>2 DEF NoWindow
    <2> QED
      BY <2>1, <2>2 DEF Entry, SameRun, OnProbation
  <1>3. CASE ~(e.window > 0)
    <2>1. Aged(e) = [e EXCEPT !.window = NoWindow, !.replaced = NoSnapshot]
      BY <1>3 DEF Aged
    <2>2. NoWindow \in NoWindow..ProbationCycles /\ NoSnapshot.draft = {}
      BY DEF NoWindow, NoSnapshot
    <2> QED
      BY <1>1, <2>1, <2>2 DEF Entry, SameRun
  <1> QED
    BY <1>2, <1>3

\* Ageing is legal, and leaves an entry that was never enrolled as it is.
LEMMA AgedLegal ==
    ASSUME NEW p \in Pred, NEW e, Sound(p, e), e.readiness = "absent" => e = Absent
    PROVE  Aged(e) = e \/ Legal(p, e, Aged(e))
  <1>1. e \in Entry /\ Rank[e.readiness] \in Int
    BY RankIsInt DEF Sound, Entry
  <1>2. SameRun(e, Aged(e)) /\ Aged(e).prepared = e.prepared
    BY <1>1, AgedEffect
  <1>3. CASE e.readiness = "absent"
    <2>1. e = Absent /\ ~(Absent.window > 0)
      BY <1>3 DEF Absent, NoWindow
    <2>2. Aged(e) = [Absent EXCEPT !.window = NoWindow, !.replaced = NoSnapshot]
      BY <2>1 DEF Aged
    <2> DEFINE b == [Absent EXCEPT !.window = NoWindow, !.replaced = NoSnapshot]
    <2>3. Absent.window = NoWindow /\ Absent.replaced = NoSnapshot /\ Absent \in Entry
      BY AbsentIsEntry DEF Absent
    <2>4. /\ b = [k \in DOMAIN Absent |-> b[k]] /\ Absent = [k \in DOMAIN Absent |-> Absent[k]]
          /\ \A k \in DOMAIN Absent : b[k] = Absent[k]
      BY <2>3 DEF Absent
    <2> HIDE DEF b
    <2>5. b = Absent
      BY <2>4
    <2> QED
      BY <2>1, <2>2, <2>5 DEF b
  <1>4. CASE e.readiness # "absent"
    BY <1>1, <1>2, <1>4 DEF Legal, Climbs, Sound, IsTerminal, SameRun
  <1> QED
    BY <1>3, <1>4

\* A kept maturation leaves a draft, on whatever rung the entry is by then.
LEMMA MaturedLegal ==
    ASSUME NEW p \in Pred, NEW e, Sound(p, e), e.readiness # "absent",
           NEW old \in Snapshot
    PROVE  Legal(p, e, Matured(e, old))
  <1> DEFINE m == Matured(e, old)
             gained == Saturate(old.evidence + KeptGain)
  <1>1. e \in Entry /\ Rank[e.readiness] \in Int
    BY RankIsInt DEF Sound, Entry
  <1>2. gained \in Nat
    <2>1. old.evidence + KeptGain \in Nat
      BY DEF Snapshot
    <2> QED
      BY <2>1, SaturateIsNat
  <1>3. ProbationCycles \in NoWindow..ProbationCycles
    BY DEF NoWindow
  <1>4. m = [e EXCEPT !.prepared = e.prepared \cup Drafts, !.evidence = gained,
                      !.window = ProbationCycles, !.replaced = old]
    BY DEF Matured
  <1> HIDE DEF gained
  <1>5. e.prepared \cup Drafts \in SUBSET Kinds /\ e.prepared \cup Drafts # {}
    BY <1>1 DEF Entry, Drafts, Kinds
  <1>6. SameRun(e, m) /\ m.prepared # {}
    BY <1>1, <1>2, <1>3, <1>4, <1>5 DEF Entry, SameRun
  <1> HIDE DEF m
  <1>7. Legal(p, e, m)
    BY <1>1, <1>6 DEF Legal, Climbs, Sound, IsTerminal, SameRun
  <1> QED
    BY <1>7 DEF m

\* A rollback may take the last thing an entry had prepared, and does so to
\* an entry that a signal has marked.
LEMMA RolledBackLegal ==
    ASSUME NEW p \in Pred, NEW e, Sound(p, e), e.readiness # "absent", e.invalid
    PROVE  /\ Legal(p, e, RolledBack(e))
           /\ RolledBack(e).readiness = e.readiness
           /\ RolledBack(e).prepared = (e.prepared \ Drafts) \cup e.replaced.draft
  <1> DEFINE b == RolledBack(e)
             prepared == (e.prepared \ Drafts) \cup e.replaced.draft
  <1>1. e \in Entry /\ Rank[e.readiness] \in Int
    BY RankIsInt DEF Sound, Entry
  <1>2. prepared \in SUBSET Kinds /\ e.replaced.evidence \in Nat
    BY <1>1 DEF Entry, Snapshot, Drafts, Kinds
  <1>3. NoWindow \in NoWindow..ProbationCycles /\ NoSnapshot \in Snapshot
    BY DEF NoWindow, NoSnapshot, Snapshot
  <1>4. b = [e EXCEPT !.prepared = prepared, !.evidence = e.replaced.evidence,
                      !.window = NoWindow, !.replaced = NoSnapshot]
    BY DEF RolledBack
  <1> HIDE DEF prepared
  <1>5. SameRun(e, b) /\ b.prepared = prepared
    BY <1>1, <1>2, <1>3, <1>4 DEF Entry, SameRun
  <1> HIDE DEF b
  <1>6. Legal(p, e, b)
    BY <1>1, <1>5 DEF Legal, Climbs, Sound, IsTerminal, SameRun
  <1> QED
    BY <1>5, <1>6 DEF b, prepared, SameRun

\* What a signal that turns e into d leaves behind: the probation, and the
\* mark of an invalidation, which comes with every staling.
Marks(e, d) ==
    /\ SameProbation(e, d)
    /\ e.invalid => d.invalid
    /\ ~IsTerminal(e) /\ IsTerminal(d) => d.invalid

\* Staling marks, and keeps the probation.
LEMMA StaledMarks ==
    ASSUME NEW e \in Entry, ~IsTerminal(e)
    PROVE  Marks(e, Staled(e)) /\ Staled(e).invalid
  <1> DEFINE t == Transition(e, "stale")
  <1>1. t \in Entry /\ SameProbation(e, t)
    BY TransitionEffect, StatesAre DEF IsTerminal
  <1>2. Staled(e) = [t EXCEPT !.invalid = TRUE]
    BY DEF Staled
  <1> HIDE DEF t
  <1> QED
    BY <1>1, <1>2 DEF Marks, SameProbation, Entry

\* A commit marks the live predictions that are not concrete.
LEMMA OnCommitMarks ==
    ASSUME NEW p \in Pred, NEW e \in Entry
    PROVE  /\ Marks(e, OnCommit(p, e))
           /\ OnCommit(p, e) = e \/ OnCommit(p, e).invalid
           /\ ~IsTerminal(e) /\ spec[p].specificity # "concrete"
                => OnCommit(p, e).invalid
  <1>1. CASE IsTerminal(e) \/ spec[p].specificity = "concrete"
    BY <1>1 DEF OnCommit, Marks, SameProbation
  <1>2. CASE ~IsTerminal(e) /\ spec[p].specificity # "concrete"
    BY <1>2, StaledMarks DEF OnCommit
  <1> QED
    BY <1>1, <1>2

\* A file change marks the live predictions that watch a changed file.
LEMMA OnFileChangeMarks ==
    ASSUME NEW e \in Entry, NEW changed \in SUBSET File, disk \in [File -> Hash]
    PROVE  /\ Marks(e, OnFileChange(changed, e))
           /\ OnFileChange(changed, e) = e \/ OnFileChange(changed, e).invalid
           /\ ~IsTerminal(e) /\ (\E f \in changed : e.hashes[f] # NoHash)
                => /\ OnFileChange(changed, e).invalid
                   /\ OnFileChange(changed, e).prepared = {}
  <1> DEFINE halved == e.weight \div 2
             h == [f \in File |-> IF e.hashes[f] = NoHash THEN NoHash ELSE disk[f]]
             cleared == [e EXCEPT !.weight = halved, !.prepared = {},
                                  !.invalid = TRUE, !.hashes = h]
  <1>1. CASE IsTerminal(e) \/ \A f \in changed : e.hashes[f] = NoHash
    BY <1>1 DEF OnFileChange, Marks, SameProbation
  <1>2. CASE ~(IsTerminal(e) \/ \A f \in changed : e.hashes[f] = NoHash)
    <2>1. OnFileChange(changed, e)
            = IF halved < Floor THEN Transition(cleared, "stale") ELSE cleared
      BY <1>2 DEF OnFileChange
    <2>2. halved \in Nat /\ h \in [File -> Hash]
      BY HalfIsNat DEF Entry, Hash, NoHash
    <2> HIDE DEF halved, h
    <2>3. /\ cleared \in Entry /\ cleared.invalid = TRUE /\ cleared.prepared = {}
          /\ SameProbation(e, cleared) /\ cleared.readiness = e.readiness
      BY <2>2 DEF Entry, SameProbation
    <2> HIDE DEF cleared
    <2>4. /\ Transition(cleared, "stale").invalid
          /\ Transition(cleared, "stale").prepared = {}
          /\ SameProbation(cleared, Transition(cleared, "stale"))
      BY <1>2, <2>3, TransitionEffect, StatesAre DEF IsTerminal
    <2> QED
      BY <2>1, <2>3, <2>4 DEF Marks, SameProbation
  <1> QED
    BY <1>1, <1>2

\* A category shift marks the live predictions of the category left, and
\* clears nothing.
LEMMA OnCategoryShiftMarks ==
    ASSUME NEW p \in Pred, NEW e \in Entry, NEW from
    PROVE  /\ Marks(e, OnCategoryShift(p, from, e))
           /\ OnCategoryShift(p, from, e).prepared = e.prepared
           /\ ~IsTerminal(e) /\ spec[p].anchor = from
                => OnCategoryShift(p, from, e).invalid
  <1> DEFINE decayed == IF e.weight > CategoryDecay
                        THEN e.weight - CategoryDecay ELSE 0
             demoted == [e EXCEPT !.weight = decayed, !.invalid = TRUE]
  <1>1. CASE IsTerminal(e) \/ spec[p].anchor # from
    BY <1>1 DEF OnCategoryShift, Marks, SameProbation
  <1>2. CASE ~(IsTerminal(e) \/ spec[p].anchor # from)
    <2>1. OnCategoryShift(p, from, e)
            = IF decayed < Floor THEN Transition(demoted, "stale") ELSE demoted
      BY <1>2 DEF OnCategoryShift
    <2>2. decayed \in Nat
      BY DEF Entry
    <2> HIDE DEF decayed
    <2>3. /\ demoted \in Entry /\ demoted.invalid = TRUE
          /\ demoted.prepared = e.prepared
          /\ SameProbation(e, demoted) /\ demoted.readiness = e.readiness
      BY <2>2 DEF Entry, SameProbation
    <2> HIDE DEF demoted
    <2>4. /\ Transition(demoted, "stale").invalid
          /\ Transition(demoted, "stale").prepared = e.prepared
          /\ SameProbation(demoted, Transition(demoted, "stale"))
      BY <1>2, <2>3, TransitionEffect, StatesAre DEF IsTerminal
    <2> QED
      BY <2>1, <2>3, <2>4 DEF Marks, SameProbation
  <1> QED
    BY <1>1, <1>2

-----------------------------------------------------------------------------
\* A prediction enrolled with a share of at least the floor is sound.
LEMMA EnrollSound ==
    ASSUME NEW p \in Pred, NEW w \in Floor..One
    PROVE  Sound(p, Enroll(w)) /\ Enroll(w).readiness = "queued"
  <1>1. w \in Nat /\ ~(w < Floor)
    OBVIOUS
  <1>2. /\ Enroll(w) \in Entry /\ Enroll(w).readiness = "queued"
        /\ Enroll(w).weight = w
    BY <1>1, AbsentIsEntry DEF Enroll, Entry, ReadinessStates
  <1> QED
    BY <1>1, <1>2 DEF Sound

\* What a rebalance may set: weights of live entries, never below the floor.
LEMMA RebalancedSound ==
    ASSUME NEW r \in [Pred -> Entry], \A p \in Pred : Sound(p, r[p]),
           NEW b \in Rebalanced(r)
    PROVE  /\ b \in [Pred -> Entry]
           /\ \A p \in Pred : /\ Sound(p, b[p])
                              /\ b[p].readiness = r[p].readiness
                              /\ b[p].spent = r[p].spent
  <1> DEFINE live == {p \in Pred : ~IsTerminal(r[p])}
             Weights == {w \in [live -> Floor..One] :
                           \A p \in live : r[p].evidence = 0 => w[p] = Floor}
  <1>1. CASE b = r
    BY <1>1
  <1>2. CASE \E w \in Weights : b = [p \in Pred |-> IF p \in live
                                                THEN [r[p] EXCEPT !.weight = w[p]]
                                                ELSE r[p]]
    <2>1. PICK w \in Weights : b = [p \in Pred |-> IF p \in live
                                                THEN [r[p] EXCEPT !.weight = w[p]]
                                                ELSE r[p]]
      BY <1>2
    <2>2. SUFFICES ASSUME NEW p \in Pred
                   PROVE  /\ b[p] \in Entry
                          /\ Sound(p, b[p])
                          /\ b[p].readiness = r[p].readiness
                          /\ b[p].spent = r[p].spent
      BY <2>1
    <2>3. CASE p \in live
      <3>1. b[p] = [r[p] EXCEPT !.weight = w[p]]
        BY <2>1, <2>3
      <3>2. w[p] \in Floor..One
        BY <2>1, <2>3
      <3>3. w[p] \in Nat /\ ~(w[p] < Floor)
        BY <3>2
      <3>4. r[p] \in Entry /\ Sound(p, r[p])
        OBVIOUS
      <3> DEFINE c == w[p]
                 e == r[p]
                 d == b[p]
      <3> HIDE DEF c, e, d
      <3>5. d = [e EXCEPT !.weight = c] /\ c \in Nat /\ ~(c < Floor)
        BY <3>1, <3>3 DEF c, e, d
      <3>6. e \in Entry /\ Sound(p, e)
        BY <3>4 DEF e
      <3>7. /\ d \in Entry /\ d.readiness = e.readiness /\ d.weight = c
            /\ d.spent = e.spent /\ d.invalid = e.invalid
            /\ d.prepared = e.prepared
        BY <3>5, <3>6 DEF Entry
      <3>8. Sound(p, d)
        BY <3>5, <3>6, <3>7 DEF Sound
      <3> QED
        BY <3>7, <3>8 DEF d, e
    <2>4. CASE p \notin live
      BY <2>1, <2>4
    <2> QED
      BY <2>3, <2>4
  <1> QED
    BY <1>1, <1>2 DEF Rebalanced

-----------------------------------------------------------------------------
(* The inductive invariant, and every step of the system against it.       *)

IInv ==
    /\ TypeOK
    /\ \A p \in Pred : /\ Sound(p, reg[p])
                       /\ reg[p].readiness = "absent" => reg[p] = Absent

\* Each entry is left alone or changed legally.
RegStep ==
    /\ reg' \in [Pred -> Entry]
    /\ \A p \in Pred : reg'[p] = reg[p] \/ Legal(p, reg[p], reg'[p])

\* A step that changes one entry legally is a legal step of the table.
LEMMA OneEntryStep ==
    ASSUME TypeOK, NEW p \in Pred, NEW d,
           Legal(p, reg[p], d) \/ d = reg[p],
           reg' = [reg EXCEPT ![p] = d]
    PROVE  RegStep
  <1>1. reg \in [Pred -> Entry] /\ d \in Entry
    BY DEF TypeOK, Legal, Sound
  <1>2. \A q \in Pred : reg'[q] = IF q = p THEN d ELSE reg[q]
    BY <1>1
  <1> QED
    BY <1>1, <1>2 DEF RegStep

\* So is one that changes none.
LEMMA SameReg == TypeOK /\ reg' = reg => RegStep
  BY DEF RegStep, TypeOK

\* The three kinds of signals, one after the other: legal, and every live
\* entry that one of them is about is marked.
LEMMA SignalledEffect ==
    ASSUME NEW p \in Pred, NEW e, Sound(p, e), disk \in [File -> Hash],
           NEW commit \in BOOLEAN, NEW changed \in SUBSET File, NEW from
    PROVE  LET d == Signalled(p, commit, changed, from, e)
           IN  /\ d = e \/ Legal(p, e, d)
               /\ SameProbation(e, d)
               /\ /\ ~IsTerminal(e)
                  /\ \/ commit /\ spec[p].specificity # "concrete"
                     \/ \E f \in changed : e.hashes[f] # NoHash
                     \/ spec[p].anchor = from
                  => d.invalid
               /\ /\ ~IsTerminal(d)
                  /\ \E f \in changed : e.hashes[f] # NoHash
                  => d.prepared = {}
  <1> DEFINE afterCommit == IF commit THEN OnCommit(p, e) ELSE e
             afterFiles == OnFileChange(changed, afterCommit)
             d == Signalled(p, commit, changed, from, e)
  <1>1. e \in Entry
    BY DEF Sound
  <1>2. afterCommit = e \/ Legal(p, e, afterCommit)
    BY OnCommitLegal
  <1>3. Sound(p, afterCommit) /\ afterCommit \in Entry
    BY <1>1, <1>2 DEF Legal, Sound
  <1>4. /\ Marks(e, afterCommit)
        /\ afterCommit = e \/ afterCommit.invalid
        /\ ~IsTerminal(e) /\ commit /\ spec[p].specificity # "concrete"
             => afterCommit.invalid
    BY <1>1, OnCommitMarks DEF Marks, SameProbation
  <1>5. ~IsTerminal(afterCommit) => afterCommit = e
    <2> SUFFICES ASSUME ~IsTerminal(e), commit, spec[p].specificity # "concrete"
                 PROVE  IsTerminal(afterCommit)
      BY DEF OnCommit
    <2> DEFINE t == Transition(e, "stale")
    <2>1. t \in Entry /\ t.readiness = "stale"
      BY <1>1, TransitionEffect, TableFacts, StatesAre DEF IsTerminal, Entry
    <2>2. afterCommit = [t EXCEPT !.invalid = TRUE]
      BY DEF OnCommit, Staled
    <2> HIDE DEF t, afterCommit
    <2> QED
      BY <2>1, <2>2 DEF Entry, IsTerminal
  <1> HIDE DEF afterCommit
  <1>6. afterFiles = afterCommit \/ Legal(p, afterCommit, afterFiles)
    BY <1>3, OnFileChangeLegal
  <1>7. Sound(p, afterFiles) /\ afterFiles \in Entry
    BY <1>3, <1>6 DEF Legal, Sound
  <1>8. /\ Marks(afterCommit, afterFiles)
        /\ ~IsTerminal(afterCommit) /\ (\E f \in changed : afterCommit.hashes[f] # NoHash)
             => afterFiles.invalid /\ afterFiles.prepared = {}
    BY <1>3, OnFileChangeMarks
  <1>9. ~IsTerminal(afterFiles) => ~IsTerminal(afterCommit)
    BY DEF afterFiles, OnFileChange
  <1> HIDE DEF afterFiles
  <1>10. d = OnCategoryShift(p, from, afterFiles)
    BY DEF Signalled, d, afterFiles, afterCommit
  <1>11. d = afterFiles \/ Legal(p, afterFiles, d)
    BY <1>7, <1>10, OnCategoryShiftLegal
  <1>12. /\ Marks(afterFiles, d) /\ d.prepared = afterFiles.prepared
         /\ ~IsTerminal(afterFiles) /\ spec[p].anchor = from => d.invalid
    BY <1>7, <1>10, OnCategoryShiftMarks
  <1>13. ~IsTerminal(d) => ~IsTerminal(afterFiles)
    BY <1>10 DEF OnCategoryShift
  <1> HIDE DEF d
  <1>14. d = e \/ Legal(p, e, d)
    <2>1. afterFiles = e \/ Legal(p, e, afterFiles)
      BY <1>1, <1>2, <1>6, LegalChain
    <2> QED
      BY <1>1, <1>11, <2>1, LegalChain
  <1>15. SameProbation(e, d)
    BY <1>4, <1>8, <1>12 DEF Marks, SameProbation
  <1>16. ASSUME ~IsTerminal(e),
                \/ commit /\ spec[p].specificity # "concrete"
                \/ \E f \in changed : e.hashes[f] # NoHash
                \/ spec[p].anchor = from
         PROVE  d.invalid
    <2>1. CASE afterCommit.invalid \/ afterFiles.invalid
      BY <1>8, <1>12, <2>1 DEF Marks
    <2>2. CASE ~afterCommit.invalid /\ ~afterFiles.invalid
      <3>1. afterCommit = e
        BY <1>4, <2>2
      <3>2. ~IsTerminal(afterFiles)
        BY <1>8, <1>16, <2>2, <3>1 DEF Marks
      <3> QED
        BY <1>4, <1>8, <1>12, <1>16, <2>2, <3>1, <3>2
    <2> QED
      BY <2>1, <2>2
  <1>17. ASSUME ~IsTerminal(d), \E f \in changed : e.hashes[f] # NoHash
         PROVE  d.prepared = {}
    BY <1>5, <1>8, <1>9, <1>12, <1>13, <1>17
  <1> QED
    BY <1>14, <1>15, <1>16, <1>17 DEF d

\* The sweep: one cycle less on probation, the signals, and a rollback of
\* what is on probation still and has been touched.
LEMMA SweptIsLegal ==
    ASSUME IInv, NEW p \in Pred, NEW commit \in BOOLEAN, NEW from
    PROVE  \/ Swept(commit, from)[p] = reg[p]
           \/ Legal(p, reg[p], Swept(commit, from)[p])
  <1> DEFINE e == reg[p]
             a == Aged(e)
             d == Signalled(p, commit, ChangedFiles, from, a)
             r == Swept(commit, from)[p]
  <1>1. /\ ChangedFiles \in SUBSET File /\ disk \in [File -> Hash]
        /\ Sound(p, e) /\ e \in Entry /\ (e.readiness = "absent" => e = Absent)
    BY DEF ChangedFiles, IInv, TypeOK
  <1>2. r = IF OnProbation(a) /\ Touched(p, commit, ChangedFiles, from)
            THEN RolledBack(d) ELSE d
    BY DEF Swept
  <1>3. a = e \/ Legal(p, e, a)
    BY <1>1, AgedLegal
  <1>4. Sound(p, a) /\ SameRun(e, a) /\ a.hashes = e.hashes
    BY <1>1, <1>3, AgedEffect DEF Legal
  <1> HIDE DEF a
  <1>5. d = a \/ Legal(p, a, d)
    BY <1>1, <1>4, SignalledEffect
  <1>6. Touched(p, commit, ChangedFiles, from) => d.invalid
    BY <1>1, <1>4, SignalledEffect DEF Touched, IsTerminal, SameRun
  <1> HIDE DEF d
  <1>7. d = e \/ Legal(p, e, d)
    BY <1>1, <1>3, <1>5, LegalChain
  <1>8. CASE r = d
    BY <1>7, <1>8
  <1>9. CASE r = RolledBack(d) /\ Touched(p, commit, ChangedFiles, from)
    <2>1. e.readiness # "absent"
      BY <1>9 DEF Touched, IsTerminal
    <2>2. Sound(p, d) /\ d.readiness # "absent"
      BY <1>1, <1>7, <2>1 DEF Legal
    <2>3. Legal(p, d, r)
      BY <1>6, <1>9, <2>2, RolledBackLegal
    <2> QED
      BY <1>1, <1>7, <2>3, LegalChain
  <1> QED
    BY <1>2, <1>8, <1>9

\* The sweep, which changes all entries at once.
LEMMA SweepStep ==
    ASSUME IInv, NEW commit \in BOOLEAN, NEW from, reg' = Swept(commit, from)
    PROVE  RegStep
  <1>1. \A p \in Pred : reg'[p] = reg[p] \/ Legal(p, reg[p], reg'[p])
    BY SweptIsLegal
  <1>2. \A p \in Pred : reg'[p] \in Entry
    BY <1>1 DEF IInv, TypeOK, Legal, Sound
  <1>3. reg' = [p \in Pred |-> reg'[p]]
    BY DEF Swept
  <1> QED
    BY <1>1, <1>2, <1>3 DEF RegStep

\* So does a cycle that is cut short.
LEMMA AgeStep ==
    ASSUME IInv, reg' = [p \in Pred |-> Aged(reg[p])]
    PROVE  RegStep
  <1>1. \A p \in Pred : reg'[p] = reg[p] \/ Legal(p, reg[p], reg'[p])
    BY AgedLegal DEF IInv
  <1>2. \A p \in Pred : reg'[p] \in Entry
    BY <1>1 DEF IInv, TypeOK, Legal, Sound
  <1>3. reg' = [p \in Pred |-> reg'[p]]
    OBVIOUS
  <1> QED
    BY <1>1, <1>2, <1>3 DEF RegStep

\* The deltas of reconciled items are legal, stalled ones included.
LEMMA ItemStateDeltaStep ==
    ASSUME IInv, NEW p \in Pred, NEW to, ItemStateDelta(p, to)
    PROVE  RegStep
  <1>1. /\ Sound(p, reg[p]) /\ reg[p] \in Entry /\ reg[p].readiness # "absent"
        /\ spec[p].source = "artefact_item" /\ TypeOK
    BY DEF IInv, Sound, ItemStateDelta, Enrolled
  <1> DEFINE e == reg[p]
  <1>2. CASE to = "complete"
    <2>1. reg' = [reg EXCEPT ![p] = RecordAdoption(reg[p])]
      BY <1>2 DEF ItemStateDelta
    <2> QED
      BY <1>1, <2>1, RecordAdoptionLegal, OneEntryStep
  <1>3. CASE to = "contradicted"
    <2> DEFINE d == [e EXCEPT !.weight = e.weight \div 4]
    <2>1. reg' = [reg EXCEPT ![p] = Staled(d)]
      BY <1>3 DEF ItemStateDelta, Contradicted
    <2> HIDE DEF e
    <2>2. e.weight \div 4 \in Nat
      BY <1>1, HalfIsNat DEF Entry, e
    <2>3. e \in Entry
      BY <1>1 DEF e
    <2>4. d \in Entry /\ d.readiness = e.readiness /\ d.spent = e.spent
      BY <2>2, <2>3 DEF Entry
    <2> HIDE DEF d
    <2>5. Legal(p, e, Transition(d, "stale"))
      BY <1>1, <2>3, <2>4, StaledLegal DEF e
    <2>6. Legal(p, e, Staled(d))
      BY <2>5, InvalidLegal DEF Staled
    <2> QED
      BY <1>1, <2>1, <2>6, OneEntryStep DEF e
  <1>4. CASE to = "stalled"
    <2> DEFINE d == [e EXCEPT !.weight = e.weight \div 2, !.invalid = TRUE]
    <2>1. reg' = [reg EXCEPT ![p] = d]
      BY <1>4 DEF ItemStateDelta, Stalled
    <2> HIDE DEF e
    <2>2. e.weight \div 2 \in Nat
      BY <1>1, HalfIsNat DEF Entry, e
    <2>3. e \in Entry /\ Sound(p, e) /\ e.readiness # "absent"
      BY <1>1 DEF e
    <2>4. d \in Entry /\ d.readiness = e.readiness /\ d.spent = e.spent
          /\ d.invalid = TRUE
      BY <2>2, <2>3 DEF Entry
    <2> HIDE DEF d
    <2>5. Rank[e.readiness] \in Int
      BY <2>3, RankIsInt DEF Entry
    <2>6. Legal(p, e, d)
      BY <1>1, <2>3, <2>4, <2>5 DEF Legal, Climbs, Sound
    <2> QED
      BY <1>1, <2>1, <2>6, OneEntryStep DEF e
  <1> QED
    BY <1>2, <1>3, <1>4 DEF ItemStateDelta

\* Merging enrols what is new and leaves what is known alone.
LEMMA MergeStep ==
    ASSUME IInv, NEW batch \in SUBSET Pred, MergeSpecs(batch)
    PROVE  RegStep
  <1> DEFINE new == {p \in batch : p \notin Enrolled}
  <1>1. PICK share \in [new -> Floor..One] :
          reg' = [p \in Pred |-> IF p \in new THEN Enroll(share[p]) ELSE reg[p]]
    BY DEF MergeSpecs
  <1>2. SUFFICES ASSUME NEW p \in Pred
                 PROVE  /\ reg'[p] \in Entry
                        /\ reg'[p] = reg[p] \/ Legal(p, reg[p], reg'[p])
    BY <1>1, <1>2 DEF RegStep
  <1>3. reg[p] \in Entry
    BY DEF IInv, TypeOK
  <1>4. CASE p \in new
    <2>1. reg[p].readiness = "absent" /\ ~reg[p].spent
      BY <1>4, AbsentIsEntry DEF Enrolled, IInv
    <2>2. reg'[p] = Enroll(share[p]) /\ share[p] \in Floor..One
      BY <1>1, <1>4
    <2>3. Sound(p, reg'[p]) /\ reg'[p].readiness = "queued"
      BY <2>2, EnrollSound
    <2>4. Climbs(reg[p], reg'[p])
      BY <2>1, <2>3 DEF Climbs, Rank
    <2> QED
      BY <2>3, <2>4 DEF Legal, Sound
  <1>5. CASE p \notin new
    BY <1>1, <1>3, <1>5
  <1> QED
    BY <1>4, <1>5

\* A completed scenario may rebalance every weight and brief one prediction.
LEMMA WorkerCompleteStep ==
    ASSUME IInv, NEW p \in Pred, NEW s \in Scenario, NEW files \in SUBSET File,
           WorkerComplete(p, s, files)
    PROVE  RegStep
  <1>1. PICK r : /\ r = reg \/ r \in Rebalanced(reg)
                 /\ reg' = [r EXCEPT ![p] = IF DraftDue(r[p])
                                           THEN Briefed(r[p], files) ELSE r[p]]
    BY DEF WorkerComplete
  <1>2. reg \in [Pred -> Entry] /\ \A q \in Pred : Sound(q, reg[q])
    BY DEF IInv, TypeOK
  <1>3. /\ r \in [Pred -> Entry]
        /\ \A q \in Pred : /\ Sound(q, r[q])
                           /\ r[q].readiness = reg[q].readiness
                           /\ r[q].spent = reg[q].spent
    BY <1>1, <1>2, RebalancedSound
  <1>4. \A q \in Pred : reg[q].readiness # "absent" => Legal(q, reg[q], r[q])
    <2> SUFFICES ASSUME NEW q \in Pred, reg[q].readiness # "absent"
                 PROVE  Legal(q, reg[q], r[q])
      OBVIOUS
    <2>1. Rank[reg[q].readiness] \in Int
      BY <1>2, RankIsInt DEF Entry
    <2> QED
      BY <1>3, <2>1 DEF Legal, Climbs
  <1>5. \A q \in Pred : reg[q].readiness = "absent" => r[q] = reg[q]
    <2> SUFFICES ASSUME NEW q \in Pred, reg[q].readiness = "absent",
                        r \in Rebalanced(reg)
                 PROVE  r[q] = reg[q]
      BY <1>1
    <2>1. IsTerminal(reg[q])
      BY DEF IsTerminal
    <2> QED
      BY <2>1, <1>2 DEF Rebalanced
  <1>6. reg[p].readiness # "absent"
    <2>1. <<p, s>> \in Pred \X Scenario /\ working[<<p, s>>] = "completing"
      BY DEF WorkerComplete
    <2>2. <<p, s>>[1] \in Enrolled
      BY <2>1 DEF IInv, TypeOK
    <2> QED
      BY <2>2 DEF Enrolled
  <1>7. CASE DraftDue(r[p])
    <2>1. Legal(p, r[p], Briefed(r[p], files))
      BY <1>3, <1>7, BriefedLegal DEF IInv, TypeOK
    <2>2. Legal(p, reg[p], Briefed(r[p], files))
      BY <1>2, <1>4, <1>6, <2>1, LegalChain
    <2>3. reg' = [r EXCEPT ![p] = Briefed(r[p], files)]
      BY <1>1, <1>7
    <2>4. \A q \in Pred : reg'[q] = IF q = p THEN Briefed(r[p], files) ELSE r[q]
      BY <1>3, <2>3
    <2>5. Briefed(r[p], files) \in Entry
      BY <2>1 DEF Legal, Sound
    <2>6. reg' \in [Pred -> Entry]
      BY <1>3, <2>3, <2>5
    <2> QED
      BY <1>4, <1>5, <2>2, <2>4, <2>6 DEF RegStep
  <1>8. CASE ~DraftDue(r[p])
    <2>1. reg' = r
      BY <1>1, <1>3, <1>8
    <2> QED
      BY <1>3, <1>4, <1>5, <2>1 DEF RegStep
  <1> QED
    BY <1>7, <1>8

\* Every step of the system changes entries legally or not at all.
LEMMA StepIsLegal ==
    ASSUME IInv, [Next]_vars
    PROVE  RegStep /\ UNCHANGED spec
  <1> USE DEF IInv
  <1>1. ASSUME NEW commit \in BOOLEAN, NEW from \in Category \cup {NoCategory},
               CycleSweep(commit, from)
        PROVE  RegStep /\ UNCHANGED spec
    BY <1>1, SweepStep DEF CycleSweep
  <1>2. ASSUME NEW p \in Pred, NEW to, ItemStateDelta(p, to)
        PROVE  RegStep /\ UNCHANGED spec
    BY <1>2, ItemStateDeltaStep DEF ItemStateDelta
  <1>3. ASSUME NEW batch \in SUBSET Pred, MergeSpecs(batch)
        PROVE  RegStep /\ UNCHANGED spec
    BY <1>3, MergeStep DEF MergeSpecs
  <1>4. ASSUME NEW files \in SUBSET File, PrimeFinish(files)
        PROVE  RegStep /\ UNCHANGED spec
    <2>1. task \in Pred /\ task \in Enrolled
      BY <1>4 DEF PrimeFinish, TypeOK, NoPred, Pred
    <2>2. Sound(task, reg[task]) /\ reg[task].readiness # "absent"
      BY <2>1 DEF Enrolled
    <2>3. Legal(task, reg[task], Primed(reg[task], files))
      BY <2>1, <2>2, PrimedLegal DEF TypeOK
    <2>4. reg' = [reg EXCEPT ![task] = Primed(reg[task], files)]
      BY <1>4 DEF PrimeFinish
    <2> QED
      BY <1>4, <2>1, <2>3, <2>4, OneEntryStep DEF PrimeFinish
  <1>5. ASSUME NEW kinds \in SUBSET {"briefing"}, NEW files \in SUBSET File,
               DraftFinish(kinds, files)
        PROVE  RegStep /\ UNCHANGED spec
    <2>1. task \in Pred /\ task \in Enrolled
      BY <1>5 DEF DraftFinish, TypeOK, NoPred, Pred
    <2>2. Sound(task, reg[task]) /\ reg[task].readiness # "absent"
      BY <2>1 DEF Enrolled
    <2>3. {"draft"} \cup kinds \in SUBSET Kinds /\ {"draft"} \cup kinds # {}
      BY DEF Kinds
    <2>4. Legal(task, reg[task],
                MacroDrafted(reg[task], {"draft"} \cup kinds, files))
      BY <2>1, <2>2, <2>3, MacroDraftedLegal DEF TypeOK
    <2>5. reg' = [reg EXCEPT ![task] =
                    MacroDrafted(reg[task], {"draft"} \cup kinds, files)]
      BY <1>5 DEF DraftFinish
    <2> QED
      BY <1>5, <2>1, <2>4, <2>5, OneEntryStep DEF DraftFinish
  <1>6. ASSUME NEW p \in Pred, NEW s \in Scenario, NEW useLlm \in BOOLEAN,
               WorkerAttach(p, s, useLlm)
        PROVE  RegStep /\ UNCHANGED spec
    <2>1. Sound(p, reg[p]) /\ reg[p].readiness # "absent"
      BY <1>6 DEF WorkerAttach, Enrolled
    <2>2. reg' = [reg EXCEPT ![p] = AttachScenario(reg[p])]
      BY <1>6 DEF WorkerAttach
    <2> QED
      BY <1>6, <2>1, <2>2, AttachScenarioLegal, OneEntryStep DEF WorkerAttach
  <1>7. ASSUME NEW p \in Pred, NEW s \in Scenario, NEW confidence \in Confidences,
               WorkerRecord(p, s, confidence)
        PROVE  RegStep /\ UNCHANGED spec
    <2>1. <<p, s>> \in Pred \X Scenario /\ working[<<p, s>>] = "asking"
      BY <1>7 DEF WorkerRecord
    <2>2. <<p, s>>[1] \in Enrolled
      BY <2>1 DEF TypeOK
    <2>3. Sound(p, reg[p]) /\ reg[p].readiness # "absent"
      BY <2>2 DEF Enrolled
    <2>4. reg' = [reg EXCEPT ![p] = Recorded(reg[p], confidence)]
      BY <1>7 DEF WorkerRecord
    <2> QED
      BY <1>7, <2>3, <2>4, RecordedLegal, OneEntryStep DEF WorkerRecord
  <1>8. ASSUME NEW p \in Pred, NEW s \in Scenario, NEW files \in SUBSET File,
               WorkerComplete(p, s, files)
        PROVE  RegStep /\ UNCHANGED spec
    BY <1>8, WorkerCompleteStep DEF WorkerComplete
  <1>9. ASSUME NEW p \in Pred, ComposerSnapshot(p)
        PROVE  RegStep /\ UNCHANGED spec
    <2> DEFINE e == IF p \in Enrolled THEN reg[p] ELSE Enroll(One)
               d == IF e.readiness = "queued" THEN Transition(e, "grounding") ELSE e
    <2>1. reg' = [reg EXCEPT ![p] = d] /\ UNCHANGED spec
      BY <1>9 DEF ComposerSnapshot
    <2>2. One \in Floor..One /\ reg[p] \in Entry
      BY DEF TypeOK
    <2>3. e = reg[p] \/ Legal(p, reg[p], e)
      <3>1. CASE p \in Enrolled
        BY <3>1
      <3>2. CASE p \notin Enrolled
        <4>1. reg[p].readiness = "absent" /\ ~reg[p].spent
          BY <3>2, AbsentIsEntry DEF Enrolled
        <4>2. e = Enroll(One) /\ Sound(p, e) /\ e.readiness = "queued"
          BY <2>2, <3>2, EnrollSound
        <4> HIDE DEF e
        <4>3. Climbs(reg[p], e)
          BY <4>1, <4>2 DEF Climbs, Rank
        <4> QED
          BY <4>2, <4>3 DEF Legal
      <3> QED
        BY <3>1, <3>2
    <2>4. Sound(p, e) /\ e \in Entry /\ e.readiness # "absent"
      BY <2>2, EnrollSound DEF Enrolled, Sound
    <2> HIDE DEF e
    <2>5. d = e \/ Legal(p, e, d)
      BY <2>4, TransitionLegal
    <2> HIDE DEF d
    <2>6. d = reg[p] \/ Legal(p, reg[p], d)
      BY <2>2, <2>3, <2>5, LegalChain
    <2> QED
      BY <2>1, <2>6, OneEntryStep
  <1>10. ASSUME NEW p \in Pred, Adopt(p)
         PROVE  RegStep /\ UNCHANGED spec
    <2>1. Sound(p, reg[p]) /\ reg[p].readiness # "absent"
      BY <1>10 DEF Adopt, Enrolled
    <2>2. reg' = [reg EXCEPT ![p] = RecordAdoption(reg[p])]
      BY <1>10 DEF Adopt
    <2> QED
      BY <1>10, <2>1, <2>2, RecordAdoptionLegal, OneEntryStep DEF Adopt
  <1>11. ASSUME NEW p \in Pred, PrimeStart(p) \/ DraftStart(p)
         PROVE  RegStep /\ UNCHANGED spec
    BY <1>11, SameReg DEF PrimeStart, DraftStart
  <1>12. CASE PrimeNothing \/ DraftFail \/ CycleEnd \/ CyclePreempted
    BY <1>12, SameReg DEF PrimeNothing, DraftFail, CycleEnd, CyclePreempted
  <1>15. CASE CycleCutShort
    BY <1>15, AgeStep DEF CycleCutShort
  <1>16. ASSUME NEW chosen \in SUBSET Pred, RefineStart(chosen)
         PROVE  RegStep /\ UNCHANGED spec
    BY <1>16, SameReg DEF RefineStart
  <1>17. ASSUME NEW p \in Pred, MatureStart(p)
         PROVE  RegStep /\ UNCHANGED spec
    BY <1>17, SameReg DEF MatureStart
  <1>18. ASSUME NEW kept \in BOOLEAN, MatureDone(kept)
         PROVE  RegStep /\ UNCHANGED spec
    <2>1. task \in Pred /\ task \in Enrolled /\ held \in Snapshot
      BY <1>18 DEF MatureDone, TypeOK, NoPred, Pred
    <2>2. Sound(task, reg[task]) /\ reg[task].readiness # "absent"
      BY <2>1 DEF Enrolled
    <2>3. Legal(task, reg[task], Matured(reg[task], held))
      BY <2>1, <2>2, MaturedLegal
    <2>4. CASE kept
      <3>1. reg' = [reg EXCEPT ![task] = Matured(reg[task], held)]
        BY <1>18, <2>4 DEF MatureDone
      <3> QED
        BY <1>18, <2>1, <2>3, <3>1, OneEntryStep DEF MatureDone
    <2>5. CASE ~kept
      BY <1>18, <2>5, SameReg DEF MatureDone
    <2> QED
      BY <2>4, <2>5
  <1>13. ASSUME NEW f \in File, NEW version, FileEdit(f, version)
         PROVE  RegStep /\ UNCHANGED spec
    BY <1>13, SameReg DEF FileEdit
  <1>14. CASE UNCHANGED vars
    BY <1>14, SameReg DEF vars
  <1> QED
    BY <1>1, <1>2, <1>3, <1>4, <1>5, <1>6, <1>7, <1>8, <1>9, <1>10, <1>11,
       <1>12, <1>13, <1>14, <1>15, <1>16, <1>17, <1>18
    DEF Next, Cycle, Workers, Others

\* An entry once enrolled stays enrolled: nothing ever leaves the table.
LEMMA EnrolledGrows == TypeOK /\ RegStep => Enrolled \subseteq Enrolled'
  BY DEF RegStep, Enrolled, Legal

\* The empty registry satisfies the inductive invariant.
LEMMA InitIInv == Init => IInv
  <1> SUFFICES ASSUME Init PROVE IInv
    OBVIOUS
  <1>1. \A p \in Pred : reg[p] = Absent
    BY DEF Init
  <1>2. \A p \in Pred : Sound(p, reg[p])
    BY <1>1, AbsentIsEntry DEF Sound, IsTerminal
  <1>3. TypeOK
    <2>1. reg \in [Pred -> Entry]
      BY AbsentIsEntry DEF Init
    <2>2. disk \in [File -> Hash]
      BY DEF Init, Hash, NoHash
    <2> QED
      BY <2>1, <2>2 DEF Init, TypeOK, Phases, Stages, NoSnapshot, Snapshot
  <1> QED
    BY <1>1, <1>2, <1>3 DEF IInv

\* Holding nothing is a snapshot, too.
LEMMA NoSnapshotIsTyped == NoSnapshot \in Snapshot
  BY DEF NoSnapshot, Snapshot

\* The types other than the table's are kept by every step.
LEMMA TypeStep ==
    ASSUME IInv, [Next]_vars, RegStep, UNCHANGED spec
    PROVE  TypeOK'
  <1>1. TypeOK /\ Enrolled \subseteq Enrolled' /\ reg' \in [Pred -> Entry]
        /\ spec' \in Populations /\ NoPred \notin Pred
    BY EnrolledGrows DEF IInv, TypeOK, RegStep, NoPred, Pred
  <1> USE DEF TypeOK, Phases
  <1>2. ASSUME NEW commit \in BOOLEAN, NEW from \in Category \cup {NoCategory},
               CycleSweep(commit, from)
        PROVE  TypeOK'
    BY <1>1, <1>2 DEF CycleSweep
  <1>3. ASSUME NEW p \in Pred, NEW to, ItemStateDelta(p, to)
        PROVE  TypeOK'
    BY <1>1, <1>3 DEF ItemStateDelta
  <1>4. ASSUME NEW batch \in SUBSET Pred, MergeSpecs(batch)
        PROVE  TypeOK'
    BY <1>1, <1>4 DEF MergeSpecs
  <1>5. ASSUME NEW files \in SUBSET File, PrimeFinish(files)
        PROVE  TypeOK'
    BY <1>1, <1>5 DEF PrimeFinish
  <1>6. ASSUME NEW kinds \in SUBSET {"briefing"}, NEW files \in SUBSET File,
               DraftFinish(kinds, files)
        PROVE  TypeOK'
    BY <1>1, <1>6 DEF DraftFinish
  <1>7. ASSUME NEW p \in Pred, NEW s \in Scenario, NEW useLlm \in BOOLEAN,
               WorkerAttach(p, s, useLlm)
        PROVE  TypeOK'
    <2>1. working' \in [Pred \X Scenario -> Stages]
      BY <1>1, <1>7 DEF WorkerAttach, Stages
    <2>2. \A t \in Pred \X Scenario :
            working'[t] # "none" => t = <<p, s>> \/ working[t] # "none"
      BY <1>1, <1>7 DEF WorkerAttach
    <2> QED
      BY <1>1, <1>7, <2>1, <2>2 DEF WorkerAttach
  <1>8. ASSUME NEW p \in Pred, NEW s \in Scenario, NEW confidence \in Confidences,
               WorkerRecord(p, s, confidence)
        PROVE  TypeOK'
    <2>1. working' \in [Pred \X Scenario -> Stages]
      BY <1>1, <1>8 DEF WorkerRecord, Stages
    <2>2. \A t \in Pred \X Scenario : working'[t] # "none" => working[t] # "none"
      BY <1>1, <1>8 DEF WorkerRecord
    <2> QED
      BY <1>1, <1>8, <2>1, <2>2 DEF WorkerRecord
  <1>9. ASSUME NEW p \in Pred, NEW s \in Scenario, NEW files \in SUBSET File,
               WorkerComplete(p, s, files)
        PROVE  TypeOK'
    <2>1. working' \in [Pred \X Scenario -> Stages]
      BY <1>1, <1>9 DEF WorkerComplete, Stages
    <2>2. \A t \in Pred \X Scenario : working'[t] # "none" => working[t] # "none"
      BY <1>1, <1>9 DEF WorkerComplete
    <2>3. completions' \in Nat
      BY <1>1, <1>9 DEF WorkerComplete
    <2> QED
      BY <1>1, <1>9, <2>1, <2>2, <2>3 DEF WorkerComplete
  <1>10. ASSUME NEW p \in Pred, ComposerSnapshot(p)
         PROVE  TypeOK'
    BY <1>1, <1>10 DEF ComposerSnapshot
  <1>11. ASSUME NEW p \in Pred, Adopt(p)
         PROVE  TypeOK'
    BY <1>1, <1>11 DEF Adopt
  <1>12. ASSUME NEW p \in Pred, PrimeStart(p) \/ DraftStart(p)
         PROVE  TypeOK'
    BY <1>1, <1>12 DEF PrimeStart, DraftStart, Active
  <1>13. CASE PrimeNothing \/ DraftFail \/ CycleEnd \/ CyclePreempted
    BY <1>1, <1>13, NoSnapshotIsTyped
    DEF PrimeNothing, DraftFail, CycleEnd, CyclePreempted
  <1>16. CASE CycleCutShort
    BY <1>1, <1>16 DEF CycleCutShort
  <1>17. ASSUME NEW chosen \in SUBSET Pred, RefineStart(chosen)
         PROVE  TypeOK'
    BY <1>1, <1>17 DEF RefineStart, Active
  <1>18. ASSUME NEW p \in Pred, MatureStart(p)
         PROVE  TypeOK'
    <2>1. held' \in Snapshot
      BY <1>1, <1>18 DEF MatureStart, Snapshot, Entry
    <2> QED
      BY <1>1, <1>18, <2>1 DEF MatureStart
  <1>19. ASSUME NEW kept \in BOOLEAN, MatureDone(kept)
         PROVE  TypeOK'
    BY <1>1, <1>19, NoSnapshotIsTyped DEF MatureDone
  <1>14. ASSUME NEW f \in File, NEW version \in NoHash..MaxVersion,
                FileEdit(f, version)
         PROVE  TypeOK'
    <2>1. disk' \in [File -> Hash]
      BY <1>1, <1>14 DEF FileEdit, Hash, NoHash
    <2> QED
      BY <1>1, <1>14, <2>1 DEF FileEdit
  <1>15. CASE UNCHANGED vars
    BY <1>1, <1>15 DEF vars, Enrolled
  <1> QED
    BY <1>2, <1>3, <1>4, <1>5, <1>6, <1>7, <1>8, <1>9, <1>10, <1>11, <1>12,
       <1>13, <1>14, <1>15, <1>16, <1>17, <1>18, <1>19
    DEF Next, Cycle, Workers, Others

\* The invariant is inductive.
LEMMA StepIInv == IInv /\ [Next]_vars => IInv'
  <1> SUFFICES ASSUME IInv, [Next]_vars PROVE IInv'
    OBVIOUS
  <1>1. RegStep /\ spec' = spec
    BY StepIsLegal
  <1>2. TypeOK'
    BY <1>1, TypeStep
  <1>3. ASSUME NEW p \in Pred
        PROVE  (Sound(p, reg[p]) /\ (reg[p].readiness = "absent" => reg[p] = Absent))'
    <2>1. CASE reg'[p] = reg[p]
      BY <1>1, <2>1 DEF IInv, Sound, IsTerminal
    <2>2. CASE Legal(p, reg[p], reg'[p])
      BY <1>1, <2>2 DEF Legal, Sound, IsTerminal
    <2> QED
      BY <1>1, <2>1, <2>2 DEF RegStep
  <1> QED
    BY <1>2, <1>3 DEF IInv

-----------------------------------------------------------------------------
(* The theorems.                                                           *)

\* The inductive invariant holds in every reachable state: the entries the
\* registry's methods leave behind are sound whatever the interleaving.
THEOREM Invariance == Spec => []IInv
  BY InitIInv, StepIInv, PTL DEF Spec

\* The registry keeps its types: no task in flight, no priming and no drafting
\* ever refers to a prediction that has left the table.
THEOREM TypeCorrect == Spec => []TypeOK
  BY Invariance, PTL DEF IInv

\* However sweeps, workers, drafts and adoptions interleave, a prediction that
\* reads "ready" has something to hand over or an invalidation to explain why not.
THEOREM ReadyPrepared == Spec => []ReadyIsPrepared
  <1>1. IInv => ReadyIsPrepared
    BY DEF IInv, Sound, ReadyIsPrepared
  <1> QED
    BY <1>1, Invariance, PTL

\* Decay, halving and rebalancing leave every live prediction at or above the
\* floor, but for the items a reconciliation reported stalled.
THEOREM FloorKept == Spec => []OnlyStallStarves
  <1>1. IInv => OnlyStallStarves
    BY DEF IInv, Sound, OnlyStallStarves
  <1> QED
    BY <1>1, Invariance, PTL

\* No interleaving, and no preemption, leaves a prediction half drafted.
THEOREM NeverLeftDrafting == Spec => []DraftingNeverRests
  <1>1. IInv => DraftingNeverRests
    BY DEF IInv, Sound, DraftingNeverRests
  <1> QED
    BY <1>1, Invariance, PTL

\* Readiness only climbs, stale is for good, and so is an adoption.
THEOREM Monotone == Spec => NeverRegresses
  <1> DEFINE Up == \A p \in Pred :
                     /\ Rank[reg[p].readiness] <= Rank[reg'[p].readiness]
                     /\ reg[p].spent => reg'[p].spent
  <1>1. IInv /\ [Next]_vars => [Up]_vars
    <2> SUFFICES ASSUME IInv, [Next]_vars PROVE Up
      OBVIOUS
    <2>1. RegStep
      BY StepIsLegal
    <2> SUFFICES ASSUME NEW p \in Pred
                 PROVE  /\ Rank[reg[p].readiness] <= Rank[reg'[p].readiness]
                        /\ reg[p].spent => reg'[p].spent
      OBVIOUS
    <2>2. CASE reg'[p] = reg[p]
      <3>1. Rank[reg[p].readiness] \in Int
        BY RankIsInt DEF IInv, TypeOK, Entry
      <3> QED
        BY <2>2, <3>1
    <2>3. CASE Legal(p, reg[p], reg'[p])
      BY <2>3 DEF Legal, Climbs
    <2> QED
      BY <2>1, <2>2, <2>3 DEF RegStep
  <1> QED
    BY <1>1, Invariance, PTL DEF Spec, NeverRegresses

-----------------------------------------------------------------------------
(* The sweep and moved evidence.                                           *)

\* A set of predictions has one enrolled last: the least upper bound of the
\* set, which the well-ordering of the naturals provides, belongs to it.
LEMMA LastExists ==
    ASSUME NEW W \in SUBSET Pred, W # {}
    PROVE  \E p \in W : \A q \in W : q <= p
  <1> DEFINE Bounds == {n \in Nat : \A q \in W : q <= n}
  <1>1. N \in Bounds /\ Bounds \subseteq Nat
    BY DEF Pred
  <1>2. PICK m \in Bounds : \A n \in Bounds : m <= n
    <2> DEFINE R == OpToRel(<, Nat)
    <2>1. IsWellFoundedOn(R, Nat)
      BY NatLessThanWellFounded
    <2>2. \A x, y \in Nat : x < y => <<x, y>> \in R
      BY DEF OpToRel
    <2> HIDE DEF R, Bounds
    <2>3. \E m \in Bounds : \A n \in Bounds : <<n, m>> \notin R
      BY <1>1, <2>1, WFMin
    <2>4. PICK m \in Bounds : \A n \in Bounds : <<n, m>> \notin R
      BY <2>3
    <2>5. ASSUME NEW n \in Bounds
          PROVE  m <= n
      <3>1. n \in Nat /\ m \in Nat
        BY <1>1
      <3>2. ~(n < m)
        BY <2>2, <2>4, <3>1, Zenon
      <3> QED
        BY <3>1, <3>2
    <2> QED
      BY <2>5
  <1>3. m \in Nat /\ \A q \in W : q \in Nat /\ q >= 1 /\ q <= m
    BY DEF Pred
  <1>4. CASE m \in W
    BY <1>3, <1>4
  <1>5. CASE m \notin W
    <2>1. m - 1 \in Nat
      BY <1>3
    <2>2. \A q \in W : q <= m - 1
      BY <1>3, <1>5
    <2>3. m - 1 \in Bounds
      BY <2>1, <2>2
    <2> QED
      BY <1>2, <1>3, <2>3
  <1> QED
    BY <1>4, <1>5

\* When the captures of a file agree, a live prediction that captured another
\* version of it than the one on disk makes the file count as changed.
LEMMA MovedIsChanged ==
    ASSUME IInv, CapturesAgree, NEW p \in Pred, NEW f \in File,
           ~IsTerminal(reg[p]), reg[p].hashes[f] \notin {NoHash, disk[f]}
    PROVE  f \in ChangedFiles
  <1>1. p \in Watchers(f) /\ Watchers(f) \in SUBSET Pred /\ Watchers(f) # {}
    BY DEF Watchers
  <1>2. \E w \in Watchers(f) : \A q \in Watchers(f) : q <= w
    BY <1>1, LastExists
  <1>3. LastWatcher(f) \in Watchers(f)
    BY <1>2 DEF LastWatcher
  <1>4. reg[LastWatcher(f)].hashes[f] = reg[p].hashes[f]
    BY <1>1, <1>3 DEF CapturesAgree
  <1> QED
    BY <1>1, <1>4 DEF ChangedFiles

\* What the sweep leaves prepared of a live entry whose evidence has moved.
LEMMA SweptEntry ==
    ASSUME IInv, CapturesAgree, NEW p \in Pred,
           NEW commit \in BOOLEAN, NEW from, reg' = Swept(commit, from),
           ~IsTerminal(reg'[p]), NEW f \in File,
           reg[p].hashes[f] \notin {NoHash, disk[f]}
    PROVE  reg'[p].prepared = Aged(reg[p]).replaced.draft
  <1> DEFINE e == reg[p]
             a == Aged(e)
             d == Signalled(p, commit, ChangedFiles, from, a)
             r == reg'[p]
  <1>1. /\ ChangedFiles \in SUBSET File /\ disk \in [File -> Hash]
        /\ Sound(p, e) /\ e \in Entry /\ (e.readiness = "absent" => e = Absent)
    BY DEF ChangedFiles, IInv, TypeOK
  <1>2. r = IF OnProbation(a) /\ Touched(p, commit, ChangedFiles, from)
            THEN RolledBack(d) ELSE d
    BY DEF Swept
  <1>3. a = e \/ Legal(p, e, a)
    BY <1>1, AgedLegal
  <1>4. /\ Sound(p, a) /\ SameRun(e, a) /\ a.hashes = e.hashes
        /\ ~OnProbation(a) => a.replaced.draft = {}
    BY <1>1, <1>3, AgedEffect DEF Legal
  <1> HIDE DEF a
  <1>5. /\ d = a \/ Legal(p, a, d)
        /\ SameProbation(a, d)
        /\ ~IsTerminal(d) /\ (\E g \in ChangedFiles : a.hashes[g] # NoHash)
             => d.prepared = {}
    BY <1>1, <1>4, SignalledEffect
  <1>6. /\ Touched(p, commit, ChangedFiles, from) => d.invalid
        /\ IsTerminal(e) => d = a
    <2>1. IsTerminal(e) => d = a
      BY <1>4 DEF d, Signalled, OnCommit, OnFileChange, OnCategoryShift, IsTerminal,
                  SameRun
    <2>2. Touched(p, commit, ChangedFiles, from) => d.invalid
      <3>1. Touched(p, commit, ChangedFiles, from)
              => /\ ~IsTerminal(a)
                 /\ \/ commit /\ spec[p].specificity # "concrete"
                    \/ \E g \in ChangedFiles : a.hashes[g] # NoHash
                    \/ spec[p].anchor = from
        BY <1>4 DEF Touched, IsTerminal, SameRun
      <3> QED
        BY <1>1, <1>4, <3>1, SignalledEffect
    <2> QED
      BY <2>1, <2>2
  <1> HIDE DEF d
  <1>7. Sound(p, d)
    BY <1>4, <1>5 DEF Legal
  <1>8. r = d \/ (r = RolledBack(d) /\ d.invalid /\ ~IsTerminal(e))
    BY <1>2, <1>6 DEF Touched
  <1>9. ~IsTerminal(e)
    BY <1>4, <1>6, <1>8 DEF IsTerminal, SameRun
  <1>10. d.readiness # "absent"
    BY <1>4, <1>5, <1>9 DEF Legal, IsTerminal, SameRun
  <1>11. /\ d.invalid => RolledBack(d).readiness = d.readiness
         /\ d.invalid => RolledBack(d).prepared
                           = (d.prepared \ Drafts) \cup d.replaced.draft
    BY <1>7, <1>10, RolledBackLegal
  <1>12. ~IsTerminal(d)
    BY <1>8, <1>11 DEF IsTerminal
  <1>13. f \in ChangedFiles
    BY <1>9, MovedIsChanged
  <1>14. d.prepared = {} /\ Touched(p, commit, ChangedFiles, from)
    BY <1>4, <1>5, <1>9, <1>12, <1>13 DEF Touched
  <1>15. CASE OnProbation(a)
    BY <1>2, <1>5, <1>6, <1>11, <1>14, <1>15 DEF SameProbation, a
  <1>16. CASE ~OnProbation(a)
    BY <1>2, <1>4, <1>14, <1>16 DEF a
  <1> QED
    BY <1>15, <1>16

\* For any number of predictions and files and any length of probation: where
\* the captures of each file agree, nothing prepared from a version other than
\* the one on disk survives the sweep at the top of a cycle, but for the draft
\* that a rollback in the same sweep puts back.
THEOREM SweepIsThorough == Spec => SweepDropsMovedEvidence
  <1> DEFINE Thorough == Sweeps /\ CapturesAgree => \A p \in Pred : KeepsOnlyReplaced(p)
  <1>1. IInv /\ [Next]_vars => [Thorough]_vars
    <2> SUFFICES ASSUME IInv, [Next]_vars, Sweeps, CapturesAgree, NEW p \in Pred
                 PROVE  KeepsOnlyReplaced(p)
      OBVIOUS
    <2>1. PICK commit \in BOOLEAN, from \in Category \cup {NoCategory} :
            CycleSweep(commit, from)
      BY DEF Next, Cycle, Workers, Others, Sweeps, vars, CycleCutShort, ItemStateDelta, MergeSpecs,
             PrimeStart, DraftStart, PrimeFinish, PrimeNothing, DraftFinish, DraftFail,
             RefineStart, MatureStart, MatureDone, CycleEnd, CyclePreempted, WorkerAttach, WorkerRecord, WorkerComplete,
             ComposerSnapshot, Adopt, FileEdit
    <2>2. reg' = Swept(commit, from)
      BY <2>1 DEF CycleSweep
    <2> QED
      BY <2>2, SweptEntry DEF KeepsOnlyReplaced, Moved
  <1> QED
    BY <1>1, Invariance, PTL DEF Spec, SweepDropsMovedEvidence

=============================================================================
