----------------------- MODULE AdoptionOutcomesProofs -----------------------
(***************************************************************************)
(* Theorems about AdoptionOutcomes, for any number of predictions and      *)
(* adoptions, whatever goes wrong: types, an adoption has one record at    *)
(* most, what is on probation can be rolled back, only an adoption of a    *)
(* stale prediction is resolved as stale, and the engine implements        *)
(* AdoptionLog.  Each follows from an invariant of its own.                *)
(***************************************************************************)
EXTENDS AdoptionOutcomes, TLAPS

USE OutcomesAssumption

-----------------------------------------------------------------------------
(* Types.                                                                  *)

\* What is selected for maturation, or being matured, has revisions and failures left.
CanMature(p) == reg[p].revision < Cap /\ reg[p].failed < Cap

Refining ==
    /\ phase # "refining" => candidates = {} /\ maturing = None
    /\ \A p \in candidates : CanMature(p)
    /\ maturing # None => maturing \notin candidates /\ CanMature(maturing)

RegOK == reg \in [Pred -> Entry]

LogOK ==
    /\ queue \in Seq(Descriptor) /\ draining \in Seq(Descriptor)
    /\ rows \in Seq(Row) /\ aged \in 0..Len(rows)
    /\ fetched \subseteq DOMAIN rows
    /\ adoptions \in 0..MaxAdoptions

SweepOK == staled \subseteq Pred /\ rolledBack \subseteq Pred /\ phase \in Phases

PassOK == candidates \subseteq Pred /\ maturing \in Pred \cup {None} /\ Refining

TInv == TypeOK /\ Refining

LEMMA TypeParts == TInv <=> RegOK /\ LogOK /\ SweepOK /\ PassOK
BY DEF TInv, TypeOK, RegOK, LogOK, SweepOK, PassOK

LEMMA TypePartsNext == RegOK' /\ LogOK' /\ SweepOK' /\ PassOK' => TInv'
BY DEF TInv, TypeOK, RegOK, LogOK, SweepOK, PassOK

LEMMA InitTypes == Init => TInv
<1> SUFFICES ASSUME Init PROVE TInv
  OBVIOUS
<1>1. Absent \in Entry
  BY DEF Absent, Entry, NoWindow
<1>2. RegOK
  BY <1>1 DEF Init, RegOK
<1>3. queue = << >> /\ draining = << >> /\ rows = << >> /\ aged = 0 /\ adoptions = 0 /\ fetched = {}
  BY DEF Init
<1>4. << >> \in Seq(Descriptor) /\ << >> \in Seq(Row) /\ Len(<< >>) = 0
  OBVIOUS
<1>5. LogOK
  BY <1>3, <1>4 DEF LogOK
<1>6. SweepOK
  BY DEF Init, SweepOK, Phases
<1>7. PassOK
  <2>1. candidates = {} /\ maturing = None /\ phase = "idle"
    BY DEF Init
  <2> QED
    BY <2>1 DEF PassOK, Refining
<1> QED
  BY <1>2, <1>5, <1>6, <1>7, TypeParts

\* Steps that leave some of it alone.
LEMMA LogKept == LogOK /\ UNCHANGED <<queue, draining, rows, aged, fetched, adoptions>> => LogOK'
BY DEF LogOK

LEMMA PassKept ==
    ASSUME PassOK, UNCHANGED <<candidates, maturing>>,
           phase' = "refining" \/ (candidates = {} /\ maturing = None),
           \A p \in Pred : reg'[p].revision <= reg[p].revision
                          /\ reg'[p].failed <= reg[p].failed,
           RegOK, RegOK'
    PROVE  PassOK'
BY DEF PassOK, Refining, CanMature, RegOK, Entry

\* An update of the outcomes leaves the table a table of the same length.
LEMMA ResolvedRows ==
    ASSUME rows \in Seq(Row), NEW preds, NEW outcome \in {"confirmed", "rejected", "stale"}
    PROVE  /\ Resolved(preds, outcome) \in Seq(Row)
           /\ DOMAIN Resolved(preds, outcome) = DOMAIN rows
           /\ Len(Resolved(preds, outcome)) = Len(rows)
           /\ \A i \in DOMAIN rows :
                 /\ Resolved(preds, outcome)[i].adoption = rows[i].adoption
                 /\ Resolved(preds, outcome)[i].outcome =
                       IF rows[i].pred \in preds /\ rows[i].outcome = "pending"
                       THEN outcome ELSE rows[i].outcome
<1> DEFINE now == Resolved(preds, outcome)
<1>1. DOMAIN rows = 1..Len(rows) /\ Len(rows) \in Nat
  OBVIOUS
<1>2. /\ now = [i \in 1..Len(rows) |->
                   IF rows[i].pred \in preds /\ rows[i].outcome = "pending"
                   THEN [rows[i] EXCEPT !.outcome = outcome] ELSE rows[i]]
  BY <1>1 DEF Resolved
<1>3. \A i \in 1..Len(rows) :
         /\ now[i] \in Row /\ now[i].adoption = rows[i].adoption
         /\ now[i].outcome = IF rows[i].pred \in preds /\ rows[i].outcome = "pending"
                             THEN outcome ELSE rows[i].outcome
  <2> SUFFICES ASSUME NEW i \in 1..Len(rows)
               PROVE  /\ now[i] \in Row /\ now[i].adoption = rows[i].adoption
                      /\ now[i].outcome = IF rows[i].pred \in preds /\ rows[i].outcome = "pending"
                                          THEN outcome ELSE rows[i].outcome
    OBVIOUS
  <2>1. rows[i] \in Row
    BY <1>1
  <2>2. now[i] = IF rows[i].pred \in preds /\ rows[i].outcome = "pending"
                 THEN [rows[i] EXCEPT !.outcome = outcome] ELSE rows[i]
    BY <1>2
  <2> HIDE DEF now
  <2> QED
    BY <2>1, <2>2 DEF Row
<1>4. DOMAIN now = 1..Len(rows)
  BY <1>2
<1> HIDE DEF now
<1>5. now \in Seq(Row) /\ Len(now) = Len(rows)
  BY <1>1, <1>2, <1>3, <1>4
<1> QED
  BY <1>1, <1>3, <1>4, <1>5 DEF now

LEMMA ConfirmedRow ==
    ASSUME rows \in Seq(Row), NEW i
    PROVE  LET now == [rows EXCEPT ![i].outcome = "confirmed"]
           IN  /\ now \in Seq(Row) /\ DOMAIN now = DOMAIN rows /\ Len(now) = Len(rows)
               /\ \A j \in DOMAIN rows : now[j].adoption = rows[j].adoption
<1> DEFINE now == [rows EXCEPT ![i].outcome = "confirmed"]
<1>1. DOMAIN rows = 1..Len(rows) /\ Len(rows) \in Nat
  OBVIOUS
<1>2. now = [j \in 1..Len(rows) |-> IF j = i THEN [rows[j] EXCEPT !.outcome = "confirmed"]
                                            ELSE rows[j]]
  BY <1>1
<1>3. \A j \in 1..Len(rows) : now[j] \in Row /\ now[j].adoption = rows[j].adoption
  <2> TAKE j \in 1..Len(rows)
  <2>1. rows[j] \in Row
    BY <1>1
  <2>2. now[j] = IF j = i THEN [rows[j] EXCEPT !.outcome = "confirmed"] ELSE rows[j]
    BY <1>2
  <2> HIDE DEF now
  <2> QED
    BY <2>1, <2>2 DEF Row
<1>4. DOMAIN now = 1..Len(rows)
  BY <1>2
<1> HIDE DEF now
<1>5. now \in Seq(Row) /\ Len(now) = Len(rows)
  BY <1>1, <1>2, <1>3, <1>4
<1> QED
  BY <1>1, <1>3, <1>4, <1>5 DEF now

-----------------------------------------------------------------------------
(* Every step keeps the types.                                             *)

LEMMA RolledBackEntry ==
    ASSUME NEW e \in Entry
    PROVE  /\ RolledBack(e) \in Entry
           /\ RolledBack(e).revision <= e.revision /\ RolledBack(e).failed = e.failed
           /\ RolledBack(e).window = NoWindow
<1>1. /\ e.revision \in 0..Cap /\ e.failed \in 0..Cap /\ e.spent \in BOOLEAN
      /\ e.readiness \in {"absent", "preparing", "ready", "stale"}
  BY DEF Entry
<1>2. (IF e.revision > 0 THEN e.revision - 1 ELSE 0) \in 0..e.revision
  BY <1>1
<1>3. NoWindow \in NoWindow..ProbationCycles
  BY DEF NoWindow
<1>4. [e EXCEPT !.revision = IF @ > 0 THEN @ - 1 ELSE 0] \in Entry
  BY <1>1, <1>2 DEF Entry
<1>5. RolledBack(e) \in Entry
  BY <1>3, <1>4 DEF RolledBack, Entry
<1>6. /\ RolledBack(e).revision = (IF e.revision > 0 THEN e.revision - 1 ELSE 0)
      /\ RolledBack(e).failed = e.failed /\ RolledBack(e).window = NoWindow
  BY DEF RolledBack, Entry
<1> QED
  BY <1>1, <1>2, <1>5, <1>6

LEMMA SweepTypes ==
    ASSUME TInv, NEW touched \in SUBSET Pred, NEW staling \in SUBSET touched,
           CycleSweep(touched, staling)
    PROVE  TInv'
<1> DEFINE after(p) == IF p \in staling THEN [reg[p] EXCEPT !.readiness = "stale"]
                                        ELSE reg[p]
           rolled == {p \in touched : OnProbation(p)}
<1>0. RegOK /\ LogOK /\ SweepOK /\ PassOK
  BY TypeParts
<1>1. \A p \in Pred : after(p) \in Entry /\ after(p).revision = reg[p].revision
                                       /\ after(p).failed = reg[p].failed
  BY <1>0 DEF RegOK, Entry
<1>2. reg' = [p \in Pred |-> IF p \in rolled THEN RolledBack(after(p)) ELSE after(p)]
  BY DEF CycleSweep
<1> HIDE DEF after
<1>3. \A p \in Pred : /\ reg'[p] \in Entry /\ reg'[p].revision <= reg[p].revision
                      /\ reg'[p].failed <= reg[p].failed
  <2> TAKE p \in Pred
  <2>1. reg[p] \in Entry
    BY <1>0 DEF RegOK
  <2>2. CASE p \in rolled
    BY <1>1, <1>2, <2>1, <2>2, RolledBackEntry DEF Entry
  <2>3. CASE p \notin rolled
    BY <1>1, <1>2, <2>1, <2>3 DEF Entry
  <2> QED
    BY <2>2, <2>3
<1>4. RegOK'
  BY <1>2, <1>3 DEF RegOK
<1>5. LogOK'
  BY <1>0, LogKept DEF CycleSweep, log, cycleLocals
<1>6. SweepOK'
  BY <1>0 DEF SweepOK, CycleSweep, ToStale, Phases
<1>7. PassOK'
  <2>1. candidates = {} /\ maturing = None /\ UNCHANGED <<candidates, maturing>>
    BY <1>0 DEF PassOK, Refining, CycleSweep, cycleLocals
  <2> QED
    BY <1>0, <1>3, <1>4, <2>1, PassKept
<1> QED
  BY <1>4, <1>5, <1>6, <1>7, TypePartsNext

LEMMA BeginTypes ==
    ASSUME TInv, CycleBegin
    PROVE  TInv'
<1>0. RegOK /\ LogOK /\ SweepOK /\ PassOK
  BY TypeParts
<1>1. \A p \in Pred : /\ reg'[p] \in Entry /\ reg'[p].revision <= reg[p].revision
                      /\ reg'[p].failed <= reg[p].failed
  <2> TAKE p \in Pred
  <2>1. reg[p] \in Entry
    BY <1>0 DEF RegOK
  <2>2. reg'[p] = [reg[p] EXCEPT !.window = IF @ = NoWindow THEN NoWindow ELSE @ - 1]
    BY DEF CycleBegin
  <2> QED
    BY <2>1, <2>2 DEF Entry, NoWindow
<1>2. RegOK'
  BY <1>1 DEF RegOK, CycleBegin
<1>3. LogOK'
  BY <1>0, LogKept DEF CycleBegin, log, cycleLocals
<1>4. SweepOK'
  BY <1>0 DEF SweepOK, CycleBegin, Phases
<1>5. PassOK'
  <2>1. candidates = {} /\ maturing = None /\ UNCHANGED <<candidates, maturing>>
    BY <1>0 DEF PassOK, Refining, CycleBegin, cycleLocals
  <2> QED
    BY <1>0, <1>1, <1>2, <2>1, PassKept
<1> QED
  BY <1>2, <1>3, <1>4, <1>5, TypePartsNext

\* A new table of the same length, its rows typed, is a table.
LEMMA ResolveTypes ==
    ASSUME TInv, NEW failing \in BOOLEAN, ResolveStale(failing) \/ ResolveRejected(failing)
    PROVE  TInv'
<1>0. RegOK /\ LogOK /\ SweepOK /\ PassOK
  BY TypeParts
<1>1. rows' \in Seq(Row) /\ DOMAIN rows' = DOMAIN rows /\ Len(rows') = Len(rows)
  <2>0. rows \in Seq(Row)
    BY <1>0 DEF LogOK
  <2>1. rows' \in {rows, Resolved(staled, "stale"), Resolved(rolledBack, "rejected")}
    BY DEF ResolveStale, ResolveRejected
  <2>2. /\ Resolved(staled, "stale") \in Seq(Row)
        /\ DOMAIN Resolved(staled, "stale") = DOMAIN rows
        /\ Len(Resolved(staled, "stale")) = Len(rows)
    BY <2>0, ResolvedRows
  <2>3. /\ Resolved(rolledBack, "rejected") \in Seq(Row)
        /\ DOMAIN Resolved(rolledBack, "rejected") = DOMAIN rows
        /\ Len(Resolved(rolledBack, "rejected")) = Len(rows)
    BY <2>0, ResolvedRows
  <2> QED
    BY <2>0, <2>1, <2>2, <2>3
<1>2. UNCHANGED <<reg, queue, aged, adoptions, cycleLocals>>
  BY DEF ResolveStale, ResolveRejected
<1>3. RegOK' /\ LogOK'
  BY <1>0, <1>1, <1>2 DEF RegOK, LogOK, cycleLocals
<1>4. SweepOK'
  BY <1>0 DEF SweepOK, ResolveStale, ResolveRejected, Phases
<1>5. PassOK'
  <2>1. candidates = {} /\ maturing = None
    BY <1>0 DEF PassOK, Refining, ResolveStale, ResolveRejected
  <2> QED
    BY <2>1, <1>2 DEF PassOK, Refining, cycleLocals
<1> QED
  BY <1>3, <1>4, <1>5, TypePartsNext

\* The steps that change the registry and neither the log nor the sweep's lists.
LEMMA RegTypes ==
    ASSUME TInv,
           \/ \E p \in Pred : Contradict(p) \/ Prepare(p)
           \/ \E batch \in SUBSET Pred : Merge(batch)
    PROVE  TInv'
<1>0. RegOK /\ LogOK /\ SweepOK /\ PassOK
  BY TypeParts
<1>1. RegOK'
  <2>1. ASSUME NEW p \in Pred, Contradict(p) \/ Prepare(p) PROVE RegOK'
    BY <1>0, <2>1 DEF RegOK, Entry, Contradict, Prepare
  <2>2. ASSUME NEW batch \in SUBSET Pred, Merge(batch) PROVE RegOK'
    <3>0. Absent \in Entry
      BY DEF Absent, Entry, NoWindow
    <3>1. [Absent EXCEPT !.readiness = "preparing"] \in Entry
      BY <3>0 DEF Entry
    <3> QED
      BY <1>0, <2>2, <3>1 DEF RegOK, Merge
  <2> QED
    BY <2>1, <2>2
<1>2. UNCHANGED <<log, staled, rolledBack, cycleLocals>> /\ phase' \in Phases
  BY <1>0 DEF Contradict, Merge, Prepare, SweepOK, Phases
<1>3. LogOK' /\ SweepOK'
  BY <1>0, <1>2, LogKept DEF SweepOK, log, cycleLocals
<1>4. PassOK'
  <2>1. CASE phase = "reconciling"
    BY <1>0, <1>2, <2>1 DEF PassOK, Refining, cycleLocals
  <2>2. ASSUME NEW p \in Pred, Prepare(p) PROVE PassOK'
    <3>1. \A q \in Pred : reg'[q].revision = reg[q].revision /\ reg'[q].failed = reg[q].failed
      BY <1>0, <2>2 DEF Prepare, RegOK, Entry
    <3> QED
      BY <1>0, <1>2, <2>2, <3>1 DEF Prepare, PassOK, Refining, CanMature, cycleLocals
  <2> QED
    BY <2>1, <2>2 DEF Contradict, Merge
<1> QED
  BY <1>1, <1>3, <1>4, TypePartsNext

LEMMA AdoptTypes ==
    ASSUME TInv, NEW p \in Pred, Adopt(p)
    PROVE  TInv'
<1>0. RegOK /\ LogOK /\ SweepOK /\ PassOK
  BY TypeParts
<1>1. reg[p] \in Entry /\ reg[p].revision \in 0..Cap
  BY <1>0 DEF RegOK, Entry
<1>2. RegOK'
  BY <1>0 DEF RegOK, Entry, Adopt
<1>3. adoptions' \in 1..MaxAdoptions
  BY <1>0 DEF LogOK, Adopt
<1>4. [adoption |-> adoptions', pred |-> p, revision |-> reg[p].revision] \in Descriptor
  BY <1>1, <1>3 DEF Descriptor
<1>5. queue' \in Seq(Descriptor)
  BY <1>0, <1>4 DEF LogOK, Adopt
<1>6. LogOK'
  BY <1>0, <1>3, <1>5 DEF LogOK, Adopt, cycleLocals
<1>7. SweepOK'
  BY <1>0 DEF SweepOK, Adopt
<1>8. \A q \in Pred : reg'[q].revision = reg[q].revision /\ reg'[q].failed = reg[q].failed
  BY <1>0 DEF Adopt, RegOK, Entry
<1>9. PassOK'
  BY <1>0, <1>8 DEF Adopt, PassOK, Refining, CanMature, cycleLocals
<1> QED
  BY <1>2, <1>6, <1>7, <1>9, TypePartsNext

LEMMA FlushStartTypes ==
    ASSUME TInv, FlushStart
    PROVE  TInv'
<1>0. RegOK /\ LogOK /\ SweepOK /\ PassOK
  BY TypeParts
<1>1. RegOK' /\ LogOK' /\ SweepOK'
  BY <1>0 DEF RegOK, LogOK, SweepOK, FlushStart, QueueConsumed, Phases
<1>2. PassOK'
  BY <1>0 DEF PassOK, Refining, CanMature, FlushStart
<1> QED
  BY <1>1, <1>2, TypePartsNext

LEMMA FlushOneTypes ==
    ASSUME TInv, NEW failing \in BOOLEAN, FlushOne(failing)
    PROVE  TInv'
<1>0. RegOK /\ LogOK /\ SweepOK /\ PassOK
  BY TypeParts
<1>1. Head(draining) \in Descriptor /\ Tail(draining) \in Seq(Descriptor)
  BY <1>0 DEF LogOK, FlushOne
<1>2. Pending(Head(draining)) \in Row
  BY <1>1 DEF Pending, Row, Descriptor
<1>3. /\ rows' \in Seq(Row) /\ DOMAIN rows \subseteq DOMAIN rows'
      /\ Len(rows') \in Nat /\ Len(rows) <= Len(rows')
  BY <1>0, <1>2 DEF LogOK, FlushOne
<1>4. RegOK' /\ LogOK' /\ SweepOK'
  BY <1>0, <1>1, <1>3 DEF RegOK, LogOK, SweepOK, FlushOne
<1>5. PassOK'
  BY <1>0 DEF PassOK, Refining, CanMature, FlushOne
<1> QED
  BY <1>4, <1>5, TypePartsNext

LEMMA ConfirmTypes ==
    ASSUME TInv, NEW failing \in BOOLEAN, ConfirmStart \/ ConfirmOne(failing)
    PROVE  TInv'
<1>0. RegOK /\ LogOK /\ SweepOK /\ PassOK
  BY TypeParts
<1>1. /\ rows' \in Seq(Row) /\ DOMAIN rows' = DOMAIN rows /\ Len(rows') = Len(rows)
      /\ fetched' \subseteq DOMAIN rows
  <2>1. CASE ConfirmStart
    BY <1>0, <2>1 DEF LogOK, ConfirmStart, log, Fetched, OldestOf
  <2>2. CASE ConfirmOne(failing)
    <3> DEFINE i == Min(fetched)
    <3>1. rows' \in {rows, [rows EXCEPT ![i].outcome = "confirmed"]}
      BY <2>2 DEF ConfirmOne
    <3>2. /\ [rows EXCEPT ![i].outcome = "confirmed"] \in Seq(Row)
          /\ DOMAIN [rows EXCEPT ![i].outcome = "confirmed"] = DOMAIN rows
          /\ Len([rows EXCEPT ![i].outcome = "confirmed"]) = Len(rows)
      BY <1>0, ConfirmedRow DEF LogOK
    <3>3. fetched' \subseteq DOMAIN rows
      BY <1>0, <2>2 DEF LogOK, ConfirmOne
    <3> QED
      BY <1>0, <3>1, <3>2, <3>3 DEF LogOK
  <2> QED
    BY <2>1, <2>2
<1>2. RegOK' /\ SweepOK'
  BY <1>0 DEF RegOK, SweepOK, ConfirmStart, ConfirmOne, Phases
<1>3. LogOK'
  BY <1>0, <1>1 DEF LogOK, ConfirmStart, ConfirmOne, log
<1>4. PassOK'
  BY <1>0 DEF PassOK, Refining, CanMature, ConfirmStart, ConfirmOne
<1> QED
  BY <1>2, <1>3, <1>4, TypePartsNext

LEMMA RefineTypes ==
    ASSUME TInv,
           \/ \E chosen \in SUBSET Pred : RefineStart(chosen)
           \/ \E p \in Pred : MatureStart(p)
           \/ MatureFail \/ CycleEnd
    PROVE  TInv'
<1>0. RegOK /\ LogOK /\ SweepOK /\ PassOK
  BY TypeParts
<1>1. UNCHANGED <<reg, log, staled, rolledBack, fetched, draining>> /\ phase' \in Phases
  BY <1>0 DEF SweepOK, RefineStart, MatureStart, MatureFail, CycleEnd, Phases
<1>2. RegOK' /\ LogOK' /\ SweepOK'
  BY <1>0, <1>1, LogKept DEF RegOK, SweepOK, log
<1>3. PassOK'
  <2>1. ASSUME NEW chosen \in SUBSET Pred, RefineStart(chosen) PROVE PassOK'
    <3>1. \A q \in chosen : CanMature(q)
      BY <1>0, <2>1 DEF RefineStart, Eligible, CanMature, RegOK, Entry
    <3> QED
      BY <1>0, <2>1, <3>1 DEF RefineStart, PassOK, Refining, CanMature
  <2>2. ASSUME NEW p \in Pred, MatureStart(p) PROVE PassOK'
    BY <1>0, <2>2 DEF MatureStart, PassOK, Refining, CanMature
  <2>3. CASE MatureFail
    BY <1>0, <2>3 DEF MatureFail, PassOK, Refining, CanMature
  <2>4. CASE CycleEnd
    BY <1>0, <2>4 DEF CycleEnd, PassOK, Refining, CanMature
  <2> QED
    BY <2>1, <2>2, <2>3, <2>4
<1> QED
  BY <1>2, <1>3, TypePartsNext

LEMMA MaturedEntry ==
    ASSUME NEW e \in Entry, e.revision < Cap, e.failed < Cap, NEW kept \in BOOLEAN
    PROVE  (IF kept THEN Kept(e) ELSE Discarded(e)) \in Entry
<1>1. e.revision + 1 \in 0..Cap /\ e.failed + 1 \in 0..Cap /\ 0 \in 0..Cap
  BY DEF Entry
<1>2. ProbationCycles \in NoWindow..ProbationCycles
  BY DEF NoWindow
<1>3. Discarded(e) \in Entry
  BY <1>1 DEF Discarded, Entry
<1>4. Kept(e) \in Entry
  BY <1>1, <1>2 DEF Kept, Entry
<1> QED
  BY <1>3, <1>4

LEMMA MatureDoneTypes ==
    ASSUME TInv, NEW kept \in BOOLEAN, MatureDone(kept)
    PROVE  TInv'
<1>0. RegOK /\ LogOK /\ SweepOK /\ PassOK
  BY TypeParts
<1>1. maturing \in Pred /\ CanMature(maturing) /\ reg[maturing] \in Entry
  BY <1>0 DEF PassOK, Refining, MatureDone, RegOK
<1> DEFINE e == IF kept THEN Kept(reg[maturing]) ELSE Discarded(reg[maturing])
<1>2. e \in Entry
  BY <1>1, MaturedEntry DEF CanMature
<1>3. reg' = [reg EXCEPT ![maturing] = e]
  BY DEF MatureDone
<1> HIDE DEF e
<1>4. RegOK'
  BY <1>0, <1>1, <1>2, <1>3 DEF RegOK
<1>5. LogOK' /\ SweepOK'
  BY <1>0, LogKept DEF MatureDone, log, SweepOK
<1>6. \A q \in Pred : q # maturing => reg'[q] = reg[q]
  BY <1>0, <1>1, <1>3 DEF RegOK
<1>7. PassOK'
  BY <1>0, <1>1, <1>6 DEF MatureDone, PassOK, Refining, CanMature
<1> QED
  BY <1>4, <1>5, <1>7, TypePartsNext

LEMMA FaultTypes ==
    ASSUME TInv, Age \/ CyclePreempted \/ Crash
    PROVE  TInv'
<1>0. RegOK /\ LogOK /\ SweepOK /\ PassOK
  BY TypeParts
<1>1. RegOK'
  <2>1. Absent \in Entry
    BY DEF Absent, Entry, NoWindow
  <2> QED
    BY <1>0, <2>1 DEF RegOK, Age, CyclePreempted, Crash
<1>2. LogOK'
  <2>1. << >> \in Seq(Descriptor)
    OBVIOUS
  <2>2. CASE Age
    BY <1>0, <2>2 DEF LogOK, Age, cycleLocals
  <2>3. CASE CyclePreempted
    BY <1>0, <2>1, <2>3 DEF LogOK, CyclePreempted, LocalsLost, log
  <2>4. CASE Crash
    BY <1>0, <2>1, <2>4 DEF LogOK, Crash, LocalsLost
  <2> QED
    BY <2>2, <2>3, <2>4
<1>3. SweepOK'
  BY <1>0 DEF SweepOK, Age, CyclePreempted, Crash, Phases
<1>4. PassOK'
  BY <1>0 DEF PassOK, Refining, CanMature, Age, CyclePreempted, Crash, LocalsLost, cycleLocals
<1> QED
  BY <1>1, <1>2, <1>3, <1>4, TypePartsNext

LEMMA StutterTypes == TInv /\ UNCHANGED vars => TInv'
BY DEF TInv, TypeOK, Refining, CanMature, vars, cycleLocals

LEMMA NextTypes == TInv /\ [Next]_vars => TInv'
<1> SUFFICES ASSUME TInv, [Next]_vars PROVE TInv'
  OBVIOUS
<1>1. CASE CycleStep
  <2>1. CASE CycleBegin \/ FlushStart \/ ConfirmStart \/ MatureFail \/ CycleEnd
    BY <2>1, BeginTypes, FlushStartTypes, ConfirmTypes, RefineTypes
  <2>2. ASSUME NEW touched \in SUBSET Pred, NEW staling \in SUBSET touched,
               CycleSweep(touched, staling)
        PROVE  TInv'
    BY <2>2, SweepTypes
  <2>3. ASSUME NEW failing \in BOOLEAN,
               \/ ResolveStale(failing) \/ ResolveRejected(failing)
               \/ FlushOne(failing) \/ ConfirmOne(failing)
        PROVE  TInv'
    BY <2>3, ResolveTypes, FlushOneTypes, ConfirmTypes
  <2>4. ASSUME NEW p \in Pred, Contradict(p) \/ MatureStart(p)
        PROVE  TInv'
    BY <2>4, RegTypes, RefineTypes
  <2>5. ASSUME NEW batch \in SUBSET Pred, Merge(batch) \/ RefineStart(batch)
        PROVE  TInv'
    BY <2>5, RegTypes, RefineTypes
  <2>6. ASSUME NEW kept \in BOOLEAN, MatureDone(kept)
        PROVE  TInv'
    BY <2>6, MatureDoneTypes
  <2> QED
    BY <1>1, <2>1, <2>2, <2>3, <2>4, <2>5, <2>6 DEF CycleStep
<1>2. CASE \E p \in Pred : Prepare(p) \/ Adopt(p)
  BY <1>2, RegTypes, AdoptTypes
<1>3. CASE Age \/ CyclePreempted \/ Crash
  BY <1>3, FaultTypes
<1>4. CASE UNCHANGED vars
  BY <1>4, StutterTypes
<1> QED
  BY <1>1, <1>2, <1>3, <1>4 DEF Next

\* The variables keep their types, among them the counters their caps: however
\* cancelled and resumed, refinement never matures a prediction beyond
\* max_revisits_per_prediction, nor fails it more often.
THEOREM TypeCorrect == Spec => []TypeOK
<1>1. TInv => TypeOK
  BY DEF TInv
<1> QED
  BY <1>1, InitTypes, NextTypes, PTL DEF Spec

-----------------------------------------------------------------------------
(* What is on probation can be rolled back.                                *)

\* An entry that may be rolled back, should its window be open.
CanRollBack(e) == e.window # NoWindow => e.snapshot /\ e.revision > 0

LEMMA RollBackEntries == ProbationCanRollBack <=> \A p \in Pred : CanRollBack(reg[p])
BY DEF ProbationCanRollBack, OnProbation, CanRollBack

LEMMA CanRollBackNext ==
    ASSUME TInv, \A p \in Pred : CanRollBack(reg[p]), [Next]_vars
    PROVE  \A p \in Pred : CanRollBack(reg'[p])
<1>0. RegOK
  BY TypeParts
<1> SUFFICES ASSUME NEW q \in Pred PROVE CanRollBack(reg'[q])
  OBVIOUS
<1>e. reg[q] \in Entry /\ CanRollBack(reg[q])
  BY <1>0 DEF RegOK
<1>a. CanRollBack(Absent)
  BY DEF CanRollBack, Absent
<1>1. CASE CycleBegin
  <2>1. reg'[q] = [reg[q] EXCEPT !.window = IF @ = NoWindow THEN NoWindow ELSE @ - 1]
    BY <1>1 DEF CycleBegin
  <2> QED
    BY <1>e, <2>1 DEF CanRollBack, Entry
<1>2. ASSUME NEW touched \in SUBSET Pred, NEW staling \in SUBSET touched,
             CycleSweep(touched, staling)
      PROVE  CanRollBack(reg'[q])
  <2> DEFINE after == IF q \in staling THEN [reg[q] EXCEPT !.readiness = "stale"] ELSE reg[q]
  <2>1. /\ after \in Entry /\ after.window = reg[q].window
        /\ after.snapshot = reg[q].snapshot /\ after.revision = reg[q].revision
    BY <1>e DEF Entry
  <2>2. reg'[q] = IF q \in touched /\ OnProbation(q) THEN RolledBack(after) ELSE after
    BY <1>2 DEF CycleSweep
  <2> HIDE DEF after
  <2>3. CASE q \in touched /\ OnProbation(q)
    BY <2>1, <2>2, <2>3, RolledBackEntry DEF CanRollBack
  <2>4. CASE ~(q \in touched /\ OnProbation(q))
    BY <1>e, <2>1, <2>2, <2>4 DEF CanRollBack
  <2> QED
    BY <2>3, <2>4
<1>3. ASSUME NEW p \in Pred, Contradict(p) \/ Prepare(p) \/ Adopt(p)
      PROVE  CanRollBack(reg'[q])
  <2>1. /\ reg'[q].window = reg[q].window /\ reg'[q].snapshot = reg[q].snapshot
        /\ reg'[q].revision = reg[q].revision
    <3>1. CASE Contradict(p)
      BY <1>0, <1>e, <3>1 DEF RegOK, Entry, Contradict
    <3>2. CASE Prepare(p)
      BY <1>0, <1>e, <3>2 DEF RegOK, Entry, Prepare
    <3>3. CASE Adopt(p)
      BY <1>0, <1>e, <3>3 DEF RegOK, Entry, Adopt
    <3> QED
      BY <1>3, <3>1, <3>2, <3>3
  <2> QED
    BY <1>e, <2>1 DEF CanRollBack
<1>4. ASSUME NEW batch \in SUBSET Pred, Merge(batch)
      PROVE  CanRollBack(reg'[q])
  <2>1. reg'[q] \in {reg[q], [Absent EXCEPT !.readiness = "preparing"]}
    BY <1>4 DEF Merge
  <2>2. CanRollBack([Absent EXCEPT !.readiness = "preparing"])
    BY DEF CanRollBack, Absent
  <2> QED
    BY <1>e, <2>1, <2>2
<1>5. ASSUME NEW kept \in BOOLEAN, MatureDone(kept)
      PROVE  CanRollBack(reg'[q])
  <2>1. maturing \in Pred
    BY <1>5, TypeParts DEF PassOK, MatureDone
  <2>2. CASE q # maturing
    BY <1>0, <1>e, <1>5, <2>1, <2>2 DEF RegOK, MatureDone
  <2>3. CASE q = maturing /\ kept
    <3>1. reg'[q] = Kept(reg[q])
      BY <1>0, <1>5, <2>1, <2>3 DEF RegOK, MatureDone
    <3> QED
      BY <1>e, <3>1 DEF Kept, Entry, CanRollBack
  <2>4. CASE q = maturing /\ ~kept
    <3>1. reg'[q] = Discarded(reg[q])
      BY <1>0, <1>5, <2>1, <2>4 DEF RegOK, MatureDone
    <3> QED
      BY <1>e, <3>1 DEF Discarded, Entry, CanRollBack
  <2> QED
    BY <2>2, <2>3, <2>4
<1>6. CASE Crash
  BY <1>6, <1>a DEF Crash
<1>7. CASE UNCHANGED reg
  BY <1>e, <1>7
<1> QED
  BY <1>1, <1>2, <1>3, <1>4, <1>5, <1>6, <1>7
     DEF Next, CycleStep, vars, ResolveStale, ResolveRejected, FlushStart, FlushOne,
         ConfirmStart, ConfirmOne, RefineStart, MatureStart, MatureFail, CycleEnd,
         Age, CyclePreempted

\* A prediction on probation always has the draft its maturation replaced and a
\* revision to take back, whatever is swept, adopted, cancelled or restarted in
\* between: _maybe_rollback_probationary always restores something.
THEOREM ProbationSound == Spec => []ProbationCanRollBack
<1>1. Init => \A p \in Pred : CanRollBack(reg[p])
  BY DEF Init, CanRollBack, Absent
<1>2. TInv /\ (\A p \in Pred : CanRollBack(reg[p])) /\ [Next]_vars
        => (\A p \in Pred : CanRollBack(reg[p]))'
  BY CanRollBackNext
<1> QED
  BY <1>1, <1>2, InitTypes, NextTypes, RollBackEntries, PTL DEF Spec

-----------------------------------------------------------------------------
(* Only adoptions of stale predictions are resolved as stale.              *)

\* What a sweep hands over as staled stays stale until it has been resolved.
HandedOver == phase = "staling" => \A p \in staled : reg[p].readiness = "stale"

LEMMA HandedOverNext == TInv /\ HandedOver /\ [Next]_vars => HandedOver'
<1> SUFFICES ASSUME TInv, HandedOver, [Next]_vars, phase' = "staling",
                    NEW q \in staled'
             PROVE  reg'[q].readiness = "stale"
  BY DEF HandedOver
<1>0. RegOK /\ SweepOK /\ PassOK
  BY TypeParts
<1>1. ASSUME NEW touched \in SUBSET Pred, NEW staling \in SUBSET touched,
             CycleSweep(touched, staling)
      PROVE  reg'[q].readiness = "stale"
  <2>1. q \in staling /\ ~OnProbation(q) /\ q \in Pred
    BY <1>1 DEF CycleSweep, ToStale
  <2>2. reg'[q] = [reg[q] EXCEPT !.readiness = "stale"]
    BY <1>1, <2>1 DEF CycleSweep
  <2> QED
    BY <1>0, <2>1, <2>2 DEF RegOK, Entry
<1>2. ASSUME NEW p \in Pred, Prepare(p) \/ Adopt(p)
      PROVE  reg'[q].readiness = "stale"
  <2>1. q \in Pred /\ reg[q].readiness = "stale" /\ reg[q] \in Entry
    BY <1>0, <1>2 DEF SweepOK, RegOK, HandedOver, Prepare, Adopt
  <2>2. CASE Prepare(p)
    BY <1>0, <2>1, <2>2 DEF Prepare, RegOK
  <2>3. CASE Adopt(p)
    BY <1>0, <2>1, <2>3 DEF Adopt, RegOK, Entry
  <2> QED
    BY <1>2, <2>2, <2>3
<1>3. CASE UNCHANGED <<reg, phase, staled>>
  BY <1>3 DEF HandedOver
<1>4. UNCHANGED <<reg, phase, staled>> \/ phase' # "staling"
      \/ (\E p \in Pred : Prepare(p) \/ Adopt(p))
      \/ (\E touched \in SUBSET Pred : \E staling \in SUBSET touched :
             CycleSweep(touched, staling))
  <2>1. \A kept \in BOOLEAN : MatureDone(kept) => phase' # "staling"
    BY <1>0 DEF PassOK, Refining, MatureDone
  <2>2. \A p \in Pred : Contradict(p) => phase' # "staling"
    BY DEF Contradict
  <2> QED
    BY <2>1, <2>2 DEF Next, CycleStep, vars, CycleBegin, ResolveStale, ResolveRejected,
         FlushStart, FlushOne, ConfirmStart, ConfirmOne, RefineStart, MatureStart,
         MatureFail, CycleEnd, Age, CyclePreempted, Crash, Merge
<1> QED
  BY <1>1, <1>2, <1>3, <1>4

LEMMA StepStaleMeansStaled ==
    ASSUME TInv, HandedOver, [Next]_vars
    PROVE  \A i \in DOMAIN rows :
             rows[i].outcome = "pending" /\ rows'[i].outcome = "stale"
               => reg[rows[i].pred].readiness = "stale"
<1> SUFFICES ASSUME NEW i \in DOMAIN rows,
                    rows[i].outcome = "pending", rows'[i].outcome = "stale"
             PROVE  reg[rows[i].pred].readiness = "stale"
  OBVIOUS
<1>0. rows \in Seq(Row) /\ SweepOK /\ LogOK
  BY TypeParts DEF LogOK
<1>1. ASSUME NEW failing \in BOOLEAN, ResolveStale(failing)
      PROVE  reg[rows[i].pred].readiness = "stale"
  <2>1. rows' = Resolved(staled, "stale")
    BY <1>1 DEF ResolveStale
  <2>2. rows[i].pred \in staled
    BY <1>0, <2>1, ResolvedRows
  <2> QED
    BY <1>1, <2>2 DEF HandedOver, ResolveStale
<1>2. ASSUME NEW failing \in BOOLEAN, ResolveRejected(failing)
      PROVE  FALSE
  <2>1. rows' = Resolved(rolledBack, "rejected")
    BY <1>2 DEF ResolveRejected
  <2> QED
    BY <1>0, <2>1, ResolvedRows
<1>3. ASSUME NEW failing \in BOOLEAN, FlushOne(failing)
      PROVE  FALSE
  <2>1. rows' = Append(rows, Pending(Head(draining)))
    BY <1>3 DEF FlushOne
  <2> QED
    BY <1>0, <2>1
<1>4. ASSUME NEW failing \in BOOLEAN, ConfirmOne(failing)
      PROVE  FALSE
  <2>1. rows' = [rows EXCEPT ![Min(fetched)].outcome = "confirmed"]
    BY <1>4 DEF ConfirmOne
  <2>2. rows[i] \in Row
    BY <1>0
  <2> QED
    BY <2>1, <2>2 DEF Row
<1>5. CASE UNCHANGED rows
  BY <1>5
<1> QED
  BY <1>1, <1>2, <1>3, <1>4, <1>5
     DEF Next, CycleStep, vars, log, CycleBegin, CycleSweep, Contradict, Merge, Prepare,
         Adopt, FlushStart, ConfirmStart, RefineStart, MatureStart, MatureDone,
         MatureFail, CycleEnd, Age, CyclePreempted, Crash

\* The log calls an adoption stale only while its prediction is stale: a sweep
\* cancelled before its verdicts were written leaves none behind for a later
\* cycle to apply to a prediction that was rolled back instead.
THEOREM StaleIsTrue == Spec => StaleMeansStaled
<1>1. Init => HandedOver
  BY DEF Init, HandedOver
<1>2. TInv /\ HandedOver /\ [Next]_vars
        => [\A i \in DOMAIN rows :
              rows[i].outcome = "pending" /\ rows'[i].outcome = "stale"
                => reg[rows[i].pred].readiness = "stale"]_vars
  BY StepStaleMeansStaled
<1> QED
  BY <1>1, <1>2, InitTypes, NextTypes, HandedOverNext, PTL DEF Spec, StaleMeansStaled

-----------------------------------------------------------------------------
(* An adoption has one record at most.                                     *)

\* The adoptions a sequence of records is about.
Nums(s) == {s[i].adoption : i \in DOMAIN s}

\* Each adoption has at most one record in the sequence.
Single(s) == \A i, j \in DOMAIN s : s[i].adoption = s[j].adoption => i = j

\* An adoption waits in the queue, or in the flush, or is in the log; only the
\* flush holds any between the queue and the log.
Apart ==
    /\ Single(queue) /\ Single(draining) /\ Single(rows)
    /\ Nums(queue) \cap Nums(draining) = {}
    /\ Nums(queue) \cap Nums(rows) = {}
    /\ Nums(draining) \cap Nums(rows) = {}
    /\ Nums(queue) \cup Nums(draining) \cup Nums(rows) \subseteq 1..adoptions
    /\ phase # "flushing" => draining = << >>

LEMMA SingleEmpty == Single(<< >>) /\ Nums(<< >>) = {}
BY DEF Single, Nums

LEMMA SingleAppend ==
    ASSUME NEW S, NEW s \in Seq(S), NEW e \in S, Single(s), e.adoption \notin Nums(s)
    PROVE  Single(Append(s, e)) /\ Nums(Append(s, e)) = Nums(s) \cup {e.adoption}
<1>1. /\ DOMAIN s = 1..Len(s) /\ Len(s) \in Nat
      /\ DOMAIN Append(s, e) = 1..(Len(s) + 1)
      /\ \A i \in 1..Len(s) : Append(s, e)[i] = s[i]
      /\ Append(s, e)[Len(s) + 1] = e
  OBVIOUS
<1>2. Single(Append(s, e))
  BY <1>1 DEF Single, Nums
<1>3. Nums(Append(s, e)) = Nums(s) \cup {e.adoption}
  BY <1>1 DEF Nums
<1> QED
  BY <1>2, <1>3

LEMMA SingleTail ==
    ASSUME NEW S, NEW s \in Seq(S), Single(s), s # << >>
    PROVE  /\ Single(Tail(s)) /\ Head(s).adoption \in Nums(s)
           /\ Nums(Tail(s)) = Nums(s) \ {Head(s).adoption}
<1>1. /\ DOMAIN s = 1..Len(s) /\ Len(s) \in Nat \ {0} /\ Head(s) = s[1]
      /\ DOMAIN Tail(s) = 1..(Len(s) - 1)
      /\ \A i \in 1..(Len(s) - 1) : Tail(s)[i] = s[i + 1]
  OBVIOUS
<1>2. Single(Tail(s))
  BY <1>1 DEF Single
<1>3. Head(s).adoption \in Nums(s)
  BY <1>1 DEF Nums
<1>4. Nums(Tail(s)) \subseteq Nums(s) \ {Head(s).adoption}
  BY <1>1 DEF Nums, Single
<1>5. ASSUME NEW a \in Nums(s) \ {Head(s).adoption} PROVE a \in Nums(Tail(s))
  <2>1. PICK i \in 1..Len(s) : a = s[i].adoption
    BY <1>1 DEF Nums
  <2>2. i # 1 /\ i - 1 \in 1..(Len(s) - 1) /\ Tail(s)[i - 1] = s[i]
    BY <1>1, <2>1
  <2> QED
    BY <1>1, <2>1, <2>2 DEF Nums
<1> QED
  BY <1>2, <1>3, <1>4, <1>5

LEMMA SameNums ==
    ASSUME NEW s, NEW t, DOMAIN t = DOMAIN s,
           \A i \in DOMAIN s : t[i].adoption = s[i].adoption
    PROVE  Nums(t) = Nums(s) /\ (Single(s) => Single(t))
BY DEF Nums, Single

LEMMA SingleConcat ==
    ASSUME NEW S, NEW s \in Seq(S), NEW t \in Seq(S), Single(s), Single(t),
           Nums(s) \cap Nums(t) = {}
    PROVE  Single(s \o t) /\ Nums(s \o t) = Nums(s) \cup Nums(t)
<1>1. /\ DOMAIN s = 1..Len(s) /\ DOMAIN t = 1..Len(t) /\ Len(s) \in Nat /\ Len(t) \in Nat
      /\ DOMAIN (s \o t) = 1..(Len(s) + Len(t))
      /\ \A i \in 1..Len(s) : (s \o t)[i] = s[i]
      /\ \A i \in 1..(Len(s) + Len(t)) : i > Len(s) => (s \o t)[i] = t[i - Len(s)]
  OBVIOUS
<1>2. \A i \in 1..(Len(s) + Len(t)) :
         \/ i \in 1..Len(s)
         \/ i > Len(s) /\ i - Len(s) \in 1..Len(t)
  BY <1>1
<1>3. \A i \in 1..Len(s) : s[i].adoption \in Nums(s)
  BY <1>1 DEF Nums
<1>4. \A i \in 1..Len(t) : t[i].adoption \in Nums(t)
  BY <1>1 DEF Nums
<1>5. Single(s \o t)
  <2> SUFFICES ASSUME NEW i \in 1..(Len(s) + Len(t)), NEW j \in 1..(Len(s) + Len(t)),
                      (s \o t)[i].adoption = (s \o t)[j].adoption
               PROVE  i = j
    BY <1>1 DEF Single
  <2>1. CASE i \in 1..Len(s) /\ j \in 1..Len(s)
    BY <1>1, <2>1 DEF Single
  <2>2. CASE i > Len(s) /\ j > Len(s)
    <3>1. /\ i - Len(s) \in DOMAIN t /\ j - Len(s) \in DOMAIN t
          /\ t[i - Len(s)].adoption = t[j - Len(s)].adoption
      BY <1>1, <1>2, <2>2
    <3>2. i - Len(s) = j - Len(s)
      BY <3>1 DEF Single
    <3> QED
      BY <1>1, <3>2
  <2>3. CASE i \in 1..Len(s) /\ j > Len(s)
    BY <1>1, <1>2, <1>3, <1>4, <2>3
  <2>4. CASE i > Len(s) /\ j \in 1..Len(s)
    BY <1>1, <1>2, <1>3, <1>4, <2>4
  <2> QED
    BY <1>1, <1>2, <2>1, <2>2, <2>3, <2>4
<1>6. Nums(s \o t) \subseteq Nums(s) \cup Nums(t)
  BY <1>1, <1>2, <1>3, <1>4 DEF Nums
<1>7. Nums(s) \subseteq Nums(s \o t)
  BY <1>1 DEF Nums
<1>8. ASSUME NEW a \in Nums(t) PROVE a \in Nums(s \o t)
  <2>1. PICK j \in 1..Len(t) : a = t[j].adoption
    BY <1>1 DEF Nums
  <2>2. Len(s) + j \in 1..(Len(s) + Len(t)) /\ (s \o t)[Len(s) + j] = t[j]
    BY <1>1
  <2> QED
    BY <1>1, <2>1, <2>2 DEF Nums
<1> QED
  BY <1>5, <1>6, <1>7, <1>8

\* A step that leaves queue and flush alone and no row behind, at most resolving some.
LEMMA ApartKept ==
    ASSUME Apart, DOMAIN rows' = DOMAIN rows,
           \A i \in DOMAIN rows : rows'[i].adoption = rows[i].adoption,
           UNCHANGED <<queue, draining, adoptions>>,
           phase' # "flushing" => draining = << >>
    PROVE  Apart'
<1>1. Nums(rows') = Nums(rows) /\ Single(rows')
  BY SameNums DEF Apart
<1> QED
  BY <1>1 DEF Apart

LEMMA ApartNext == TInv /\ Apart /\ [Next]_vars => Apart'
<1> SUFFICES ASSUME TInv, Apart, [Next]_vars PROVE Apart'
  OBVIOUS
<1>0. /\ queue \in Seq(Descriptor) /\ draining \in Seq(Descriptor) /\ rows \in Seq(Row)
      /\ adoptions \in Nat
  BY TypeParts DEF LogOK
<1>1. ASSUME NEW p \in Pred, Adopt(p) PROVE Apart'
  <2> DEFINE d == [adoption |-> adoptions', pred |-> p, revision |-> reg[p].revision]
  <2>1. queue' = Append(queue, d) /\ d.adoption = adoptions + 1 /\ adoptions' = adoptions + 1
    BY <1>1 DEF Adopt
  <2>2. d \in Descriptor
    <3>1. reg[p].revision \in 0..Cap
      BY TypeParts DEF RegOK, Entry
    <3>2. adoptions' \in 1..MaxAdoptions
      BY <1>1, TypeParts DEF Adopt, LogOK
    <3> QED
      BY <3>1, <3>2 DEF Descriptor
  <2> HIDE DEF d
  <2>3. d.adoption \notin Nums(queue) \cup Nums(draining) \cup Nums(rows)
    BY <1>0, <2>1 DEF Apart
  <2>4. Single(queue') /\ Nums(queue') = Nums(queue) \cup {d.adoption}
    BY <1>0, <2>1, <2>2, <2>3, SingleAppend DEF Apart
  <2>5. UNCHANGED <<draining, rows, phase>>
    BY <1>1 DEF Adopt, cycleLocals
  <2>6. 1..adoptions \subseteq 1..adoptions' /\ d.adoption \in 1..adoptions'
    BY <1>0, <2>1
  <2> QED
    BY <2>3, <2>4, <2>5, <2>6 DEF Apart
<1>2. CASE FlushStart
  BY <1>2, SingleEmpty DEF FlushStart, QueueConsumed, Apart
<1>3. ASSUME NEW failing \in BOOLEAN, FlushOne(failing) PROVE Apart'
  <2> DEFINE d == Head(draining)
  <2>1. /\ Single(draining') /\ Nums(draining') = Nums(draining) \ {d.adoption}
        /\ d.adoption \in Nums(draining)
    BY <1>0, <1>3, SingleTail DEF FlushOne, Apart
  <2>2. CASE failing
    BY <1>3, <2>1, <2>2 DEF FlushOne, Apart
  <2>3. CASE ~failing
    <3>1. d \in Descriptor
      BY <1>0, <1>3 DEF FlushOne
    <3>2. Pending(d) \in Row /\ Pending(d).adoption = d.adoption
      BY <3>1 DEF Pending, Row, Descriptor
    <3>3. rows' = Append(rows, Pending(d))
      BY <1>3, <2>3 DEF FlushOne
    <3> HIDE DEF d
    <3>4. Single(rows') /\ Nums(rows') = Nums(rows) \cup {d.adoption}
      BY <1>0, <2>1, <3>2, <3>3, SingleAppend DEF Apart
    <3>5. UNCHANGED <<queue, adoptions, phase>> /\ phase = "flushing"
      BY <1>3 DEF FlushOne
    <3> QED
      BY <2>1, <3>4, <3>5 DEF Apart
  <2> QED
    BY <2>2, <2>3
<1>4. ASSUME NEW failing \in BOOLEAN, ResolveStale(failing) \/ ResolveRejected(failing)
      PROVE  Apart'
  <2>1. rows' \in {rows, Resolved(staled, "stale"), Resolved(rolledBack, "rejected")}
    BY <1>4 DEF ResolveStale, ResolveRejected
  <2>2. DOMAIN rows' = DOMAIN rows /\ \A i \in DOMAIN rows : rows'[i].adoption = rows[i].adoption
    BY <1>0, <2>1, ResolvedRows
  <2>3. UNCHANGED <<queue, draining, adoptions>> /\ draining = << >>
    BY <1>4 DEF ResolveStale, ResolveRejected, cycleLocals, Apart
  <2> QED
    BY <2>2, <2>3, ApartKept
<1>5. ASSUME NEW failing \in BOOLEAN, ConfirmOne(failing) PROVE Apart'
  <2>1. rows' \in {rows, [rows EXCEPT ![Min(fetched)].outcome = "confirmed"]}
    BY <1>5 DEF ConfirmOne
  <2>2. DOMAIN rows' = DOMAIN rows /\ \A i \in DOMAIN rows : rows'[i].adoption = rows[i].adoption
    BY <1>0, <2>1, ConfirmedRow
  <2>3. UNCHANGED <<queue, draining, adoptions>> /\ draining = << >>
    BY <1>5 DEF ConfirmOne, Apart
  <2> QED
    BY <2>2, <2>3, ApartKept
<1>6. CASE CyclePreempted \/ Crash
  BY <1>6, SingleEmpty DEF CyclePreempted, Crash, LocalsLost, log, Apart
<1>7. CASE UNCHANGED <<queue, draining, rows, adoptions>>
           /\ (phase' # "flushing" => draining = << >>)
  BY <1>7, ApartKept
<1>8. \/ UNCHANGED <<queue, draining, rows, adoptions>>
         /\ (phase' # "flushing" => draining = << >>)
      \/ CyclePreempted \/ Crash \/ FlushStart
      \/ \E p \in Pred : Adopt(p)
      \/ \E failing \in BOOLEAN : \/ FlushOne(failing) \/ ConfirmOne(failing)
                                  \/ ResolveStale(failing) \/ ResolveRejected(failing)
  <2>1. phase # "flushing" => draining = << >>
    BY DEF Apart
  <2>2. CASE CycleStep
    BY <2>1, <2>2 DEF CycleStep, cycleLocals, log, CycleBegin, CycleSweep, Contradict, Merge,
         ConfirmStart, RefineStart, MatureStart, MatureDone, MatureFail, CycleEnd
  <2>3. CASE Age \/ \E p \in Pred : Prepare(p)
    BY <2>1, <2>3 DEF cycleLocals, log, Age, Prepare
  <2>4. CASE UNCHANGED vars
    BY <2>1, <2>4 DEF vars, cycleLocals
  <2> QED
    BY <2>2, <2>3, <2>4 DEF Next
<1> QED
  BY <1>1, <1>2, <1>3, <1>4, <1>5, <1>6, <1>7, <1>8

LEMMA ApartHeld == TInv /\ Apart => OneRecordEach
<1> SUFFICES ASSUME TInv, Apart PROVE Single(Held)
  BY DEF OneRecordEach, Single
<1> DEFINE S == Descriptor \cup Row
<1>1. queue \in Seq(S) /\ draining \in Seq(S) /\ rows \in Seq(S)
  BY TypeParts DEF LogOK
<1> HIDE DEF S
<1>2. Single(queue \o draining) /\ Nums(queue \o draining) = Nums(queue) \cup Nums(draining)
  BY <1>1, SingleConcat DEF Apart
<1>3. queue \o draining \in Seq(S) /\ Nums(queue \o draining) \cap Nums(rows) = {}
  BY <1>1, <1>2 DEF Apart
<1> QED
  BY <1>1, <1>2, <1>3, SingleConcat DEF Held, Apart

LEMMA InitApart == Init => Apart
BY SingleEmpty DEF Init, Apart

\* However adoptions, flushes, cancelled cycles and restarts interleave, an adoption
\* is on the queue, or held by the flush, or in the log, once: the log never counts
\* it twice.
THEOREM RecordedOnce == Spec => []OneRecordEach
<1> QED
  BY InitApart, InitTypes, NextTypes, ApartNext, ApartHeld, PTL DEF Spec

-----------------------------------------------------------------------------
(* The engine and its table implement the abstract log.                    *)

\* Where an adoption stands, without a choice among its records.
LEMMA Standing ==
    ASSUME TInv, Apart, NEW a \in 1..MaxAdoptions
    PROVE  /\ \A i \in DOMAIN rows : rows[i].adoption = a => StateOf(a) = rows[i].outcome
           /\ a \in Nums(queue) \cup Nums(draining) => StateOf(a) = "queued"
           /\ a \notin Nums(queue) \cup Nums(draining) \cup Nums(rows)
                => StateOf(a) = IF a <= adoptions THEN "lost" ELSE "none"
<1> DEFINE recorded == {i \in DOMAIN rows : rows[i].adoption = a}
           both == queue \o draining
           waiting == {i \in DOMAIN both : both[i].adoption = a}
<1>0. queue \in Seq(Descriptor) /\ draining \in Seq(Descriptor) /\ rows \in Seq(Row)
  BY TypeParts DEF LogOK
<1>1. StateOf(a) = IF recorded # {} THEN rows[Min(recorded)].outcome
                   ELSE IF waiting # {} THEN "queued"
                   ELSE IF a <= adoptions THEN "lost" ELSE "none"
  BY DEF StateOf
<1>2. Nums(both) = Nums(queue) \cup Nums(draining)
  BY <1>0, SingleConcat DEF Apart
<1>3. (waiting # {}) <=> a \in Nums(queue) \cup Nums(draining)
  BY <1>2 DEF Nums
<1>4. (recorded # {}) <=> a \in Nums(rows)
  BY DEF Nums
<1>5. ASSUME NEW i \in DOMAIN rows, rows[i].adoption = a
      PROVE  StateOf(a) = rows[i].outcome
  <2>1. recorded = {i}
    BY <1>5 DEF Apart, Single
  <2>2. i \in Nat
    BY <1>0
  <2>3. Min({i}) = i
    BY <2>2 DEF Min
  <2> QED
    BY <1>1, <2>1, <2>3
<1>6. ASSUME a \in Nums(queue) \cup Nums(draining) PROVE StateOf(a) = "queued"
  <2>1. a \notin Nums(rows)
    BY <1>6 DEF Apart
  <2> QED
    BY <1>1, <1>3, <1>4, <1>6, <2>1
<1> QED
  BY <1>1, <1>3, <1>4, <1>5, <1>6

\* What a step may do to the records.
LogStep ==
    /\ \A i \in DOMAIN rows :
         /\ i \in DOMAIN rows' /\ rows'[i].adoption = rows[i].adoption
         /\ \/ rows'[i].outcome = rows[i].outcome
            \/ rows[i].outcome = "pending" /\ rows'[i].outcome \in Log!Outcomes
    /\ \A i \in DOMAIN rows' \ DOMAIN rows :
         rows'[i].outcome = "pending" /\ rows'[i].adoption \in Nums(draining)
    /\ \/ /\ adoptions' = adoptions
          /\ Nums(queue') \cup Nums(draining') \subseteq Nums(queue) \cup Nums(draining)
       \/ /\ adoptions' = adoptions + 1
          /\ Nums(queue') = Nums(queue) \cup {adoptions'} /\ UNCHANGED <<draining, rows>>

LEMMA LogStepNext ==
    ASSUME TInv, Apart, [Next]_vars
    PROVE  LogStep
<1>0. /\ queue \in Seq(Descriptor) /\ draining \in Seq(Descriptor) /\ rows \in Seq(Row)
      /\ adoptions \in Nat
  BY TypeParts DEF LogOK
<1>1. ASSUME NEW p \in Pred, Adopt(p) PROVE LogStep
  <2> DEFINE d == [adoption |-> adoptions', pred |-> p, revision |-> reg[p].revision]
  <2>1. queue' = Append(queue, d) /\ d.adoption = adoptions' /\ adoptions' = adoptions + 1
    BY <1>1 DEF Adopt
  <2>2. d \in Descriptor
    <3>1. reg[p].revision \in 0..Cap
      BY TypeParts DEF RegOK, Entry
    <3>2. adoptions' \in 1..MaxAdoptions
      BY <1>1, TypeParts DEF Adopt, LogOK
    <3> QED
      BY <3>1, <3>2 DEF Descriptor
  <2> HIDE DEF d
  <2>3. d.adoption \notin Nums(queue)
    BY <1>0, <2>1 DEF Apart
  <2>4. Nums(queue') = Nums(queue) \cup {adoptions'}
    BY <1>0, <2>1, <2>2, <2>3, SingleAppend DEF Apart
  <2>5. UNCHANGED <<draining, rows>>
    BY <1>1 DEF Adopt, cycleLocals
  <2> QED
    BY <2>1, <2>4, <2>5 DEF LogStep
<1>2. CASE FlushStart
  BY <1>2, SingleEmpty DEF FlushStart, QueueConsumed, LogStep
<1>3. ASSUME NEW failing \in BOOLEAN, FlushOne(failing) PROVE LogStep
  <2> DEFINE d == Head(draining)
  <2>1. d.adoption \in Nums(draining) /\ Nums(draining') \subseteq Nums(draining)
    BY <1>0, <1>3, SingleTail DEF FlushOne, Apart
  <2>2. UNCHANGED <<queue, adoptions>>
    BY <1>3 DEF FlushOne
  <2>3. CASE failing
    BY <1>3, <2>1, <2>2, <2>3 DEF FlushOne, LogStep
  <2>4. CASE ~failing
    <3>1. d \in Descriptor
      BY <1>0, <1>3 DEF FlushOne
    <3>2. Pending(d).outcome = "pending" /\ Pending(d).adoption = d.adoption /\ Pending(d) \in Row
      BY <3>1 DEF Pending, Row, Descriptor
    <3>3. rows' = Append(rows, Pending(d))
      BY <1>3, <2>4 DEF FlushOne
    <3> HIDE DEF d
    <3>4. /\ DOMAIN rows = 1..Len(rows) /\ DOMAIN rows' = 1..(Len(rows) + 1)
          /\ Len(rows) \in Nat /\ rows'[Len(rows) + 1] = Pending(d)
          /\ \A i \in 1..Len(rows) : rows'[i] = rows[i]
      BY <1>0, <3>2, <3>3
    <3> QED
      BY <2>1, <2>2, <3>2, <3>4 DEF LogStep
  <2> QED
    BY <2>3, <2>4
<1>4. ASSUME NEW failing \in BOOLEAN, ResolveStale(failing) \/ ResolveRejected(failing)
      PROVE  LogStep
  <2>1. rows' \in {rows, Resolved(staled, "stale"), Resolved(rolledBack, "rejected")}
    BY <1>4 DEF ResolveStale, ResolveRejected
  <2>2. /\ DOMAIN rows' = DOMAIN rows
        /\ \A i \in DOMAIN rows :
             /\ rows'[i].adoption = rows[i].adoption
             /\ \/ rows'[i].outcome = rows[i].outcome
                \/ rows[i].outcome = "pending" /\ rows'[i].outcome \in {"stale", "rejected"}
    <3>1. CASE rows' = rows
      BY <3>1
    <3>2. CASE rows' = Resolved(staled, "stale")
      BY <1>0, <3>2, ResolvedRows
    <3>3. CASE rows' = Resolved(rolledBack, "rejected")
      BY <1>0, <3>3, ResolvedRows
    <3> QED
      BY <2>1, <3>1, <3>2, <3>3
  <2>3. UNCHANGED <<queue, draining, adoptions>>
    BY <1>4 DEF ResolveStale, ResolveRejected, cycleLocals
  <2> QED
    BY <2>2, <2>3 DEF LogStep, Log!Outcomes
<1>5. ASSUME NEW failing \in BOOLEAN, ConfirmOne(failing) PROVE LogStep
  <2> DEFINE i == Min(fetched)
  <2>1. \/ rows' = rows
        \/ rows' = [rows EXCEPT ![i].outcome = "confirmed"] /\ rows[i].outcome = "pending"
    BY <1>5 DEF ConfirmOne
  <2>2. UNCHANGED <<queue, draining, adoptions>>
    BY <1>5 DEF ConfirmOne
  <2> HIDE DEF i
  <2>3. CASE rows' = rows
    BY <2>2, <2>3 DEF LogStep
  <2>4. CASE rows' = [rows EXCEPT ![i].outcome = "confirmed"] /\ rows[i].outcome = "pending"
    <3>1. DOMAIN rows' = DOMAIN rows
          /\ \A j \in DOMAIN rows : rows'[j].adoption = rows[j].adoption
      BY <1>0, <2>4, ConfirmedRow
    <3>2. \A j \in DOMAIN rows : rows[j] \in Row
      BY <1>0
    <3>3. \A j \in DOMAIN rows : j # i => rows'[j] = rows[j]
      BY <2>4
    <3>4. i \in DOMAIN rows => rows'[i].outcome = "confirmed"
      BY <2>4, <3>2 DEF Row
    <3> QED
      BY <2>2, <2>4, <3>1, <3>3, <3>4 DEF LogStep, Log!Outcomes
  <2> QED
    BY <2>1, <2>3, <2>4
<1>6. CASE CyclePreempted \/ Crash
  BY <1>6, SingleEmpty DEF CyclePreempted, Crash, LocalsLost, log, LogStep
<1>7. CASE UNCHANGED <<queue, draining, rows, adoptions>>
  BY <1>7 DEF LogStep
<1>8. \/ UNCHANGED <<queue, draining, rows, adoptions>>
      \/ CyclePreempted \/ Crash \/ FlushStart
      \/ \E p \in Pred : Adopt(p)
      \/ \E failing \in BOOLEAN : \/ FlushOne(failing) \/ ConfirmOne(failing)
                                  \/ ResolveStale(failing) \/ ResolveRejected(failing)
  <2>1. CASE CycleStep
    BY <2>1 DEF CycleStep, cycleLocals, log, CycleBegin, CycleSweep, Contradict, Merge,
         ConfirmStart, RefineStart, MatureStart, MatureDone, MatureFail, CycleEnd
  <2>2. CASE Age \/ \E p \in Pred : Prepare(p)
    BY <2>2 DEF cycleLocals, log, Age, Prepare
  <2>3. CASE UNCHANGED vars
    BY <2>3 DEF vars, cycleLocals
  <2> QED
    BY <2>1, <2>2, <2>3 DEF Next
<1> QED
  BY <1>1, <1>2, <1>3, <1>4, <1>5, <1>6, <1>7, <1>8

\* Standing for all adoptions, and for the state a step leads to.
AllStand ==
    \A a \in 1..MaxAdoptions :
        /\ \A i \in DOMAIN rows : rows[i].adoption = a => StateOf(a) = rows[i].outcome
        /\ a \in Nums(queue) \cup Nums(draining) => StateOf(a) = "queued"
        /\ a \notin Nums(queue) \cup Nums(draining) \cup Nums(rows)
             => StateOf(a) = IF a <= adoptions THEN "lost" ELSE "none"

LEMMA AllStanding == TInv /\ Apart => AllStand
BY Standing DEF AllStand

LEMMA AllStandingNext == TInv' /\ Apart' => AllStand'
BY AllStanding, PTL

LEMMA StandingNext ==
    ASSUME TInv', Apart', NEW a \in 1..MaxAdoptions
    PROVE  /\ \A i \in DOMAIN rows' : rows'[i].adoption = a => StateOf(a)' = rows'[i].outcome
           /\ a \in Nums(queue') \cup Nums(draining') => StateOf(a)' = "queued"
           /\ a \notin Nums(queue') \cup Nums(draining') \cup Nums(rows')
                => StateOf(a)' = IF a <= adoptions' THEN "lost" ELSE "none"
BY AllStandingNext DEF AllStand, Nums

LEMMA OneArrow ==
    ASSUME TInv, Apart, LogStep, TInv', Apart', NEW a \in 1..MaxAdoptions
    PROVE  /\ StateOf(a)' \in Log!States
           /\ StateOf(a)' # StateOf(a) => <<StateOf(a), StateOf(a)'>> \in Log!Allowed
<1>0. rows \in Seq(Row) /\ adoptions \in Nat /\ rows' \in Seq(Row) /\ adoptions' \in Nat
  <2>1. TInv => rows \in Seq(Row) /\ adoptions \in Nat
    BY TypeParts DEF LogOK
  <2>2. TInv' => rows' \in Seq(Row) /\ adoptions' \in Nat
    BY DEF TInv, TypeOK
  <2> QED
    BY <2>1, <2>2
<1>1. CASE a \in Nums(rows)
  <2>1. PICK i \in DOMAIN rows : rows[i].adoption = a
    BY <1>1 DEF Nums
  <2>2. i \in DOMAIN rows' /\ rows'[i].adoption = a /\ rows'[i] \in Row
    BY <1>0, <2>1 DEF LogStep
  <2>3. StateOf(a) = rows[i].outcome /\ StateOf(a)' = rows'[i].outcome
    BY <2>1, <2>2, Standing, StandingNext
  <2> QED
    BY <2>1, <2>2, <2>3 DEF LogStep, Row, Log!Allowed, Log!States, Log!Outcomes
<1>2. CASE a \in Nums(queue) \cup Nums(draining)
  <2>1. StateOf(a) = "queued" /\ a \notin Nums(rows) /\ a <= adoptions
    BY <1>0, <1>2, Standing DEF Apart
  <2>2. CASE a \in Nums(rows')
    <3>1. PICK i \in DOMAIN rows' : rows'[i].adoption = a
      BY <2>2 DEF Nums
    <3>2. i \notin DOMAIN rows
      BY <2>1, <3>1 DEF LogStep, Nums
    <3>3. StateOf(a)' = "pending"
      BY <3>1, <3>2, StandingNext DEF LogStep
    <3> QED
      BY <2>1, <3>3 DEF Log!Allowed, Log!States
  <2>3. CASE a \in Nums(queue') \cup Nums(draining')
    BY <2>1, <2>3, StandingNext DEF Log!States
  <2>4. CASE a \notin Nums(queue') \cup Nums(draining') \cup Nums(rows')
    <3>1. a <= adoptions'
      BY <1>0, <2>1 DEF LogStep
    <3>2. StateOf(a)' = "lost"
      BY <2>4, <3>1, StandingNext
    <3> QED
      BY <2>1, <3>2 DEF Log!Allowed, Log!States
  <2> QED
    BY <2>2, <2>3, <2>4
<1>3. CASE a \notin Nums(queue) \cup Nums(draining) \cup Nums(rows)
  <2>1. StateOf(a) = IF a <= adoptions THEN "lost" ELSE "none"
    BY <1>3, Standing
  <2>2. a \notin Nums(rows')
    <3> SUFFICES ASSUME NEW i \in DOMAIN rows', rows'[i].adoption = a PROVE FALSE
      BY DEF Nums
    <3>1. CASE i \in DOMAIN rows
      BY <1>3, <3>1 DEF LogStep, Nums
    <3>2. CASE i \notin DOMAIN rows
      BY <1>3, <3>2 DEF LogStep
    <3> QED
      BY <3>1, <3>2
  <2>3. CASE a \in Nums(queue') \cup Nums(draining')
    <3>1. a = adoptions' /\ adoptions' = adoptions + 1
      BY <1>3, <2>3 DEF LogStep
    <3>2. StateOf(a) = "none" /\ StateOf(a)' = "queued"
      BY <1>0, <2>1, <2>3, <3>1, StandingNext
    <3> QED
      BY <3>2 DEF Log!Allowed, Log!States
  <2>4. CASE a \notin Nums(queue') \cup Nums(draining')
    <3>1. StateOf(a)' = IF a <= adoptions' THEN "lost" ELSE "none"
      BY <2>2, <2>4, StandingNext
    <3>2. adoptions' = adoptions \/ (adoptions' = adoptions + 1 /\ a # adoptions')
      BY <2>4 DEF LogStep
    <3>3. StateOf(a)' = StateOf(a)
      BY <1>0, <2>1, <3>1, <3>2
    <3> QED
      BY <2>1, <3>3 DEF Log!States
  <2> QED
    BY <2>3, <2>4
<1> QED
  BY <1>1, <1>2, <1>3

\* The engine and its table keep the promise of the log for any number of adoptions
\* and predictions, through cancelled cycles, failing writes and restarts: each
\* adoption is recorded once, resolved once and never resolved again.
THEOREM ImplementsTheLog == Spec => KeepsTheLog
<1>1. Init => Log!Init
  <2> SUFFICES ASSUME Init, NEW a \in 1..MaxAdoptions PROVE StateOf(a) = "none"
    BY DEF Log!Init
  <2>1. TInv /\ Apart
    BY InitTypes, InitApart
  <2>2. a \notin Nums(queue) \cup Nums(draining) \cup Nums(rows)
    BY SingleEmpty DEF Init
  <2>3. ~(a <= adoptions)
    BY DEF Init
  <2> QED
    BY <2>1, <2>2, <2>3, Standing
<1>2. TInv /\ Apart /\ TInv' /\ Apart' /\ [Next]_vars
        => [Log!Next]_([a \in 1..MaxAdoptions |-> StateOf(a)])
  <2> SUFFICES ASSUME TInv, Apart, TInv', Apart', [Next]_vars PROVE Log!Next
    OBVIOUS
  <2>1. \A a \in 1..MaxAdoptions :
           /\ StateOf(a)' \in Log!States
           /\ StateOf(a)' # StateOf(a) => <<StateOf(a), StateOf(a)'>> \in Log!Allowed
    BY LogStepNext, OneArrow
  <2> QED
    BY <2>1 DEF Log!Next
<1> QED
  BY <1>1, <1>2, InitTypes, NextTypes, InitApart, ApartNext, PTL
     DEF Spec, KeepsTheLog, Log!Spec
-----------------------------------------------------------------------------
(* What loses an adoption.                                                 *)

\* What waits for the log still does after a step, or is in it, unless a fault
\* takes it away.
LEMMA WaitingKept ==
    ASSUME TInv, Apart, [Next]_vars, NEW a \in Nums(queue) \cup Nums(draining),
           a \notin Nums(queue') \cup Nums(draining') \cup Nums(rows')
    PROVE  \/ Crash
           \/ CyclePreempted /\ a \in Nums(draining)
           \/ FlushOne(TRUE) /\ Head(draining).adoption = a
<1>0. queue \in Seq(Descriptor) /\ draining \in Seq(Descriptor) /\ rows \in Seq(Row)
  BY TypeParts DEF LogOK
<1>1. ASSUME NEW p \in Pred, Adopt(p) PROVE FALSE
  <2>1. draining' = draining /\ Nums(queue) \subseteq Nums(queue')
    <3>1. \E d : queue' = Append(queue, d)
      BY <1>1 DEF Adopt
    <3>2. \A i \in DOMAIN queue : i \in DOMAIN queue' /\ queue'[i] = queue[i]
      BY <1>0, <3>1
    <3> QED
      BY <1>1, <3>2 DEF Adopt, cycleLocals, Nums
  <2> QED
    BY <2>1
<1>2. CASE FlushStart
  <2>1. draining = << >> /\ draining' = queue
    BY <1>2 DEF FlushStart, Apart
  <2> QED
    BY <2>1, SingleEmpty
<1>3. ASSUME NEW failing \in BOOLEAN, FlushOne(failing)
      PROVE  FlushOne(TRUE) /\ Head(draining).adoption = a
  <2> DEFINE d == Head(draining)
  <2>1. queue' = queue /\ Nums(draining') = Nums(draining) \ {d.adoption}
    BY <1>0, <1>3, SingleTail DEF FlushOne, Apart
  <2>2. d.adoption = a
    BY <2>1
  <2>3. failing
    <3> SUFFICES ASSUME ~failing PROVE FALSE
      OBVIOUS
    <3>1. rows' = Append(rows, Pending(d))
      BY <1>3 DEF FlushOne
    <3>2. d \in Descriptor
      BY <1>0, <1>3 DEF FlushOne
    <3>3. Pending(d) \in Row /\ Pending(d).adoption = a
      BY <2>2, <3>2 DEF Pending, Row, Descriptor
    <3> HIDE DEF d
    <3>4. Len(rows) + 1 \in DOMAIN rows' /\ rows'[Len(rows) + 1] = Pending(d)
      BY <1>0, <3>1, <3>3
    <3> QED
      BY <3>3, <3>4 DEF Nums
  <2> QED
    BY <1>3, <2>2, <2>3
<1>4. CASE UNCHANGED <<queue, draining>>
  BY <1>4
<1>5. ASSUME CyclePreempted PROVE a \in Nums(draining)
  BY <1>5 DEF CyclePreempted, log
<1>6. \/ UNCHANGED <<queue, draining>>
      \/ CyclePreempted \/ Crash \/ FlushStart
      \/ \E p \in Pred : Adopt(p)
      \/ \E failing \in BOOLEAN : FlushOne(failing)
  <2>1. CASE CycleStep
    BY <2>1 DEF CycleStep, cycleLocals, log, CycleBegin, CycleSweep, Contradict, Merge,
         ResolveStale, ResolveRejected, ConfirmStart, ConfirmOne,
         RefineStart, MatureStart, MatureDone, MatureFail, CycleEnd
  <2>2. CASE Age \/ \E p \in Pred : Prepare(p)
    BY <2>2 DEF cycleLocals, log, Age, Prepare
  <2>3. CASE UNCHANGED vars
    BY <2>3 DEF vars, cycleLocals
  <2> QED
    BY <2>1, <2>2, <2>3 DEF Next
<1> QED
  BY <1>1, <1>2, <1>3, <1>4, <1>5, <1>6

LEMMA StepLosesByFault ==
    ASSUME TInv, Apart, TInv', Apart', [Next]_vars, NEW a \in 1..MaxAdoptions,
           StateOf(a) = "queued", StateOf(a)' = "lost"
    PROVE  \/ Crash
           \/ CyclePreempted /\ \E i \in DOMAIN draining : draining[i].adoption = a
           \/ FlushOne(TRUE) /\ Head(draining).adoption = a
<1>0. /\ \A i \in DOMAIN rows : rows[i] \in Row
      /\ \A i \in DOMAIN rows' : rows'[i] \in Row
  <2>1. rows \in Seq(Row) /\ rows' \in Seq(Row)
    BY DEF TInv, TypeOK
  <2> QED
    BY <2>1
<1>1. a \in Nums(queue) \cup Nums(draining)
  <2>1. \A i \in DOMAIN rows : rows[i].outcome # "queued"
    BY <1>0 DEF Row
  <2>2. a \notin Nums(rows)
    BY <2>1, Standing DEF Nums
  <2> QED
    BY <2>2, Standing
<1>2. a \notin Nums(queue') \cup Nums(draining') \cup Nums(rows')
  <2>1. \A i \in DOMAIN rows' : rows'[i].outcome # "lost"
    BY <1>0 DEF Row
  <2>2. a \notin Nums(rows')
    BY <2>1, StandingNext DEF Nums
  <2> QED
    BY <2>2, StandingNext
<1>3. (a \in Nums(draining)) <=> \E i \in DOMAIN draining : draining[i].adoption = a
  BY DEF Nums
<1> QED
  BY <1>1, <1>2, <1>3, WaitingKept

\* An adoption that waits for the log is lost by a crash, by the cancellation of the
\* cycle whose flush has taken it, or by the failure of its own insert, and by
\* nothing else (engine.py, _flush_pending_adoption_outcomes).
THEOREM OnlyFaultsLose == Spec => LostOnlyByFault
<1>1. TInv /\ Apart /\ TInv' /\ Apart' /\ [Next]_vars
        => [\A a \in 1..MaxAdoptions :
              StateOf(a) = "queued" /\ StateOf(a)' = "lost" =>
                \/ Crash
                \/ CyclePreempted /\ \E i \in DOMAIN draining : draining[i].adoption = a
                \/ FlushOne(TRUE) /\ Head(draining).adoption = a]_vars
  BY StepLosesByFault
<1> QED
  BY <1>1, InitApart, InitTypes, NextTypes, ApartNext, PTL DEF Spec, LostOnlyByFault

\* Where cycles run to their end, the store does not fail and the daemon lives, no
\* adoption is ever lost: the safety half of EveryAdoptionResolved.
THEOREM NothingLostWithoutFaults ==
    ASSUME Faults = {}
    PROVE  Spec => [](\A a \in 1..MaxAdoptions : StateOf(a) # "lost")
<1> DEFINE NoneLost == \A a \in 1..MaxAdoptions : StateOf(a) # "lost"
<1>1. Init => NoneLost
  <2> SUFFICES ASSUME Init, NEW a \in 1..MaxAdoptions PROVE StateOf(a) # "lost"
    OBVIOUS
  <2>1. TInv /\ Apart
    BY InitTypes, InitApart
  <2>2. a \notin Nums(queue) \cup Nums(draining) \cup Nums(rows) /\ ~(a <= adoptions)
    BY SingleEmpty DEF Init
  <2> QED
    BY <2>1, <2>2, Standing
<1>2. TInv /\ Apart /\ TInv' /\ Apart' /\ NoneLost /\ [Next]_vars => NoneLost'
  <2> SUFFICES ASSUME TInv, Apart, TInv', Apart', NoneLost, [Next]_vars,
                      NEW a \in 1..MaxAdoptions, StateOf(a)' = "lost"
               PROVE  FALSE
    OBVIOUS
  <2>1. StateOf(a)' # StateOf(a)
    OBVIOUS
  <2>2. <<StateOf(a), "lost">> \in Log!Allowed
    BY <2>1, LogStepNext, OneArrow
  <2>3. StateOf(a) = "queued"
    BY <2>2 DEF Log!Allowed, Log!Outcomes
  <2>4. ~Crash /\ ~CyclePreempted /\ ~FlushOne(TRUE)
    BY DEF Crash, CyclePreempted, FlushOne
  <2> QED
    BY <2>3, <2>4, StepLosesByFault
<1> QED
  BY <1>1, <1>2, InitApart, InitTypes, NextTypes, ApartNext, PTL DEF Spec

=============================================================================
