------------------------- MODULE AdoptionHistoryProofs -------------------------
(***************************************************************************)
(* What a sweep contradicts in the log is never confirmed, for any number  *)
(* of predictions and adoptions, where cycles run to their end and the     *)
(* store does not fail.                                                    *)
(***************************************************************************)
EXTENDS AdoptionHistory, AdoptionOutcomesProofs

\* A sweep has given its verdict on the row, and what has not been written yet is
\* still on a list of the cycle that is under way.
Judged(i) ==
    \/ rows[i].outcome \in {"stale", "rejected"}
    \/ /\ rows[i].outcome = "pending"
       /\ \/ phase = "staling" /\ rows[i].pred \in staled \cup rolledBack
          \/ phase = "rejecting" /\ rows[i].pred \in rolledBack

Verdicts ==
    \A a \in 1..MaxAdoptions :
        caught[a] = "pending" => \E i \in DOMAIN rows : rows[i].adoption = a /\ Judged(i)

LEMMA VerdictsHold == TInv /\ Apart /\ Verdicts => LoggedContradictionSticks
<1> SUFFICES ASSUME TInv, Apart, Verdicts, NEW a \in 1..MaxAdoptions, caught[a] = "pending"
             PROVE  StateOf(a) # "confirmed"
  BY DEF LoggedContradictionSticks
<1>1. PICK i \in DOMAIN rows : rows[i].adoption = a /\ Judged(i)
  BY DEF Verdicts
<1>2. StateOf(a) = rows[i].outcome
  BY <1>1, Standing
<1> QED
  BY <1>1, <1>2 DEF Judged

\* The prediction of an adoption in the log is that of its row.
LEMMA PredOfRow ==
    ASSUME TInv, Apart, NEW i \in DOMAIN rows
    PROVE  PredOf(rows[i].adoption) = rows[i].pred
<1> DEFINE a == rows[i].adoption
           S == Descriptor \cup Row
           waiting == queue \o draining
           k == Len(waiting) + i
<1>1. queue \in Seq(S) /\ draining \in Seq(S) /\ rows \in Seq(S)
  BY TypeParts DEF LogOK
<1> HIDE DEF S
<1>2. waiting \in Seq(S)
  BY <1>1
<1> HIDE DEF waiting
<1>3. k \in DOMAIN (waiting \o rows) /\ (waiting \o rows)[k] = rows[i]
  BY <1>1, <1>2
<1>4. Held = waiting \o rows
  BY DEF Held, waiting
<1>5. k \in DOMAIN Held /\ Held[k] = rows[i]
  BY <1>3, <1>4
<1>6. \A j \in DOMAIN Held : Held[j].adoption = a => j = k
  BY <1>5, ApartHeld DEF OneRecordEach
<1> HIDE DEF k
<1>7. (CHOOSE j \in DOMAIN Held : Held[j].adoption = a) = k
  BY <1>5, <1>6
<1> QED
  BY <1>5, <1>7 DEF PredOf

\* An adoption that is pending has a pending row.
LEMMA PendingRow ==
    ASSUME TInv, Apart, NEW a \in 1..MaxAdoptions, StateOf(a) = "pending"
    PROVE  \E i \in DOMAIN rows : rows[i].adoption = a /\ rows[i].outcome = "pending"
<1>1. a \in Nums(rows)
  BY Standing
<1>2. PICK i \in DOMAIN rows : rows[i].adoption = a
  BY <1>1 DEF Nums
<1> QED
  BY <1>2, Standing

\* What a sweep contradicts is on one of its two lists.
LEMMA ContradictedListed ==
    ASSUME TInv, [Next]_vars, NEW p \in Contradicted
    PROVE  p \in staled' \cup rolledBack' /\ phase' = "staling" /\ rows' = rows
<1>1. phase = "opening" /\ phase' = "staling" /\ p \in Pred
  BY DEF Contradicted
<1>2. PICK touched \in SUBSET Pred : \E staling \in SUBSET touched : CycleSweep(touched, staling)
  BY <1>1 DEF Next, CycleStep, vars, CycleBegin, ResolveStale, ResolveRejected, FlushStart,
       FlushOne, ConfirmStart, ConfirmOne, RefineStart, MatureStart, MatureDone, MatureFail,
       CycleEnd, Age, CyclePreempted, Crash, Merge, Contradict, Prepare, Adopt
<1>3. PICK staling \in SUBSET touched : CycleSweep(touched, staling)
  BY <1>2
<1> DEFINE after == IF p \in staling THEN [reg[p] EXCEPT !.readiness = "stale"] ELSE reg[p]
<1>4. reg[p] \in Entry
  BY <1>1, TypeParts DEF RegOK
<1>5. reg'[p] = IF p \in touched /\ OnProbation(p) THEN RolledBack(after) ELSE after
  BY <1>1, <1>3 DEF CycleSweep
<1>6. after.window = reg[p].window /\ (after.readiness = reg[p].readiness \/ p \in staling)
  BY <1>4 DEF Entry
<1> HIDE DEF after
<1>7. CASE p \in touched /\ OnProbation(p)
  BY <1>1, <1>3, <1>7 DEF CycleSweep, log
<1>8. CASE ~(p \in touched /\ OnProbation(p))
  <2>1. p \in staling /\ ~OnProbation(p)
    BY <1>5, <1>6, <1>8 DEF Contradicted, OnProbation
  <2> QED
    BY <1>1, <1>3, <2>1 DEF CycleSweep, ToStale, log
<1> QED
  BY <1>7, <1>8

\* Nothing is lost between the verdict of a sweep and the row.
LEMMA JudgedNext ==
    ASSUME TInv, Apart, Faults = {}, [Next]_vars, NEW i \in DOMAIN rows, Judged(i)
    PROVE  i \in DOMAIN rows' /\ rows'[i].adoption = rows[i].adoption /\ Judged(i)'
<1>0. rows \in Seq(Row) /\ PassOK
  BY TypeParts DEF LogOK
<1>1. /\ i \in DOMAIN rows' /\ rows'[i].adoption = rows[i].adoption
      /\ \/ rows'[i].outcome = rows[i].outcome
         \/ rows[i].outcome = "pending" /\ rows'[i].outcome \in Log!Outcomes
  BY LogStepNext DEF LogStep
<1>2. CASE rows[i].outcome \in {"stale", "rejected"}
  BY <1>1, <1>2 DEF Judged
<1>3. CASE rows[i].outcome = "pending"
  <2>0. phase \in {"staling", "rejecting"} /\ rows[i].pred \in staled \cup rolledBack
        /\ (phase = "rejecting" => rows[i].pred \in rolledBack)
    BY <1>3 DEF Judged
  <2>1. CASE ResolveStale(FALSE)
    <3>1. rows' = Resolved(staled, "stale")
      BY <2>1 DEF ResolveStale
    <3>2. CASE rows[i].pred \in staled
      BY <1>0, <1>1, <1>3, <3>1, <3>2, ResolvedRows DEF Judged
    <3>3. CASE rows[i].pred \notin staled
      <4>1. rows'[i] = rows[i]
        BY <3>1, <3>3 DEF Resolved
      <4> QED
        BY <1>1, <1>3, <2>0, <2>1, <3>3, <4>1 DEF Judged, ResolveStale
    <3> QED
      BY <3>2, <3>3
  <2>2. CASE ResolveRejected(FALSE)
    <3>1. rows' = Resolved(rolledBack, "rejected") /\ rows[i].pred \in rolledBack
      BY <2>0, <2>2 DEF ResolveRejected
    <3> QED
      BY <1>0, <1>1, <1>3, <3>1, ResolvedRows DEF Judged
  <2>3. CASE UNCHANGED <<rows, staled, rolledBack, phase>>
    BY <1>1, <2>3 DEF Judged
  <2>4. ResolveStale(FALSE) \/ ResolveRejected(FALSE)
        \/ UNCHANGED <<rows, staled, rolledBack, phase>>
    <3>1. CASE CycleStep
      BY <2>0, <1>0, <3>1 DEF CycleStep, CycleBegin, CycleSweep, ResolveStale, ResolveRejected,
           FlushStart, FlushOne, ConfirmStart, ConfirmOne, RefineStart, MatureStart, MatureDone,
           MatureFail, CycleEnd, Merge, Contradict, PassOK, Refining
    <3>2. CASE Age \/ \E p \in Pred : Prepare(p) \/ Adopt(p)
      BY <3>2 DEF Age, Prepare, Adopt, log
    <3>3. CASE CyclePreempted
      BY <3>3 DEF CyclePreempted
    <3>4. CASE Crash
      BY <3>4 DEF Crash
    <3>5. CASE UNCHANGED vars
      BY <3>5 DEF vars
    <3> QED
      BY <3>1, <3>2, <3>3, <3>4, <3>5 DEF Next
  <2> QED
    BY <2>1, <2>2, <2>3, <2>4
<1> QED
  BY <1>2, <1>3 DEF Judged

LEMMA VerdictsNext ==
    ASSUME TInv, Apart, Verdicts, Faults = {}, [HNext]_<<vars, caught>>
    PROVE  Verdicts'
<1> SUFFICES ASSUME NEW a \in 1..MaxAdoptions, caught'[a] = "pending"
             PROVE  \E i \in DOMAIN rows' : rows'[i].adoption = a /\ Judged(i)'
  BY DEF Verdicts
<1>0. [Next]_vars
  BY DEF HNext
<1>1. CASE caught[a] = "pending"
  <2>1. PICK i \in DOMAIN rows : rows[i].adoption = a /\ Judged(i)
    BY <1>1 DEF Verdicts
  <2> QED
    BY <1>0, <2>1, JudgedNext
<1>2. CASE caught[a] # "pending"
  <2>1. StateOf(a) = "pending" /\ PredOf(a) \in Contradicted
    BY <1>2 DEF HNext
  <2>2. PICK i \in DOMAIN rows : rows[i].adoption = a /\ rows[i].outcome = "pending"
    BY <2>1, PendingRow
  <2>3. rows[i].pred \in Contradicted
    BY <2>1, <2>2, PredOfRow
  <2>4. rows[i].pred \in staled' \cup rolledBack' /\ phase' = "staling" /\ rows' = rows
    BY <1>0, <2>3, ContradictedListed
  <2> QED
    BY <2>2, <2>4 DEF Judged
<1> QED
  BY <1>1, <1>2

\* An adoption that is in the log when a sweep stales its prediction, or rolls it
\* back, is never confirmed afterwards, if no cycle is cancelled, no write fails and
\* the daemon does not restart.
THEOREM ContradictionIsFinal ==
    ASSUME Faults = {} PROVE HSpec => []LoggedContradictionSticks
<1>1. HInit => TInv /\ Apart /\ Verdicts
  <2>1. HInit => Verdicts
    BY DEF HInit, Verdicts
  <2> QED
    BY <2>1, InitTypes, InitApart DEF HInit
<1>2. TInv /\ Apart /\ Verdicts /\ [HNext]_<<vars, caught>> => (TInv /\ Apart /\ Verdicts)'
  <2> SUFFICES ASSUME TInv, Apart, Verdicts, [HNext]_<<vars, caught>>
               PROVE  (TInv /\ Apart /\ Verdicts)'
    OBVIOUS
  <2>1. [Next]_vars
    BY DEF HNext
  <2> QED
    BY <2>1, NextTypes, ApartNext, VerdictsNext
<1>3. TInv /\ Apart /\ Verdicts => LoggedContradictionSticks
  BY VerdictsHold
<1> QED
  BY <1>1, <1>2, <1>3, PTL DEF HSpec
================================================================================
