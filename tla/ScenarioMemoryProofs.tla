------------------------ MODULE ScenarioMemoryProofs ------------------------
(***************************************************************************)
(* Theorems about ScenarioMemory and CorrectionHistory, for any number of  *)
(* scenarios and calls: every property that the runs check.  What carries  *)
(* them is the invariant Decided, that the state a call has decided on is  *)
(* legal from the one it decided from, and the lemma Effects, which says   *)
(* what a step may do to the memory and the corrections of a scenario.     *)
(***************************************************************************)
EXTENDS CorrectionHistory, SequenceTheorems, TLAPS

\* The state a call has decided on, in terms of the one it decided from.
Decision(c) ==
    \/ job[c].rating = "expand" /\ job[c].to = saw[c]
    \/ saw[c] = "candidate" /\ job[c].to = "trusted"
    \/ job[c].rating \in {"wrong", "irrelevant"} /\ job[c].to = Demoted(saw[c], job[c].rating)

\* An expansion records no outcome.
OfFeedback == {"merge", "merging", "demote", "demoting", "outcome"}

CallDecided(c) ==
    /\ pc[c] \in {"promote", "promoting", "demote", "demoting"} =>
          Decision(c) /\ job[c].to \in Allowed(saw[c])
    /\ pc[c] \in {"promoting", "demoting"} => job[c].to \in Allowed(read[c].memory)
    /\ pc[c] \in OfFeedback => job[c].rating # "expand"

Decided == \A c \in Call : CallDecided(c)

IInv == TypeOK /\ PinnedIsShown /\ Decided

-----------------------------------------------------------------------------
(* The corrections that are kept.                                          *)

LEMMA NoNotes == <<>> \in Notes /\ LastOf(<<>>) = <<>>
BY EmptySeq, KeptAssumption DEF Notes, LastOf

\* LastOf returns what is kept of a sequence of corrections: its end, in its order.
LEMMA LastOfSeq ==
    ASSUME NEW q \in Seq(Call)
    PROVE  LET len == IF Len(q) > Kept THEN Kept ELSE Len(q)
           IN  /\ LastOf(q) \in Notes
               /\ Len(LastOf(q)) = len
               /\ \A i \in 1..len : LastOf(q)[i] = q[Len(q) - len + i]
<1>1. Len(q) \in Nat /\ Kept \in Nat \ {0} /\ \A i \in 1..Len(q) : q[i] \in Call
  BY LenProperties, ElementOfSeq, KeptAssumption
<1>2. CASE Len(q) > Kept
  <2> DEFINE m == Len(q) - Kept + 1
  <2>1. m \in Int /\ Len(q) \in Int /\ m <= Len(q) /\ \A i \in m..Len(q) : q[i] \in Call
    BY <1>1, <1>2
  <2>2. /\ SubSeq(q, m, Len(q)) \in Seq(Call)
        /\ Len(SubSeq(q, m, Len(q))) = Kept
        /\ \A i \in 1..Kept : SubSeq(q, m, Len(q))[i] = q[m + i - 1]
    <3>1. Len(q) - m + 1 = Kept
      BY <1>1
    <3> HIDE DEF m
    <3> QED
      BY <2>1, <3>1, SubSeqProperties
  <2>3. LastOf(q) = SubSeq(q, m, Len(q))
    BY <1>2 DEF LastOf
  <2>4. \A i \in 1..Kept : m + i - 1 = Len(q) - Kept + i
    BY <1>1
  <2> HIDE DEF m
  <2> QED
    BY <1>1, <1>2, <2>2, <2>3, <2>4 DEF Notes
<1>3. CASE ~(Len(q) > Kept)
  BY <1>1, <1>3 DEF LastOf, Notes
<1> QED
  BY <1>2, <1>3

\* A correction may be merged into what is kept as well as into all there has been.
LEMMA LastOfAppend ==
    ASSUME NEW q \in Seq(Call), NEW c \in Call
    PROVE  LastOf(Append(LastOf(q), c)) = LastOf(Append(q, c))
<1> DEFINE k == LastOf(q)
           a == Append(k, c)
           b == Append(q, c)
           lk == IF Len(q) > Kept THEN Kept ELSE Len(q)
           l == IF Len(b) > Kept THEN Kept ELSE Len(b)
<1>1. Kept \in Nat \ {0} /\ Len(q) \in Nat
  BY LenProperties, KeptAssumption
<1>2. k \in Seq(Call) /\ Len(k) = lk /\ \A i \in 1..lk : k[i] = q[Len(q) - lk + i]
  BY LastOfSeq DEF Notes
<1>3. /\ a \in Seq(Call) /\ Len(a) = Len(k) + 1
      /\ (\A i \in 1..Len(k) : a[i] = k[i]) /\ a[Len(k) + 1] = c
  BY <1>2, AppendProperties
<1>4. /\ b \in Seq(Call) /\ Len(b) = Len(q) + 1
      /\ (\A i \in 1..Len(q) : b[i] = q[i]) /\ b[Len(q) + 1] = c
  BY AppendProperties
<1> HIDE DEF k, a, b
<1> DEFINE la == IF Len(a) > Kept THEN Kept ELSE Len(a)
<1>5. /\ la = l /\ lk \in Nat /\ l \in Nat /\ lk <= Len(q) /\ l <= lk + 1
      /\ Len(a) = lk + 1 /\ Len(b) = Len(q) + 1
  BY <1>1, <1>2, <1>3, <1>4
<1>6. \A i \in 1..l : a[Len(a) - l + i] = b[Len(b) - l + i]
  <2> SUFFICES ASSUME NEW i \in 1..l PROVE a[Len(a) - l + i] = b[Len(b) - l + i]
    OBVIOUS
  <2>1. CASE i = l
    <3>1. Len(a) - l + i = Len(k) + 1 /\ Len(b) - l + i = Len(q) + 1
      BY <1>1, <1>2, <1>5, <2>1
    <3> QED
      BY <1>3, <1>4, <3>1
  <2>2. CASE i # l
    <3> DEFINE j == Len(a) - l + i
    <3> HIDE DEF l, lk
    <3>1. j \in 1..lk /\ Len(q) - lk + j = Len(b) - l + i /\ Len(b) - l + i \in 1..Len(q)
      BY <1>1, <1>5, <2>2
    <3> HIDE DEF j
    <3>2. a[j] = k[j] /\ k[j] = q[Len(q) - lk + j]
      BY <1>2, <1>3, <3>1
    <3> QED
      BY <1>4, <3>1, <3>2 DEF j
  <2> QED
    BY <2>1, <2>2
<1>7. /\ LastOf(a) \in Seq(Call) /\ Len(LastOf(a)) = l
      /\ \A i \in 1..l : LastOf(a)[i] = a[Len(a) - l + i]
  <2>1. /\ LastOf(a) \in Seq(Call) /\ Len(LastOf(a)) = la
        /\ \A i \in 1..la : LastOf(a)[i] = a[Len(a) - la + i]
    BY <1>3, LastOfSeq DEF Notes
  <2> HIDE DEF la, l
  <2> QED
    BY <1>5, <2>1
<1>8. /\ LastOf(b) \in Seq(Call) /\ Len(LastOf(b)) = l
      /\ \A i \in 1..l : LastOf(b)[i] = b[Len(b) - l + i]
  BY <1>4, LastOfSeq DEF Notes
<1> HIDE DEF l
<1>9. LastOf(a) = LastOf(b)
  BY <1>6, <1>7, <1>8, SeqEqual
<1> QED
  BY <1>9 DEF a, b, k

\* A merge keeps the bound, and leaves the correction.
LEMMA MergedNotes ==
    ASSUME NEW notes \in Notes, NEW c \in Call
    PROVE  Merged(notes, c) \in Notes /\ Merged(notes, c) # <<>>
<1>1. Append(notes, c) \in Seq(Call) /\ Len(Append(notes, c)) = Len(notes) + 1
      /\ Len(notes) \in Nat
  BY AppendProperties, LenProperties DEF Notes
<1> DEFINE q == Append(notes, c)
           len == IF Len(q) > Kept THEN Kept ELSE Len(q)
<1>2. LastOf(q) \in Notes /\ Len(LastOf(q)) = len
  BY <1>1, LastOfSeq
<1>3. len > 0
  BY <1>1, KeptAssumption
<1> QED
  BY <1>2, <1>3, EmptySeq DEF Merged

-----------------------------------------------------------------------------
(* The operators.                                                          *)

\* The table lets every state be written over itself, and stays among the states.
LEMMA TableIsReflexive ==
    \A m \in MemoryState : m \in Allowed(m) /\ Allowed(m) \subseteq MemoryState
BY DEF MemoryState, Allowed

\* The verdict on bad feedback is a state, and legal but for "wrong" on a stale one.
LEMMA DemotedIsAllowed ==
    ASSUME NEW m \in MemoryState, NEW rating \in {"wrong", "irrelevant"}
    PROVE  /\ Demoted(m, rating) \in MemoryState
           /\ Demoted(m, rating) \notin Allowed(m) => rating = "wrong" /\ m = "stale"
BY DEF MemoryState, Demoted, Allowed

\* A contradiction stays within its limit and touches nothing else.
LEMMA ContradictedRow ==
    ASSUME NEW r \in Row, NEW delta \in Nat
    PROVE  /\ Contradicted(r, delta) \in Row
           /\ Contradicted(r, delta).memory = r.memory
           /\ Contradicted(r, delta).notes = r.notes
BY DEF Row, Contradicted, ContradictionMax, Streak

\* An outcome touches neither the memory state nor the corrections.
LEMMA OutcomeRow ==
    ASSUME NEW r \in Row, NEW outcome \in Ratings
    PROVE  /\ WithOutcome(r, outcome) \in Row
           /\ WithOutcome(r, outcome).memory = r.memory
           /\ WithOutcome(r, outcome).notes = r.notes
<1> DEFINE said == [r EXCEPT !.wrong = (outcome = "wrong")]
<1>1. said \in Row /\ said.memory = r.memory /\ said.notes = r.notes
  BY DEF Row
<1>2. ASSUME outcome = "useful"
      PROVE  WithOutcome(r, outcome) =
                [said EXCEPT !.successes = IF @ < Streak THEN @ + 1 ELSE Streak]
  BY ONLY <1>2, Zenon DEF WithOutcome
<1>3. outcome = "partial" => WithOutcome(r, outcome) = said
  BY ONLY Zenon DEF WithOutcome
<1>4. outcome = "irrelevant" => WithOutcome(r, outcome) = Contradicted(said, 12)
  BY ONLY Zenon DEF WithOutcome
<1>5. outcome = "wrong" => WithOutcome(r, outcome) = Contradicted(said, 25)
  BY ONLY Zenon DEF WithOutcome
<1> HIDE DEF said
<1>6. CASE outcome = "useful"
  BY <1>1, <1>2, <1>6 DEF Row, Streak
<1>7. CASE outcome = "partial"
  BY <1>1, <1>3, <1>7
<1>8. CASE outcome \in {"irrelevant", "wrong"}
  BY <1>1, <1>4, <1>5, <1>8, ContradictedRow
<1> QED
  BY <1>6, <1>7, <1>8 DEF Ratings

\* A refresh touches the visibility alone, and shows what is pinned.
LEMMA RefreshedRow ==
    ASSUME NEW r \in Row, NEW q \in Refreshed(r)
    PROVE  /\ q \in Row /\ q.memory = r.memory /\ q.notes = r.notes
           /\ q.pinned => q.shown
BY DEF Row, Refreshed

\* A transaction that leaves r in the row of s.
LEMMA WritesRow ==
    ASSUME row \in [Scenario -> Row], PinnedIsShown,
           NEW s \in Scenario, NEW r \in Row, Writes(s, r)
    PROVE  /\ row' \in [Scenario -> Row] /\ PinnedIsShown'
           /\ row'[s].memory = r.memory /\ row'[s].notes = r.notes
           /\ \A t \in Scenario \ {s} : row'[t] = row[t]
<1>1. PICK q \in Refreshed(r) : row' = [row EXCEPT ![s] = q]
  BY DEF Writes
<1>2. q \in Row /\ q.memory = r.memory /\ q.notes = r.notes /\ (q.pinned => q.shown)
  BY RefreshedRow
<1> QED
  BY <1>1, <1>2 DEF PinnedIsShown

-----------------------------------------------------------------------------
(* The invariant.                                                          *)

RowsOK == row \in [Scenario -> Row] /\ PinnedIsShown

CallsOK ==
    /\ pc \in [Call -> Places]
    /\ job \in [Call -> Job]
    /\ saw \in [Call -> MemoryState]
    /\ read \in [Call -> [memory : MemoryState, notes : Notes]]
    /\ Decided

LEMMA Parts == IInv <=> RowsOK /\ CallsOK
BY DEF IInv, TypeOK, RowsOK, CallsOK

LEMMA BuiltRow ==
    ASSUME NEW shown \in BOOLEAN, NEW pinned \in BOOLEAN
    PROVE  LET r == [Built(shown) EXCEPT !.pinned = pinned]
           IN  r \in Row /\ r.memory = "candidate" /\ r.notes = <<>>
<1>1. /\ Built(shown) \in Row /\ Built(shown).memory = "candidate"
      /\ Built(shown).notes = <<>>
  BY NoNotes DEF Built, Row, MemoryState, Streak, ContradictionMax
<1> QED
  BY <1>1 DEF Row

LEMMA InitIInv == Init => IInv
<1> SUFFICES ASSUME Init PROVE IInv
  OBVIOUS
<1>1. \A shown \in BOOLEAN : Built(shown) \in Row /\ ~Built(shown).pinned
  BY NoNotes DEF Built, Row, MemoryState, Streak, ContradictionMax
<1>2. \A s \in Scenario : row[s] \in {Built(shown) : shown \in BOOLEAN}
  BY DEF Init
<1>3. RowsOK
  <2>1. \A s \in Scenario : row[s] \in Row /\ ~row[s].pinned
    BY <1>1, <1>2
  <2> QED
    BY <2>1 DEF Init, RowsOK, PinnedIsShown
<1>4. job \in [Call -> Job]
  <2>1. \A s \in Scenario : [s |-> s, rating |-> "expand", to |-> "candidate",
                             correction |-> FALSE] \in Job
    BY DEF Job, MemoryState
  <2> QED
    BY <2>1 DEF Init
<1>5. CallsOK
  BY <1>4, NoNotes DEF Init, CallsOK, Decided, CallDecided, OfFeedback, Places, MemoryState
<1> QED
  BY <1>3, <1>5, Parts

\* A step of one call keeps what is true of the calls, if it does so for its own.
LEMMA OneCall ==
    ASSUME CallsOK, NEW c \in Call, NEW place \in Places, Goto(c, place),
           NEW j \in Job, job' = [job EXCEPT ![c] = j],
           NEW m \in MemoryState, saw' = [saw EXCEPT ![c] = m],
           NEW k \in [memory : MemoryState, notes : Notes],
           read' = [read EXCEPT ![c] = k],
           CallDecided(c)'
    PROVE  CallsOK'
<1>1. \A d \in Call \ {c} : CallDecided(d)'
  BY DEF CallsOK, Decided, CallDecided, OfFeedback, Decision, Goto
<1> QED
  BY <1>1 DEF CallsOK, Decided, Goto

\* The same for a step that moves a call on and changes nothing else about it.
LEMMA OneMove ==
    ASSUME CallsOK, NEW c \in Call, NEW place \in Places, Goto(c, place),
           UNCHANGED <<job, saw, read>>,
           place \notin {"promote", "promoting", "demote", "demoting"},
           place \in OfFeedback => job[c].rating # "expand"
    PROVE  CallsOK'
<1>1. job' = [job EXCEPT ![c] = job[c]] /\ saw' = [saw EXCEPT ![c] = saw[c]]
      /\ read' = [read EXCEPT ![c] = read[c]]
  BY DEF CallsOK
<1>2. CallDecided(c)'
  BY DEF CallDecided, OfFeedback, Goto, CallsOK
<1> QED
  BY <1>1, <1>2, OneCall DEF CallsOK, OfFeedback

\* What a step does to the memory and the corrections of a scenario.
Same(s) == row'[s].memory = row[s].memory /\ row'[s].notes = row[s].notes
Reset(s) == row'[s].memory = "candidate" /\ row'[s].notes = <<>> /\ UNCHANGED calls
Moved(s) ==
    /\ row'[s].notes = row[s].notes
    /\ \E c \in Call : Writing(c, s) /\ row'[s].memory = job[c].to
Corrected(s) == row'[s].memory = MarkedOlder(row[s].memory) /\ \E c \in Call : Corrects(c, s)

AtOnce(s) ==
    /\ \A t \in Scenario \ {s} : Same(t)
    /\ Same(s) \/ Reset(s) \/ Moved(s) \/ Corrected(s)

Effect == (\A t \in Scenario : Same(t)) \/ \E s \in Scenario : AtOnce(s)

LEMMA SameRow == UNCHANGED row => Effect
BY DEF Effect, Same

\* A transaction that changes neither memory nor corrections.
LEMMA QuietWrite ==
    ASSUME RowsOK, NEW s \in Scenario, NEW r \in Row, Writes(s, r),
           r.memory = row[s].memory, r.notes = row[s].notes
    PROVE  RowsOK' /\ Effect
BY WritesRow DEF RowsOK, Effect, Same

LEMMA RebuildStep ==
    ASSUME IInv, NEW s \in Scenario, Rebuild(s)
    PROVE  IInv' /\ Effect
<1>1. PICK shown \in BOOLEAN : Writes(s, [Built(shown) EXCEPT !.pinned = row[s].pinned])
  BY DEF Rebuild, Upsert
<1>2. row[s].pinned \in BOOLEAN
  BY Parts DEF RowsOK, Row
<1> DEFINE r == [Built(shown) EXCEPT !.pinned = row[s].pinned]
<1>3. r \in Row /\ r.memory = "candidate" /\ r.notes = <<>>
  BY <1>2, BuiltRow
<1> HIDE DEF r
<1>4. Writes(s, r)
  BY <1>1 DEF r
<1>5. RowsOK' /\ Effect
  BY <1>3, <1>4, WritesRow, Parts DEF Rebuild, RowsOK, Effect, AtOnce, Reset, Same
<1>6. CallsOK'
  BY Parts DEF Rebuild, calls, CallsOK, Decided, CallDecided, OfFeedback, Decision
<1> QED
  BY <1>5, <1>6, Parts DEF IInv, TypeOK, RowsOK, CallsOK

LEMMA QuietCalls == CallsOK /\ UNCHANGED calls => CallsOK'
BY DEF calls, CallsOK, Decided, CallDecided, OfFeedback, Decision

LEMMA QuietRow == RowsOK /\ UNCHANGED row => RowsOK' /\ Effect
BY DEF RowsOK, PinnedIsShown, Effect, Same

\* Parts, after a step.
LEMMA PartsNext == RowsOK' /\ CallsOK' => IInv'
BY DEF IInv, TypeOK, RowsOK, CallsOK

LEMMA RefreshStep == ASSUME RowsOK, Refresh PROVE RowsOK' /\ Effect
<1>1. \A s \in Scenario : row[s] \in Row /\ row'[s] \in Refreshed(row[s])
  BY DEF RowsOK, Refresh
<1>2. \A s \in Scenario : row'[s] \in Row /\ Same(s) /\ (row'[s].pinned => row'[s].shown)
  BY <1>1, RefreshedRow DEF Same
<1> QED
  BY <1>2 DEF Refresh, RowsOK, PinnedIsShown, Effect

LEMMA OutcomeStep ==
    ASSUME RowsOK, NEW s \in Scenario, NEW outcome \in Ratings,
           Writes(s, WithOutcome(row[s], outcome))
    PROVE  RowsOK' /\ Effect
<1>1. row[s] \in Row
  BY DEF RowsOK
<1> QED
  BY <1>1, OutcomeRow, QuietWrite

LEMMA PinStep ==
    ASSUME RowsOK, NEW s \in Scenario, NEW pinned \in BOOLEAN,
           Writes(s, [row[s] EXCEPT !.pinned = pinned])
    PROVE  RowsOK' /\ Effect
<1> DEFINE r == [row[s] EXCEPT !.pinned = pinned]
<1>1. r \in Row /\ r.memory = row[s].memory /\ r.notes = row[s].notes
  BY DEF RowsOK, Row
<1> HIDE DEF r
<1> QED
  BY <1>1, QuietWrite DEF r

-----------------------------------------------------------------------------
(* One step of a call.                                                     *)

\* A call that decides, from the row as it is.
LEMMA DecideStep ==
    ASSUME RowsOK, CallsOK, NEW c \in Call, NEW s \in Scenario,
           NEW rating \in Ratings \cup {"expand"}, NEW to \in MemoryState,
           NEW correction \in BOOLEAN, NEW place \in Places,
           Decides(c, s, rating, to, correction), Goto(c, place),
           place \notin {"promoting", "demoting"},
           place \in OfFeedback => rating # "expand",
           place \in {"promote", "demote"} =>
              /\ to \in Allowed(row[s].memory)
              /\ \/ rating = "expand" /\ to = row[s].memory
                 \/ row[s].memory = "candidate" /\ to = "trusted"
                 \/ rating \in {"wrong", "irrelevant"} /\ to = Demoted(row[s].memory, rating)
    PROVE  CallsOK'
<1> DEFINE j == [s |-> s, rating |-> rating, to |-> to, correction |-> correction]
<1>1. j \in Job /\ job' = [job EXCEPT ![c] = j] /\ j.s = s /\ j.rating = rating /\ j.to = to
  BY DEF Job, Decides
<1>2. /\ row[s].memory \in MemoryState /\ saw' = [saw EXCEPT ![c] = row[s].memory]
      /\ read' = [read EXCEPT ![c] = read[c]]
      /\ read[c] \in [memory : MemoryState, notes : Notes]
  BY DEF Decides, RowsOK, CallsOK, Row
<1> HIDE DEF j
<1>3. job'[c] = j /\ saw'[c] = row[s].memory /\ pc'[c] = place
  BY <1>1, <1>2 DEF CallsOK, Goto
<1>4. CallDecided(c)'
  BY <1>1, <1>3 DEF CallDecided, OfFeedback, Decision
<1> QED
  BY <1>1, <1>2, <1>4, OneCall

LEMMA PraiseStep ==
    ASSUME RowsOK, CallsOK, NEW c \in Call, NEW s \in Scenario, NEW rating \in Ratings,
           NEW pin \in BOOLEAN, NEW confident \in BOOLEAN, NEW correction \in BOOLEAN,
           Praise(c, s, rating, pin, confident, correction)
    PROVE  CallsOK'
<1> DEFINE promotes == Promotes(row[s], rating, pin, confident)
           to == IF promotes THEN "trusted" ELSE row[s].memory
<1>1. row[s].memory \in MemoryState
  BY DEF RowsOK, Row
<1>2. promotes => row[s].memory = "candidate"
  BY DEF Promotes
<1> DEFINE place == IF promotes THEN "promote" ELSE AfterPromotion(job'[c])
<1>3. Decides(c, s, rating, to, correction) /\ Goto(c, place)
  BY DEF Praise
<1>4. place \in Places /\ place \notin {"promoting", "demoting", "demote"}
      /\ (place = "promote" => promotes)
  BY DEF Places, AfterPromotion
<1>6. rating # "expand"
  BY DEF Ratings
<1> HIDE DEF promotes, place
<1>5. /\ to \in MemoryState
      /\ promotes => to = "trusted" /\ to \in Allowed(row[s].memory)
  BY <1>1, <1>2 DEF MemoryState, Allowed
<1> HIDE DEF to
<1> QED
  BY <1>2, <1>3, <1>4, <1>5, <1>6, DecideStep

LEMMA BlameStep ==
    ASSUME RowsOK, CallsOK, NEW c \in Call, NEW s \in Scenario, NEW rating \in Ratings,
           Blame(c, s, rating)
    PROVE  CallsOK'
<1> DEFINE to == Demoted(row[s].memory, rating)
           place == IF to \in Allowed(row[s].memory) THEN "demote" ELSE "refused"
<1>1. row[s].memory \in MemoryState /\ rating \in {"wrong", "irrelevant"}
  BY DEF RowsOK, Row, Blame
<1>2. to \in MemoryState
  BY <1>1, DemotedIsAllowed
<1>3. Decides(c, s, rating, to, FALSE) /\ Goto(c, place)
  BY DEF Blame
<1>4. place \in Places /\ place # "promote" /\ place \notin {"promoting", "demoting"}
      /\ (place = "demote" => to \in Allowed(row[s].memory))
  BY DEF Places
<1> HIDE DEF to, place
<1> QED
  BY <1>1, <1>2, <1>3, <1>4, DecideStep DEF to, OfFeedback

LEMMA ExpandStep ==
    ASSUME RowsOK, CallsOK, NEW c \in Call, NEW s \in Scenario, Expand(c, s)
    PROVE  CallsOK'
<1>1. row[s].memory \in MemoryState
  BY DEF RowsOK, Row
<1> QED
  BY <1>1, DecideStep DEF Expand, Places, OfFeedback

LEMMA RereadStep ==
    ASSUME RowsOK, CallsOK, NEW c \in Call, Reread(c)
    PROVE  CallsOK'
<1>1. job[c].s \in Scenario /\ row[job[c].s].memory \in MemoryState
  BY DEF RowsOK, CallsOK, Row, Job
<1>2. row[job[c].s].memory \in Allowed(row[job[c].s].memory)
  BY <1>1, TableIsReflexive
<1> QED
  BY <1>1, <1>2, DecideStep DEF Reread, Places, OfFeedback

LEMMA RecordExpansionStep ==
    ASSUME RowsOK, CallsOK, NEW c \in Call, RecordExpansion(c)
    PROVE  RowsOK' /\ CallsOK' /\ Effect
<1>1. job[c].s \in Scenario /\ row[job[c].s] \in Row
  BY DEF RowsOK, CallsOK, Job
<1>2. RowsOK' /\ Effect
  BY <1>1, QuietWrite DEF RecordExpansion
<1>3. CallsOK'
  BY OneMove DEF RecordExpansion, Places, OfFeedback
<1> QED
  BY <1>2, <1>3

\* The store's check: what it lets through is legal from what it has read.
LEMMA CheckStep ==
    ASSUME RowsOK, CallsOK, NEW c \in Call, Check(c)
    PROVE  CallsOK'
<1>1. job[c].s \in Scenario /\ row[job[c].s] \in Row
  BY DEF RowsOK, CallsOK, Job
<1>2. CASE ~Checks(c)
  BY <1>2, OneMove DEF Check, Places, OfFeedback
<1>3. CASE Checks(c)
  <2> DEFINE k == [memory |-> row[job[c].s].memory, notes |-> row[job[c].s].notes]
             place == IF pc[c] = "promote" THEN "promoting" ELSE "demoting"
  <2>1. k \in [memory : MemoryState, notes : Notes] /\ k.memory = row[job[c].s].memory
    BY <1>1 DEF Row
  <2>2. /\ Goto(c, place) /\ read' = [read EXCEPT ![c] = k] /\ place \in Places
        /\ job' = [job EXCEPT ![c] = job[c]] /\ saw' = [saw EXCEPT ![c] = saw[c]]
    BY <1>3 DEF Check, Reads, Places, CallsOK
  <2>3. /\ job[c].to \in Allowed(k.memory) /\ Decision(c) /\ job[c].to \in Allowed(saw[c])
        /\ place \in OfFeedback => job[c].rating # "expand"
    BY <1>3, <2>1 DEF Checks, Check, CallsOK, Decided, CallDecided, OfFeedback
  <2> HIDE DEF k, place
  <2>4. job'[c] = job[c] /\ saw'[c] = saw[c] /\ read'[c] = k /\ pc'[c] = place
    BY <2>2 DEF CallsOK, Goto
  <2>5. CallDecided(c)'
    BY <2>3, <2>4 DEF CallDecided, OfFeedback, Decision
  <2>6. job[c] \in Job /\ saw[c] \in MemoryState
    BY DEF CallsOK
  <2> QED
    BY <2>1, <2>2, <2>5, <2>6, OneCall
<1> QED
  BY <1>2, <1>3

LEMMA PromoteStep ==
    ASSUME RowsOK, CallsOK, NEW c \in Call, Promote(c)
    PROVE  RowsOK' /\ CallsOK' /\ Effect
<1> DEFINE s == job[c].s
           r == [row[s] EXCEPT !.memory = job[c].to, !.pinned = (job[c].to = "trusted")]
<1>1. s \in Scenario /\ row[s] \in Row /\ job[c].to \in MemoryState
  BY DEF RowsOK, CallsOK, Job
<1>2. r \in Row /\ r.memory = job[c].to /\ r.notes = row[s].notes
  BY <1>1 DEF Row
<1>3. Writes(s, r) /\ Writing(c, s)
  BY DEF Promote, Writing
<1>4. RowsOK' /\ AtOnce(s)
  <2> HIDE DEF r, s
  <2> QED
    BY <1>1, <1>2, <1>3, WritesRow DEF RowsOK, AtOnce, Same, Moved
<1>5. Goto(c, AfterPromotion(job[c])) /\ UNCHANGED <<job, saw, read>>
  BY DEF Promote
<1>6. AfterPromotion(job[c]) =
          IF job[c].rating = "expand" THEN "list"
          ELSE IF job[c].correction THEN "merge" ELSE "outcome"
  BY DEF AfterPromotion
<1>7. CallsOK'
  BY <1>5, <1>6, OneMove DEF Places, OfFeedback
<1> QED
  BY <1>1, <1>4, <1>7 DEF Effect

LEMMA DemoteStep ==
    ASSUME RowsOK, CallsOK, NEW c \in Call, Demote(c)
    PROVE  RowsOK' /\ CallsOK' /\ Effect
<1> DEFINE s == job[c].s
           fallen == [row[s] EXCEPT !.memory = job[c].to, !.pinned = (job[c].to = "trusted")]
           delta == IF job[c].rating = "wrong" THEN 25 ELSE 10
           r == Contradicted(fallen, delta)
<1>1. s \in Scenario /\ row[s] \in Row /\ job[c].to \in MemoryState
  BY DEF RowsOK, CallsOK, Job
<1>2. fallen \in Row /\ fallen.memory = job[c].to /\ fallen.notes = row[s].notes
  BY <1>1 DEF Row
<1>3. Writes(s, r) /\ Writing(c, s)
  BY DEF Demote, Writing
<1>4. delta \in Nat
  OBVIOUS
<1>5. r \in Row /\ r.memory = job[c].to /\ r.notes = row[s].notes
  <2> HIDE DEF fallen, delta
  <2> QED
    BY <1>2, <1>4, ContradictedRow
<1>6. RowsOK' /\ AtOnce(s)
  <2> HIDE DEF r, s
  <2> QED
    BY <1>1, <1>3, <1>5, WritesRow DEF RowsOK, AtOnce, Same, Moved
<1>7. CallsOK'
  BY OneMove DEF Demote, Places, OfFeedback, CallsOK, Decided, CallDecided
<1> QED
  BY <1>1, <1>6, <1>7 DEF Effect

LEMMA ReadContextStep ==
    ASSUME RowsOK, CallsOK, NEW c \in Call, ReadContext(c)
    PROVE  CallsOK'
<1> DEFINE k == [memory |-> row[job[c].s].memory, notes |-> row[job[c].s].notes]
<1>1. k \in [memory : MemoryState, notes : Notes]
  BY DEF RowsOK, CallsOK, Job, Row
<1>2. /\ Goto(c, "merging") /\ read' = [read EXCEPT ![c] = k]
      /\ job' = [job EXCEPT ![c] = job[c]] /\ saw' = [saw EXCEPT ![c] = saw[c]]
      /\ job[c] \in Job /\ saw[c] \in MemoryState
  BY DEF ReadContext, Reads, CallsOK
<1> HIDE DEF k
<1>3. job[c].rating # "expand" /\ job'[c] = job[c] /\ pc'[c] = "merging"
  BY <1>2 DEF ReadContext, CallsOK, Decided, CallDecided, OfFeedback, Goto
<1>4. CallDecided(c)'
  BY <1>3 DEF CallDecided
<1> QED
  BY <1>1, <1>2, <1>4, OneCall DEF Places

LEMMA MergeStep ==
    ASSUME RowsOK, CallsOK, NEW c \in Call, Merge(c)
    PROVE  /\ RowsOK' /\ CallsOK' /\ Effect
           /\ row'[job[c].s].notes = Merged(read[c].notes, c)
<1> DEFINE s == job[c].s
           notes == Merged(read[c].notes, c)
           memory == MarkedOlder(row[s].memory)
<1>1. s \in Scenario /\ row[s] \in Row
  BY DEF RowsOK, CallsOK, Job
<1>2. notes \in Notes /\ memory \in MemoryState
  BY <1>1, MergedNotes DEF CallsOK, MarkedOlder, MemoryState, Row
<1>3. row' = [row EXCEPT ![s] = [row[s] EXCEPT !.notes = notes, !.memory = memory]]
  BY <1>1 DEF Merge, RowsOK
<1>4. Corrects(c, s)
  BY DEF Corrects, Merge
<1>5. RowsOK' /\ AtOnce(s) /\ row'[s].notes = notes
  <2> HIDE DEF s, notes
  <2>1. /\ [row[s] EXCEPT !.notes = notes, !.memory = memory] \in Row
        /\ [row[s] EXCEPT !.notes = notes, !.memory = memory].memory = memory
        /\ [row[s] EXCEPT !.notes = notes, !.memory = memory].notes = notes
        /\ [row[s] EXCEPT !.notes = notes, !.memory = memory].pinned = row[s].pinned
        /\ [row[s] EXCEPT !.notes = notes, !.memory = memory].shown = row[s].shown
    BY <1>1, <1>2 DEF Row
  <2>2. RowsOK'
    BY <1>1, <1>3, <2>1 DEF RowsOK, PinnedIsShown
  <2>3. AtOnce(s) /\ row'[s].notes = notes
    BY <1>1, <1>3, <1>4, <2>1 DEF RowsOK, AtOnce, Same, Corrected
  <2> QED
    BY <2>2, <2>3
<1>6. CallsOK'
  BY OneMove DEF Merge, Places, OfFeedback, CallsOK, Decided, CallDecided
<1> QED
  BY <1>1, <1>5, <1>6 DEF Effect

LEMMA RecordOutcomeStep ==
    ASSUME RowsOK, CallsOK, NEW c \in Call, RecordOutcome(c)
    PROVE  RowsOK' /\ CallsOK' /\ Effect
<1>1. job[c].s \in Scenario /\ job[c].rating \in Ratings
  BY DEF RecordOutcome, CallsOK, Job, Decided, CallDecided, OfFeedback
<1>2. Writes(job[c].s, WithOutcome(row[job[c].s], job[c].rating))
  BY DEF RecordOutcome
<1>3. RowsOK' /\ Effect
  BY <1>1, <1>2, OutcomeStep
<1>4. CallsOK'
  BY OneMove DEF RecordOutcome, Places, OfFeedback
<1> QED
  BY <1>3, <1>4

LEMMA ListTopStep ==
    ASSUME RowsOK, CallsOK, NEW c \in Call, ListTop(c)
    PROVE  RowsOK' /\ CallsOK' /\ Effect
BY RefreshStep, OneMove DEF ListTop, Places, OfFeedback

LEMMA DiesStep ==
    ASSUME CallsOK, NEW c \in Call, Dies(c)
    PROVE  CallsOK'
BY OneMove DEF Dies, Places, OfFeedback

-----------------------------------------------------------------------------
(* The next-state relation.                                                *)

LEMMA BeginsStep ==
    ASSUME IInv, NEW c \in Call, Begins(c)
    PROVE  RowsOK' /\ CallsOK' /\ Effect
<1>1. RowsOK /\ CallsOK
  BY Parts
<1>2. PICK s \in Scenario :
         \/ \E rating \in Ratings, pin, confident, correction \in BOOLEAN :
               Praise(c, s, rating, pin, confident, correction)
         \/ \E rating \in Ratings : Blame(c, s, rating)
         \/ Expand(c, s)
  BY DEF Begins
<1>3. UNCHANGED row
  BY <1>2 DEF Praise, Blame, Expand
<1>4. CallsOK'
  BY <1>1, <1>2, PraiseStep, BlameStep, ExpandStep
<1> QED
  BY <1>1, <1>3, <1>4, QuietRow

LEMMA GoesStep ==
    ASSUME IInv, NEW c \in Call, Goes(c)
    PROVE  RowsOK' /\ CallsOK' /\ Effect
<1>1. RowsOK /\ CallsOK
  BY Parts
<1>2. CASE RecordExpansion(c)
  BY <1>1, <1>2, RecordExpansionStep
<1>3. CASE Reread(c)
  BY <1>1, <1>3, RereadStep, QuietRow DEF Reread
<1>4. CASE Check(c)
  BY <1>1, <1>4, CheckStep, QuietRow DEF Check
<1>5. CASE Promote(c)
  BY <1>1, <1>5, PromoteStep
<1>6. CASE Demote(c)
  BY <1>1, <1>6, DemoteStep
<1>7. CASE ReadContext(c)
  BY <1>1, <1>7, ReadContextStep, QuietRow DEF ReadContext
<1>8. CASE Merge(c)
  BY <1>1, <1>8, MergeStep
<1>9. CASE RecordOutcome(c)
  BY <1>1, <1>9, RecordOutcomeStep
<1>10. CASE ListTop(c)
  BY <1>1, <1>10, ListTopStep
<1> QED
  BY <1>2, <1>3, <1>4, <1>5, <1>6, <1>7, <1>8, <1>9, <1>10 DEF Goes

LEMMA NextStep == ASSUME IInv, Next PROVE IInv' /\ Effect
<1>1. RowsOK /\ CallsOK
  BY Parts
<1>2. ASSUME NEW c \in Call, Begins(c) \/ Goes(c) \/ Dies(c) PROVE IInv' /\ Effect
  <2>1. CASE Dies(c)
    BY <1>1, <2>1, DiesStep, QuietRow, PartsNext DEF Dies
  <2> QED
    BY <1>2, <2>1, BeginsStep, GoesStep, PartsNext
<1>3. ASSUME NEW s \in Scenario, Rebuild(s) PROVE IInv' /\ Effect
  BY <1>3, RebuildStep
<1>4. ASSUME Listed PROVE IInv' /\ Effect
  BY <1>1, <1>4, RefreshStep, QuietCalls, PartsNext DEF Listed
<1>5. ASSUME NEW s \in Scenario, NEW outcome \in Ratings, Outcome(s, outcome)
      PROVE  IInv' /\ Effect
  BY <1>1, <1>5, OutcomeStep, QuietCalls, PartsNext DEF Outcome
<1>6. ASSUME NEW s \in Scenario, NEW pinned \in BOOLEAN, SetPinned(s, pinned)
      PROVE  IInv' /\ Effect
  BY <1>1, <1>6, PinStep, QuietCalls, PartsNext DEF SetPinned
<1> QED
  BY <1>2, <1>3, <1>4, <1>5, <1>6 DEF Next

LEMMA StutterStep == IInv /\ UNCHANGED vars => IInv'
BY QuietRow, QuietCalls, Parts, PartsNext DEF vars

THEOREM Inductive == Spec => []IInv
<1>1. IInv /\ [Next]_vars => IInv'
  BY NextStep, StutterStep
<1> QED
  BY InitIInv, <1>1, PTL DEF Spec

\* Types are correct; contradiction and corrections in particular keep their bounds.
THEOREM TypeCorrect == Spec => []TypeOK
BY Inductive, PTL DEF IInv

\* A pinned scenario is on the live map, whoever pinned it and whatever is written
\* at the same time.
THEOREM PinnedStaysShown == Spec => []PinnedIsShown
BY Inductive, PTL DEF IInv

-----------------------------------------------------------------------------
(* Transitions.                                                            *)

TableStep ==
    \A s \in Scenario :
       \/ row'[s].memory \in Allowed(row[s].memory)
       \/ row'[s].memory = "candidate" /\ UNCHANGED calls
       \/ \E c \in Call : Writing(c, s) /\ read[c].memory # row[s].memory

LEMMA MarkedOlderIsAllowed ==
    \A m \in MemoryState : MarkedOlder(m) \in Allowed(m)
BY DEF MemoryState, MarkedOlder, Allowed

LEMMA TableByStep == IInv /\ [Next]_vars => TableStep
<1> SUFFICES ASSUME IInv, [Next]_vars, NEW s \in Scenario
             PROVE  \/ row'[s].memory \in Allowed(row[s].memory)
                    \/ row'[s].memory = "candidate" /\ UNCHANGED calls
                    \/ \E c \in Call : Writing(c, s) /\ read[c].memory # row[s].memory
  BY DEF TableStep
<1>1. Effect
  BY NextStep, SameRow DEF vars
<1>2. Same(s) \/ Reset(s) \/ Moved(s) \/ Corrected(s)
  BY <1>1 DEF Effect, AtOnce
<1>3. row[s].memory \in MemoryState
  BY DEF IInv, TypeOK, Row
<1>4. CASE Same(s)
  BY <1>3, <1>4, TableIsReflexive DEF Same
<1>5. CASE Reset(s)
  BY <1>5 DEF Reset
<1>6. CASE Moved(s)
  BY <1>6 DEF Moved, Writing, IInv, Decided, CallDecided
<1>7. CASE Corrected(s)
  BY <1>3, <1>7, MarkedOlderIsAllowed DEF Corrected
<1> QED
  BY <1>2, <1>4, <1>5, <1>6, <1>7

\* The check of the store is as good as one made with the write, as long as no other
\* write comes between.
THEOREM TableHolds == Spec => TableUnlessTorn
<1>1. IInv /\ [Next]_vars => [TableStep]_vars
  BY TableByStep
<1> QED
  BY Inductive, <1>1, PTL DEF Spec, TableUnlessTorn, TableStep

RefusedStep ==
    \A c \in Call : pc[c] # "refused" /\ pc'[c] = "refused" =>
       LET m == row[job'[c].s].memory
       IN  \/ pc[c] = "todo" /\ job'[c].rating = "wrong" /\ m = "stale"
           \/ pc[c] # "todo" /\ saw[c] # m

\* The only steps that refuse.
LEMMA Refusals ==
    ASSUME TypeOK, Next, NEW c \in Call, pc[c] # "refused", pc'[c] = "refused"
    PROVE  \/ Check(c)
           \/ \E s \in Scenario, rating \in Ratings : Blame(c, s, rating)
<1>1. pc' # pc
  BY DEF TypeOK
<1>2. PICK d \in Call : Begins(d) \/ Goes(d) \/ Dies(d)
  BY <1>1 DEF Next, Rebuild, Listed, Outcome, SetPinned, calls
<1>3. PICK place \in Places : pc' = [pc EXCEPT ![d] = place]
  BY <1>2 DEF Begins, Goes, Dies, Praise, Blame, Expand, RecordExpansion, Reread, Check,
              Promote, Demote, ReadContext, Merge, RecordOutcome, ListTop, Goto, Places,
              AfterPromotion
<1>4. d = c /\ place = "refused"
  BY <1>3 DEF TypeOK
<1>5. CASE Begins(c)
  <2>1. pc'[c] = "refused" /\ pc \in [Call -> Places]
    BY DEF TypeOK
  <2>2. \A s \in Scenario : ~Expand(c, s)
    BY <2>1 DEF Expand, Goto
  <2>3. \A s \in Scenario, rating \in Ratings, pin, confident, correction \in BOOLEAN :
           ~Praise(c, s, rating, pin, confident, correction)
    BY <2>1 DEF Praise, Goto, AfterPromotion
  <2> QED
    BY <1>5, <2>2, <2>3 DEF Begins
<1>6. CASE Goes(c)
  BY <1>6, <1>4 DEF Goes, RecordExpansion, Reread, Promote, Demote, ReadContext, Merge,
              RecordOutcome, ListTop, Goto, AfterPromotion, TypeOK
<1>7. CASE Dies(c)
  BY <1>7 DEF Dies, Goto, TypeOK
<1> QED
  BY <1>2, <1>4, <1>5, <1>6, <1>7

LEMMA RefusedByStep == IInv /\ [Next]_vars => [RefusedStep]_vars
<1> SUFFICES ASSUME IInv, Next, NEW c \in Call, pc[c] # "refused", pc'[c] = "refused"
             PROVE  LET m == row[job'[c].s].memory
                    IN  \/ pc[c] = "todo" /\ job'[c].rating = "wrong" /\ m = "stale"
                        \/ pc[c] # "todo" /\ saw[c] # m
  BY DEF RefusedStep
<1>1. CASE Check(c)
  <2>1. ~Checks(c) /\ job' = job /\ pc[c] \in {"promote", "demote"}
    BY <1>1 DEF Check, Goto, IInv, TypeOK
  <2> QED
    BY <2>1 DEF Checks, IInv, Decided, CallDecided
<1>2. ASSUME NEW s \in Scenario, NEW rating \in Ratings, Blame(c, s, rating)
      PROVE  pc[c] = "todo" /\ job'[c].rating = "wrong" /\ row[job'[c].s].memory = "stale"
  <2>1. row[s].memory \in MemoryState /\ rating \in {"wrong", "irrelevant"} /\ pc[c] = "todo"
    BY <1>2 DEF IInv, TypeOK, Row, Blame
  <2>2. Demoted(row[s].memory, rating) \notin Allowed(row[s].memory)
    BY <1>2 DEF Blame, Goto, IInv, TypeOK
  <2>3. rating = "wrong" /\ row[s].memory = "stale"
    BY <2>1, <2>2, DemotedIsAllowed
  <2>4. job'[c].s = s /\ job'[c].rating = rating
    BY <1>2 DEF Blame, Decides, IInv, TypeOK
  <2> QED
    BY <2>1, <2>3, <2>4
<1> QED
  BY <1>1, <1>2, Refusals DEF IInv

\* A call that the store refuses has been overtaken; only feedback that calls a stale
\* memory wrong is refused in any case.
THEOREM RefusalsJustified == Spec => RefusedOnlyIfOvertaken
BY Inductive, RefusedByStep, PTL DEF Spec, RefusedOnlyIfOvertaken, RefusedStep

-----------------------------------------------------------------------------
(* The ladder.                                                             *)

LEMMA InitLadder == Init => Ladder!Init
<1> SUFFICES ASSUME Init PROVE \A s \in Scenario : row[s].memory = "candidate"
  BY DEF Ladder!Init, Memory
<1>1. \A s \in Scenario : row[s] \in {Built(shown) : shown \in BOOLEAN}
  BY DEF Init
<1>2. \A shown \in BOOLEAN : Built(shown).memory = "candidate"
  BY DEF Built
<1> QED
  BY <1>1, <1>2

\* A decision that still holds is a step of the ladder, or none.
LEMMA DecisionOnLadder ==
    ASSUME IInv, NEW c \in Call, pc[c] \in {"promoting", "demoting"}
    PROVE  LET m == saw[c]
               n == job[c].to
           IN  \/ n = m
               \/ m = "candidate" /\ n = "trusted"
               \/ m = "trusted" /\ n = "stale"
               \/ m \in {"candidate", "trusted"} /\ n = "demoted"
<1>1. Decision(c) /\ job[c].to \in Allowed(saw[c]) /\ saw[c] \in MemoryState
  BY DEF IInv, TypeOK, Decided, CallDecided
<1>2. CASE job[c].rating \in {"wrong", "irrelevant"} /\ job[c].to = Demoted(saw[c], job[c].rating)
  BY <1>1, <1>2 DEF Demoted, Allowed, MemoryState
<1> QED
  BY <1>1, <1>2 DEF Decision

LEMMA LadderStep ==
    ASSUME IInv, Next
    PROVE  Ladder!Next \/ Memory' = Memory
<1>1. Effect
  BY NextStep
<1>2. CASE \A t \in Scenario : Same(t)
  BY <1>2 DEF Memory, Same
<1>3. ASSUME NEW s \in Scenario, AtOnce(s) PROVE Ladder!Next \/ Memory' = Memory
  <2>1. Memory' = [Memory EXCEPT ![s] = row'[s].memory]
    BY <1>3 DEF AtOnce, Same, Memory
  <2>2. Memory[s] = row[s].memory /\ row[s].memory \in MemoryState
        /\ Memory \in [Scenario -> MemoryState]
    BY DEF Memory, IInv, TypeOK, Row
  <2>3. SUFFICES \/ Ladder!Rebuild(s) \/ Ladder!Rise(s) \/ Ladder!Doubt(s) \/ Ladder!Fall(s)
                 \/ Ladder!Overwrite(s) \/ Memory' = Memory
    BY DEF Ladder!Next
  <2>4. CASE Same(s)
    BY <2>1, <2>2, <2>4 DEF Same
  <2>5. CASE Reset(s)
    BY <2>1, <2>5 DEF Reset, Ladder!Rebuild, Ladder!Becomes
  <2>6. CASE Moved(s)
    <3>1. PICK c \in Call : Writing(c, s) /\ row'[s].memory = job[c].to
      BY <2>6 DEF Moved
    <3>2. CASE saw[c] # row[s].memory
      <4>1. s \in Overtaken /\ job[c].to \in Ladder!MemoryState
        BY <3>1, <3>2 DEF Overtaken, IInv, TypeOK, Job, MemoryState, Ladder!MemoryState
      <4> QED
        BY <2>1, <3>1, <4>1 DEF Ladder!Overwrite, Ladder!Becomes
    <3>3. CASE saw[c] = row[s].memory
      <4>1. LET m == row[s].memory
                n == row'[s].memory
            IN  \/ n = m
                \/ m = "candidate" /\ n = "trusted"
                \/ m = "trusted" /\ n = "stale"
                \/ m \in {"candidate", "trusted"} /\ n = "demoted"
        BY <3>1, <3>3, DecisionOnLadder DEF Writing
      <4> QED
        BY <2>1, <2>2, <4>1 DEF Ladder!Rise, Ladder!Doubt, Ladder!Fall, Ladder!Becomes
    <3> QED
      BY <3>2, <3>3
  <2>7. CASE Corrected(s)
    BY <2>1, <2>2, <2>7 DEF Corrected, MarkedOlder, Ladder!Doubt, Ladder!Becomes
  <2> QED
    BY <1>3, <2>4, <2>5, <2>6, <2>7 DEF AtOnce
<1> QED
  BY <1>1, <1>2, <1>3 DEF Effect

\* Calls, rebuilds, outcomes and pins together implement the ladder.
THEOREM KeepsLadder == Spec => KeepsToTheLadder
<1>1. IInv /\ [Next]_vars => [Ladder!Next]_Memory
  <2>1. UNCHANGED vars => Memory' = Memory
    BY DEF vars, Memory
  <2> QED
    BY <2>1, LadderStep
<1> QED
  BY InitLadder, Inductive, <1>1, PTL DEF Spec, KeepsToTheLadder, Ladder!Spec

-----------------------------------------------------------------------------
(* The corrections.                                                        *)

GivenOK == given \in [Scenario -> Seq(Call)] /\ torn \in [Scenario -> BOOLEAN]

\* Two calls do not merge in one step.
LEMMA OneMerges ==
    ASSUME TypeOK, NEW c \in Call, NEW d \in Call, Merge(c), Merge(d)
    PROVE  c = d
BY DEF Merge, Goto, TypeOK

LEMMA CorrectionsStep ==
    ASSUME IInv, GivenOK, CorrectionsKept, [HNext]_<<vars, historyVars>>
    PROVE  GivenOK' /\ CorrectionsKept'
<1>1. CASE UNCHANGED <<vars, historyVars>>
  BY <1>1 DEF vars, historyVars, GivenOK, CorrectionsKept
<1>2. CASE HNext
  <2>1. RowsOK /\ CallsOK /\ Effect /\ IInv'
    BY <1>2, Parts, NextStep DEF HNext
  <2> DEFINE now(s) == {c \in Call : Corrects(c, s)}
  <2>2. \A s \in Scenario :
           /\ given'[s] = IF \E c \in Call : Corrects(c, s)
                          THEN Append(given[s], CHOOSE c \in Call : Corrects(c, s))
                          ELSE IF row'[s].notes = <<>> THEN <<>> ELSE given[s]
           /\ torn'[s] = IF now(s) # {}
                         THEN torn[s] \/ \E c \in now(s) : read[c].notes # row[s].notes
                         ELSE row'[s].notes # <<>> /\ torn[s]
    BY <1>2 DEF HNext
  <2>3. GivenOK'
    <3>1. \A s \in Scenario : given'[s] \in Seq(Call) /\ torn'[s] \in BOOLEAN
      <4> SUFFICES ASSUME NEW s \in Scenario PROVE given'[s] \in Seq(Call) /\ torn'[s] \in BOOLEAN
        OBVIOUS
      <4>1. given[s] \in Seq(Call) /\ torn[s] \in BOOLEAN
        BY DEF GivenOK
      <4>2. torn'[s] \in BOOLEAN
        <5>1. (row'[s].notes # <<>> /\ torn[s]) \in BOOLEAN
              /\ (torn[s] \/ \E c \in now(s) : read[c].notes # row[s].notes) \in BOOLEAN
          BY Zenon
        <5> QED
          BY <2>2, <5>1, Zenon
      <4>3. ASSUME \E c \in Call : Corrects(c, s) PROVE given'[s] \in Seq(Call)
        <5> DEFINE c == CHOOSE c \in Call : Corrects(c, s)
        <5>1. c \in Call
          BY <4>3
        <5>2. given'[s] = Append(given[s], c)
          BY <2>2, <4>3, Zenon
        <5> HIDE DEF c
        <5> QED
          BY <4>1, <5>1, <5>2, AppendProperties
      <4>4. ASSUME ~\E c \in Call : Corrects(c, s) PROVE given'[s] \in Seq(Call)
        <5>1. given'[s] = IF row'[s].notes = <<>> THEN <<>> ELSE given[s]
          BY <2>2, <4>4, Zenon
        <5> QED
          BY <4>1, <5>1, EmptySeq
      <4> QED
        BY <4>2, <4>3, <4>4, Zenon
    <3> QED
      BY <1>2, <3>1 DEF HNext, GivenOK
  <2>4. ASSUME NEW s \in Scenario, ~torn'[s] PROVE row'[s].notes = LastOf(given'[s])
    <3>1. given[s] \in Seq(Call) /\ torn[s] \in BOOLEAN
      BY DEF GivenOK
    <3>2. CASE now(s) # {}
      <4>1. PICK c \in Call : Merge(c) /\ job[c].s = s /\ Corrects(c, s)
        BY <3>2 DEF Corrects
      <4>2. \A d \in Call : Corrects(d, s) => d = c
        BY <4>1, OneMerges DEF Corrects, IInv, Merge
      <4>3. (CHOOSE d \in Call : Corrects(d, s)) = c
        BY <4>1, <4>2
      <4>4. ~torn[s] /\ read[c].notes = row[s].notes /\ given'[s] = Append(given[s], c)
        BY <2>2, <2>4, <3>1, <4>1, <4>3, Zenon
      <4>5. row'[s].notes = Merged(read[c].notes, c)
        BY <2>1, <4>1, MergeStep
      <4>6. row[s].notes = LastOf(given[s])
        BY <4>4 DEF CorrectionsKept
      <4> QED
        BY <3>1, <4>4, <4>5, <4>6, LastOfAppend DEF Merged
    <3>3. CASE now(s) = {}
      <4>1. ~\E c \in Call : Corrects(c, s)
        BY <3>3
      <4>2. Same(s) \/ Reset(s) \/ Moved(s)
        BY <2>1, <4>1 DEF Effect, AtOnce, Corrected
      <4>3. row'[s].notes = row[s].notes \/ row'[s].notes = <<>>
        BY <4>2 DEF Same, Reset, Moved
      <4>4. /\ given'[s] = IF row'[s].notes = <<>> THEN <<>> ELSE given[s]
            /\ torn'[s] = (row'[s].notes # <<>> /\ torn[s])
        BY <2>2, <3>3, <4>1, Zenon
      <4> HIDE DEF now
      <4>5. CASE row'[s].notes = <<>>
        BY <4>4, <4>5, NoNotes
      <4>6. CASE row'[s].notes # <<>>
        <5>1. ~torn[s]
          BY <2>4, <3>1, <4>4, <4>6
        <5> QED
          BY <4>3, <4>4, <4>6, <5>1 DEF CorrectionsKept
      <4> QED
        BY <4>5, <4>6
    <3> QED
      BY <3>2, <3>3
  <2> QED
    BY <2>3, <2>4 DEF CorrectionsKept
<1> QED
  BY <1>1, <1>2

\* No correction gets lost but by a rebuild, or by a merge that another write of the
\* context has come into.
THEOREM CorrectionsStay == HSpec => []CorrectionsKept
<1>1. HInit => Init /\ GivenOK /\ CorrectionsKept
  <2> SUFFICES ASSUME HInit PROVE GivenOK /\ CorrectionsKept
    BY DEF HInit
  <2>1. \A s \in Scenario : row[s] \in {Built(shown) : shown \in BOOLEAN}
    BY DEF HInit, Init
  <2>2. \A shown \in BOOLEAN : Built(shown).notes = <<>>
    BY DEF Built
  <2> QED
    BY <2>1, <2>2, NoNotes, EmptySeq DEF HInit, GivenOK, CorrectionsKept
<1>2. [HNext]_<<vars, historyVars>> => [Next]_vars
  BY DEF HNext
<1>3. IInv /\ [Next]_vars => IInv'
  BY NextStep, StutterStep
<1>4. IInv /\ GivenOK /\ CorrectionsKept /\ [HNext]_<<vars, historyVars>>
      => GivenOK' /\ CorrectionsKept'
  BY CorrectionsStep
<1> QED
  BY <1>1, <1>2, <1>3, <1>4, InitIInv, PTL DEF HSpec
==============================================================================
