--------------------------- MODULE ScenarioMemory ---------------------------
(***************************************************************************)
(* The memory of scenarios in SQLite (store/scenarios/sqlite.py), written  *)
(* by the daemon's cycle, by the cockpit and the command line, and by the  *)
(* calls of MCP servers: vaner.expand and vaner.feedback, which decide on  *)
(* what they read and write it in transactions of their own.               *)
(*                                                                         *)
(* A step is one transaction, or one read.  Every transaction but that of  *)
(* a correction ends with the lifecycle of the rows it wrote, whose        *)
(* relevance is a weighted sum of data left out here: it may be anything.  *)
(* Freshness, score and the time stamps only rank and are left out.        *)
(***************************************************************************)
EXTENDS Integers, Sequences

CONSTANTS
    Scenario,
    Call,        \* bound: the calls of MCP clients, each made once
    Kept         \* the corrections a scenario keeps; 3 in the code

ASSUME KeptAssumption == Kept \in Nat \ {0}

VARIABLES
    row,    \* the row of each scenario
    pc,     \* where each call stands
    job,    \* what it is for, and the state it has decided on
    saw,    \* the memory state it decided from
    read    \* what the store read of the row before its next write

calls == <<pc, job, saw, read>>
vars == <<row, calls>>

MemoryState == {"candidate", "trusted", "stale", "demoted"}
Ratings == {"useful", "partial", "wrong", "irrelevant"}
Places == {"todo", "expand", "reread", "promote", "promoting", "merge", "merging",
           "demote", "demoting", "outcome", "list", "done", "refused", "dead"}

\* prior_successes counts to the streak that promotes; contradiction_signal, in
\* hundredths, to the limit that forbids it.
Streak == 2
ContradictionMax == 20

\* The corrections in prepared_context, oldest first.
Notes == {notes \in Seq(Call) : Len(notes) <= Kept}

Row == [memory : MemoryState,
        successes : 0..Streak,
        contradiction : 0..ContradictionMax,
        wrong : BOOLEAN,             \* last_outcome = "wrong"
        pinned : BOOLEAN,
        shown : BOOLEAN,             \* visibility # "archived"
        notes : Notes]

Job == [s : Scenario, rating : Ratings \cup {"expand"}, to : MemoryState,
        correction : BOOLEAN]

\* A scenario as build_scenarios makes it.
Built(shown) ==
    [memory |-> "candidate", successes |-> 0, contradiction |-> 0, wrong |-> FALSE,
     pinned |-> FALSE, shown |-> shown, notes |-> <<>>]

Init ==
    /\ row \in [Scenario -> {Built(shown) : shown \in BOOLEAN}]
    /\ pc = [c \in Call |-> "todo"]
    /\ job \in [Call -> {[s |-> s, rating |-> "expand", to |-> "candidate",
                          correction |-> FALSE] : s \in Scenario}]
    /\ saw = [c \in Call |-> "candidate"]
    /\ read = [c \in Call |-> [memory |-> "candidate", notes |-> <<>>]]

-----------------------------------------------------------------------------
(* The lifecycle and the policy.                                           *)

\* compute_scenario_lifecycle: a pinned scenario is never archived.
Refreshed(r) == {[r EXCEPT !.shown = v] : v \in IF r.pinned THEN {TRUE} ELSE BOOLEAN}

\* A transaction leaves r in the row of s.
Writes(s, r) == \E q \in Refreshed(r) : row' = [row EXCEPT ![s] = q]

Onward(from) ==            \* mutant: no state may be written over itself
    CASE from = "candidate" -> {"trusted", "stale", "demoted"}
      [] from = "trusted"   -> {"stale", "demoted"}
      [] from = "stale"     -> {"candidate"}
      [] from = "demoted"   -> {"candidate"}

\* _ALLOWED_TRANSITIONS
Allowed(from) ==
    CASE from = "candidate" -> {"trusted", "stale", "demoted", "candidate"}
      [] from = "trusted"   -> {"trusted", "stale", "demoted"}
      [] from = "stale"     -> {"stale", "candidate"}
      [] from = "demoted"   -> {"demoted", "candidate"}

\* decide_promotion: explicit_pin, success_streak, high_confidence_multi_evidence
\* and correction_confirmed.
Promotes(r, rating, pin, confident) ==
    /\ r.memory = "candidate"
    /\ \/ pin
       \/ r.successes >= Streak
       \/ rating = "useful" /\ confident /\ r.contradiction < ContradictionMax
       \/ rating = "useful" /\ r.wrong

\* decide_on_negative_feedback
Demoted(memory, rating) ==
    CASE rating = "wrong" -> "demoted"
      [] rating = "irrelevant" /\ memory = "trusted" -> "stale"
      [] OTHER -> memory

Uncapped(r, delta) == [r EXCEPT !.contradiction = @ + delta]     \* mutant
Contradicted(r, delta) ==
    [r EXCEPT !.contradiction = IF @ + delta < ContradictionMax
                                THEN @ + delta ELSE ContradictionMax]

\* record_outcome
WithOutcome(r, outcome) ==
    LET said == [r EXCEPT !.wrong = (outcome = "wrong")]
    IN  CASE outcome = "useful" ->
                [said EXCEPT !.successes = IF @ < Streak THEN @ + 1 ELSE Streak]
          [] outcome = "partial" -> said
          [] outcome = "irrelevant" -> Contradicted(said, 12)
          [] outcome = "wrong" -> Contradicted(said, 25)

-----------------------------------------------------------------------------
(* The daemon, the cockpit and the command line.                           *)

UpsertAsBuilt(s) ==        \* mutant: the lifecycle is that of the built scenario
    \E shown \in BOOLEAN :
        row' = [row EXCEPT ![s] = [Built(shown) EXCEPT !.pinned = row[s].pinned]]

\* upsert: of the row that was there only the pin stays.
Upsert(s) ==
    \E shown \in BOOLEAN : Writes(s, [Built(shown) EXCEPT !.pinned = row[s].pinned])

\* One scenario of the daemon's cycle, whose values depend on no earlier read.
Rebuild(s) == Upsert(s) /\ UNCHANGED calls

\* mark_absent_stale and mark_stale of the cycle, list_top of any reader, and
\* record_expansion: the lifecycle of some rows is computed again.
Refresh ==
    /\ row' \in [Scenario -> UNION {Refreshed(row[s]) : s \in Scenario}]
    /\ \A s \in Scenario : row'[s] \in Refreshed(row[s])

Listed == Refresh /\ UNCHANGED calls

\* The outcome endpoint and command do not know "wrong".
Outcome(s, outcome) ==
    Writes(s, WithOutcome(row[s], outcome)) /\ UNCHANGED calls

SetPinned(s, pinned) ==
    Writes(s, [row[s] EXCEPT !.pinned = pinned]) /\ UNCHANGED calls

-----------------------------------------------------------------------------
(* vaner.feedback and vaner.expand                                         *)

Goto(c, place) == pc' = [pc EXCEPT ![c] = place]

\* A call has read the row of s and decided.
Decides(c, s, rating, to, correction) ==
    /\ job' = [job EXCEPT ![c] = [s |-> s, rating |-> rating, to |-> to,
                                  correction |-> correction]]
    /\ saw' = [saw EXCEPT ![c] = row[s].memory]
    /\ UNCHANGED read

AfterPromotion(j) == IF j.rating = "expand" THEN "list"
                     ELSE IF j.correction THEN "merge" ELSE "outcome"

\* Useful or partial: a promotion if the gate opens, then the correction.
Praise(c, s, rating, pin, confident, correction) ==
    LET promotes == Promotes(row[s], rating, pin, confident)
        to == IF promotes THEN "trusted" ELSE row[s].memory
    IN  /\ pc[c] = "todo" /\ rating \in {"useful", "partial"}
        /\ Decides(c, s, rating, to, correction)
        /\ Goto(c, IF promotes THEN "promote" ELSE AfterPromotion(job'[c]))
        /\ UNCHANGED row

\* Wrong or irrelevant: a demotion; the policy refuses that of a stale memory.
Blame(c, s, rating) ==
    LET to == Demoted(row[s].memory, rating)
    IN  /\ pc[c] = "todo" /\ rating \in {"wrong", "irrelevant"}
        /\ Decides(c, s, rating, to, FALSE)
        /\ Goto(c, IF to \in Allowed(row[s].memory) THEN "demote" ELSE "refused")
        /\ UNCHANGED row

Expand(c, s) ==
    /\ pc[c] = "todo"
    /\ Decides(c, s, "expand", row[s].memory, FALSE)
    /\ Goto(c, "expand")
    /\ UNCHANGED row

RecordExpansion(c) ==
    /\ pc[c] = "expand"
    /\ Writes(job[c].s, row[job[c].s])
    /\ Goto(c, "reread")
    /\ UNCHANGED <<job, saw, read>>

\* What it reads now it writes back, as a promotion.
Reread(c) ==
    /\ pc[c] = "reread"
    /\ Decides(c, job[c].s, "expand", row[job[c].s].memory, FALSE)
    /\ Goto(c, "promote")
    /\ UNCHANGED row

Unchecked(c) == TRUE           \* mutant: the store does not validate
Checks(c) == job[c].to \in Allowed(row[job[c].s].memory)

Reads(c) ==
    LET r == row[job[c].s]
    IN  read' = [read EXCEPT ![c] = [memory |-> r.memory, notes |-> r.notes]]

\* promote_scenario and demote_scenario read the row on a connection of their own,
\* and validate the transition from it; the write does not look again.
Check(c) ==
    /\ pc[c] \in {"promote", "demote"}
    /\ IF Checks(c)
       THEN Reads(c) /\ Goto(c, IF pc[c] = "promote" THEN "promoting" ELSE "demoting")
       ELSE Goto(c, "refused") /\ UNCHANGED read
    /\ UNCHANGED <<row, job, saw>>

Promote(c) ==
    LET j == job[c]
    IN  /\ pc[c] = "promoting"
        /\ Writes(j.s, [row[j.s] EXCEPT !.memory = j.to, !.pinned = (j.to = "trusted")])
        /\ Goto(c, AfterPromotion(j))
        /\ UNCHANGED <<job, saw, read>>

Demote(c) ==
    LET j == job[c]
        fallen == [row[j.s] EXCEPT !.memory = j.to, !.pinned = (j.to = "trusted")]
    IN  /\ pc[c] = "demoting"
        /\ Writes(j.s, Contradicted(fallen, IF j.rating = "wrong" THEN 25 ELSE 10))
        /\ Goto(c, "outcome")
        /\ UNCHANGED <<job, saw, read>>

LastOf(notes) ==
    IF Len(notes) > Kept THEN SubSeq(notes, Len(notes) - Kept + 1, Len(notes)) ELSE notes

FirstOf(notes, c) ==           \* mutant: the newest is dropped, not the oldest
    IF Len(notes) = Kept THEN notes ELSE Append(notes, c)

\* The correction is appended; all but the last few are dropped.
Merged(notes, c) == LastOf(Append(notes, c))

StaleAnyway(memory) == "stale"      \* mutant: no CASE on the state
MarkedOlder(memory) == IF memory = "trusted" THEN "stale" ELSE memory

\* merge_memory_section reads the context, then replaces it.
ReadContext(c) ==
    /\ pc[c] = "merge"
    /\ Reads(c)
    /\ Goto(c, "merging")
    /\ UNCHANGED <<row, job, saw>>

Merge(c) ==
    /\ pc[c] = "merging"
    /\ row' = [row EXCEPT ![job[c].s].notes = Merged(read[c].notes, c),
                          ![job[c].s].memory = MarkedOlder(@)]
    /\ Goto(c, "outcome")
    /\ UNCHANGED <<job, saw, read>>

RecordOutcome(c) ==
    /\ pc[c] = "outcome"
    /\ Writes(job[c].s, WithOutcome(row[job[c].s], job[c].rating))
    /\ Goto(c, "list")
    /\ UNCHANGED <<job, saw, read>>

ListTop(c) ==
    /\ pc[c] = "list"
    /\ Refresh
    /\ Goto(c, "done")
    /\ UNCHANGED <<job, saw, read>>

\* The client goes away or the server dies: what is written stays written.
Dies(c) ==
    /\ pc[c] \notin {"todo", "done", "refused", "dead"}
    /\ Goto(c, "dead")
    /\ UNCHANGED <<row, job, saw, read>>

-----------------------------------------------------------------------------
Begins(c) ==
    \E s \in Scenario :
        \/ \E rating \in Ratings, pin, confident, correction \in BOOLEAN :
              Praise(c, s, rating, pin, confident, correction)
        \/ \E rating \in Ratings : Blame(c, s, rating)
        \/ Expand(c, s)

Goes(c) == \/ RecordExpansion(c) \/ Reread(c) \/ Check(c) \/ Promote(c) \/ Demote(c)
           \/ ReadContext(c) \/ Merge(c) \/ RecordOutcome(c) \/ ListTop(c)

Next ==
    \/ \E c \in Call : Begins(c) \/ Goes(c) \/ Dies(c)
    \/ \E s \in Scenario : Rebuild(s)
    \/ Listed
    \/ \E s \in Scenario, outcome \in Ratings \ {"wrong"} : Outcome(s, outcome)
    \/ \E s \in Scenario, pinned \in BOOLEAN : SetPinned(s, pinned)

Spec == Init /\ [][Next]_vars

-----------------------------------------------------------------------------
TypeOK ==
    /\ row \in [Scenario -> Row]
    /\ pc \in [Call -> Places]
    /\ job \in [Call -> Job]
    /\ saw \in [Call -> MemoryState]
    /\ read \in [Call -> [memory : MemoryState, notes : Notes]]

\* Whoever pinned it and whatever was written since, a pinned scenario is on the
\* live map: a rebuild or a bad outcome does not archive it
\* (intent/scenario_lifecycle.py, and the refresh at the end of each write).
PinnedIsShown == \A s \in Scenario : row[s].pinned => row[s].shown

\* A call that is about to write the row of s.
Writing(c, s) == pc[c] \in {"promoting", "demoting"} /\ job[c].s = s

\* A transition that the table of memory/policy.py forbids is made by a rebuild, to
\* candidate and with no call moving, or by a call whose check another write has come
\* after, and by nothing else.
TableUnlessTorn ==
    [][\A s \in Scenario :
          \/ row'[s].memory \in Allowed(row[s].memory)
          \/ row'[s].memory = "candidate" /\ UNCHANGED calls
          \/ \E c \in Call : Writing(c, s) /\ read[c].memory # row[s].memory]_vars

\* A call is refused for its transition only if the memory has changed since it
\* decided, or if it calls a stale memory wrong.
RefusedOnlyIfOvertaken ==
    [][\A c \in Call : pc[c] # "refused" /\ pc'[c] = "refused" =>
          LET m == row[job'[c].s].memory
          IN  \/ pc[c] = "todo" /\ job'[c].rating = "wrong" /\ m = "stale"
              \/ pc[c] # "todo" /\ saw[c] # m]_vars

Memory == [s \in Scenario |-> row[s].memory]
Overtaken == {s \in Scenario : \E c \in Call : Writing(c, s) /\ saw[c] # row[s].memory}

Ladder == INSTANCE TrustLadder WITH memory <- Memory, overtaken <- Overtaken

\* Calls, rebuilds, outcomes and pins together keep to the ladder, but for the
\* writes of calls that have been overtaken since they decided.
KeepsToTheLadder == Ladder!Spec
==============================================================================
