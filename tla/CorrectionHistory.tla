-------------------------- MODULE CorrectionHistory --------------------------
(***************************************************************************)
(* ScenarioMemory with the corrections each scenario has been given since  *)
(* it was last rebuilt, and whether the context was written meanwhile.     *)
(***************************************************************************)
EXTENDS ScenarioMemory

VARIABLES
    given,   \* the corrections accepted since the last rebuild, all of them
    torn     \* the context had changed between the read and the write of one

historyVars == <<given, torn>>

HInit == Init /\ given = [s \in Scenario |-> <<>>] /\ torn = [s \in Scenario |-> FALSE]

Corrects(c, s) == pc[c] = "merging" /\ job[c].s = s /\ Merge(c)

HNext ==
    /\ Next
    /\ given' = [s \in Scenario |->
                    IF \E c \in Call : Corrects(c, s)
                    THEN Append(given[s], CHOOSE c \in Call : Corrects(c, s))
                    ELSE IF row'[s].notes = <<>> THEN <<>> ELSE given[s]]
    /\ torn' = [s \in Scenario |->
                    LET now == {c \in Call : Corrects(c, s)}
                    IN  IF now # {}
                        THEN torn[s] \/ \E c \in now : read[c].notes # row[s].notes
                        ELSE row'[s].notes # <<>> /\ torn[s]]

HSpec == HInit /\ [][HNext]_<<vars, historyVars>>

\* The context holds the last corrections that were accepted since it was rebuilt,
\* unless it was rebuilt or corrected while another correction was merged
\* (store/scenarios/sqlite.py, merge_memory_section).
CorrectionsKept == \A s \in Scenario : ~torn[s] => row[s].notes = LastOf(given[s])
==============================================================================
