---------------------------- MODULE WorkerHistory ----------------------------
(***************************************************************************)
(* PrecomputeWorker with history variables that follow one wake at a time  *)
(* to the end of a cycle that started after it.                            *)
(***************************************************************************)
EXTENDS PrecomputeWorker

VARIABLES
    owed,      \* "no", "cycle" (none has started yet) or "end" (of that cycle)
    excused    \* since the wake, gate or control request came in between

HInit == Init /\ owed = "no" /\ excused = FALSE

\* The gate defers the wake, or a job whose turn it is.
Deferred ==
    ~focus /\ (JobStart \/ \E due \in BOOLEAN : SchedulerTick(due) /\ wakeSeen' # wakeSeen)

\* A control request drains the queue or cancels what runs.
Obeyed == ControlPoll /\ <<queue, cancelled>>' # <<queue, cancelled>>

HNext ==
    /\ Next
    /\ owed' = CASE owed = "no" /\ RequestWake                      -> "cycle"
                 [] owed = "cycle" /\ JobStart /\ task' = "running" -> "end"
                 [] owed = "end" /\ JobFinish                       -> "no"
                 [] owed = "end" /\ (JobCancelled \/ Restart)       -> "cycle"
                 [] OTHER                                           -> owed
    /\ excused' = (/\ owed' # "no" /\ ~RequestWake /\ ~Restart
                   /\ excused \/ Deferred \/ Obeyed)

HSpec == HInit /\ [][HNext]_<<vars, owed, excused>> /\ Fairness

\* Between a wake and the end of a cycle that started after it, something always
\* remembers it: the scheduler has yet to see it, a job waits, or one that nobody
\* has cancelled is about to start or is that cycle.  Eviction, coalescing,
\* preemption and restarts never drop it; only the gate and control requests do.
WakeRemembered ==
    owed # "no" /\ Alive /\ ~excused =>
        \/ wakeFile /\ ~wakeSeen
        \/ queue # {}
        \/ ~cancelled /\ (task = "created" \/ owed = "end")

\* A wake is followed by a whole cycle, even if it is deferred by the gate, its
\* job is coalesced, drained or cancelled: provided that the gate stays open and
\* no control requests arrive from some time on, and that the worker lives.
WakeServed ==
    <>[](focus /\ Alive /\ (controlSeen \/ controlFile = "nothing"))
      => (owed = "cycle" ~> owed = "no")

==============================================================================
