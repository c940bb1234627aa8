--------------------------- MODULE PrecomputeWorker ---------------------------
(***************************************************************************)
(* The process that runs the precompute cycles                             *)
(* (daemon/precompute_worker.py): a bounded priority queue of jobs, the    *)
(* loop that runs them one at a time, the scheduler that fills the queue   *)
(* and preempts, and the controller that obeys the control file.  Other    *)
(* processes talk to it by overwriting two files, one for wakes and one    *)
(* for control requests.                                                   *)
(*                                                                         *)
(* The three asyncio tasks share the worker's fields; a step is the code   *)
(* between two awaits of one of them.  Of jobs with the same priority any  *)
(* may go first: the sequence number that orders them is left out.         *)
(***************************************************************************)
EXTENDS Integers, FiniteSets

CONSTANTS
    Id,           \* job ids
    MaxQueue,     \* queue_size
    MaxRestarts   \* bound: how often the process is started again

ASSUME WorkerAssumption ==
    /\ IsFiniteSet(Id)
    /\ MaxQueue \in Nat \ {0}
    /\ Cardinality(Id) > MaxQueue + 2   \* one is always free
    /\ MaxRestarts \in Nat
    /\ {"nothing", "pause", "unknown"} \cap Id = {}

Urgent == 0      \* a wake
Startup == 1
Periodic == 5
Priorities == {Urgent, Startup, Periodic}

Job == [id : Id, priority : Priorities]
NoJob == [id |-> "nothing", priority |-> Periodic]

\* What the control file asks for: "pause" (of a workspace or of all: cancel
\* whatever runs and drain the queue), or to cancel the job of an id, which may
\* be the id of a job that is gone ("unknown").
Targets == {"nothing", "pause", "unknown"} \cup Id

VARIABLES
    focus,        \* proactive_gate admits prepared work
    wakeFile,     \* there is a wake file
    wakeSeen,     \* last_wake_id is the id in it
    controlFile,  \* the request in the control file
    controlSeen,  \* _last_control_id is its id
    queue,        \* _queue
    current,      \* _current
    task,         \* _current_task: what has become of it
    cancelled,    \* cancel() has been called on it
    scheduler,    \* whether the startup job has been enqueued
    restarts      \* how often the process has been started again

files == <<focus, wakeFile, controlFile>>
seen == <<wakeSeen, controlSeen>>
job == <<current, task, cancelled>>
vars == <<files, seen, queue, job, scheduler, restarts>>

\* "done": it returned; "raised": CancelledError came out of it; "dead": the
\* error went on through run_forever and ended the process.
TaskStates == {"none", "created", "running", "done", "raised", "dead"}

Alive == task # "dead"
Unfinished == task \in {"created", "running"}

Init ==
    /\ focus \in BOOLEAN
    /\ wakeFile \in BOOLEAN /\ wakeSeen = FALSE
    /\ controlFile \in {"nothing", "pause", "unknown"} /\ controlSeen = FALSE
    /\ queue = {}
    /\ current = NoJob /\ task = "none" /\ cancelled = FALSE
    /\ scheduler = "starting"
    /\ restarts = 0

-----------------------------------------------------------------------------
(* enqueue, on what it changes: the queue and whether the task is cancelled *)

IdsInUse(q) == {j.id : j \in q} \cup {current.id, controlFile}
FreshId(q) == CHOOSE id \in Id : id \notin IdsInUse(q)

Worst(q) == {j \in q : \A k \in q : k.priority <= j.priority}

RoomKept(q, priority) == {q}      \* mutant: nothing is thrown out

RoomOnlyIfFree(q, priority) ==    \* mutant: a full queue refuses every job
    IF Cardinality(q) < MaxQueue THEN {q} ELSE {}

\* What may be left of the queue once there is room, none if the job is
\* coalesced with what is there (_make_room_for).
Room(q, priority) ==
    IF Cardinality(q) < MaxQueue
    THEN {q}
    ELSE {q \ {j} : j \in {k \in Worst(q) : k.priority > priority}}

PreemptsAsUrgent(priority) ==     \* mutant: an equal job preempts, too
    Unfinished /\ priority <= current.priority

Preempts(priority) == Unfinished /\ priority < current.priority

\* The outcomes of enqueue(reason, priority=priority) from w.
Enqueue(w, priority) ==
    LET rooms == Room(w.queue, priority)
    IN  IF rooms = {}
        THEN {w}
        ELSE {[queue |-> q \cup {[id |-> FreshId(q), priority |-> priority]},
               cancelled |-> w.cancelled \/ Preempts(priority)] : q \in rooms}

\* _enqueue_if_allowed: what the gate defers is not enqueued later.
EnqueueIfAllowed(w, priority) == IF focus THEN Enqueue(w, priority) ELSE {w}

Now == [queue |-> queue, cancelled |-> cancelled]

-----------------------------------------------------------------------------
(* The scheduler: _schedule_periodic.                                      *)

SchedulerStart ==
    /\ Alive /\ scheduler = "starting"
    /\ \E w \in EnqueueIfAllowed(Now, Startup) :
         queue' = w.queue /\ cancelled' = w.cancelled
    /\ scheduler' = "ticking"
    /\ UNCHANGED <<files, seen, current, task, restarts>>

\* One turn of its loop: a wake it has not seen, then a periodic job if the
\* interval has elapsed.
SchedulerTick(due) ==
    /\ Alive /\ scheduler = "ticking"
    /\ LET woken == wakeFile /\ ~wakeSeen
       IN  /\ woken \/ due
           /\ wakeSeen' = (wakeSeen \/ woken)
           /\ \E v \in (IF woken THEN EnqueueIfAllowed(Now, Urgent) ELSE {Now}) :
              \E w \in (IF due THEN EnqueueIfAllowed(v, Periodic) ELSE {v}) :
                queue' = w.queue /\ cancelled' = w.cancelled
    /\ UNCHANGED <<files, controlSeen, current, task, scheduler, restarts>>

-----------------------------------------------------------------------------
(* The controller: _watch_control and _handle_worker_control.              *)

ControlPoll ==
    /\ Alive
    /\ controlFile # "nothing" /\ ~controlSeen
    /\ controlSeen' = TRUE
    /\ queue' = IF controlFile = "pause" THEN {} ELSE queue
    /\ cancelled' = (cancelled \/ (Unfinished /\ controlFile \in {"pause", current.id}))
    /\ UNCHANGED <<files, wakeSeen, current, task, scheduler, restarts>>

-----------------------------------------------------------------------------
(* The loop: run_forever, and the job's task: _run_job.                    *)

BestAny(q) == q    \* mutant: any job of the queue

Best(q) == {j \in q : \A k \in q : j.priority <= k.priority}

\* The queue's get() returns; the task of the job will start at a later turn
\* of the event loop.
TakeJob ==
    \E j \in Best(queue) :
      /\ queue' = queue \ {j}
      /\ current' = j /\ task' = "created" /\ cancelled' = FALSE

Take ==
    /\ task = "none"
    /\ TakeJob
    /\ UNCHANGED <<files, seen, scheduler, restarts>>

\* The first step of the task: the gate is asked again.  A task cancelled
\* before this step raises without having run a line of _run_job.
JobStart ==
    /\ task = "created"
    /\ task' = IF cancelled THEN "raised" ELSE IF focus THEN "running" ELSE "done"
    /\ UNCHANGED <<files, seen, queue, current, cancelled, scheduler, restarts>>

\* The cycle completes or fails.
JobFinish ==
    /\ task = "running" /\ ~cancelled
    /\ task' = "done"
    /\ UNCHANGED <<files, seen, queue, current, cancelled, scheduler, restarts>>

\* CancelledError reaches the await the job is in; _run_job catches it.
JobCancelled ==
    /\ task = "running" /\ cancelled
    /\ task' = "done"
    /\ UNCHANGED <<files, seen, queue, current, cancelled, scheduler, restarts>>

\* The loop's await of the task returns, and it goes on to the next job
\* without giving up control if there is one.
NextJob ==
    /\ task = "done"
    /\ \/ TakeJob
       \/ /\ queue = {}
          /\ current' = NoJob /\ task' = "none" /\ cancelled' = FALSE
          /\ UNCHANGED queue
    /\ UNCHANGED <<files, seen, scheduler, restarts>>

\* The loop's await raises: there is nothing around it but a finally.
LoopDies ==
    /\ task = "raised"
    /\ task' = "dead" /\ current' = NoJob /\ cancelled' = FALSE
    /\ queue' = {}
    /\ UNCHANGED <<files, seen, scheduler, restarts>>

-----------------------------------------------------------------------------
(* The world outside: the files, written by the daemon and the MCP server.  *)

\* Focus, pause state, power mode: whatever the gate reads.
FocusChange ==
    /\ focus' = ~focus
    /\ UNCHANGED <<wakeFile, controlFile, seen, queue, job, scheduler, restarts>>

\* request_precompute_wake
RequestWake ==
    /\ wakeFile' = TRUE /\ wakeSeen' = FALSE
    /\ UNCHANGED <<focus, controlFile, controlSeen, queue, job, scheduler, restarts>>

\* request_worker_control: the file holds one request, the last one.
RequestControl(target) ==
    /\ target \in {"pause", "unknown", current.id} \cup {j.id : j \in queue}
    /\ target # "nothing"
    /\ controlFile' = target /\ controlSeen' = FALSE
    /\ UNCHANGED <<focus, wakeFile, wakeSeen, queue, job, scheduler, restarts>>

RestartRemembering ==    \* mutant: last_wake_id survives the process
    /\ restarts < MaxRestarts /\ restarts' = restarts + 1
    /\ controlSeen' = FALSE
    /\ queue' = {} /\ current' = NoJob /\ task' = "none" /\ cancelled' = FALSE
    /\ scheduler' = "starting"
    /\ UNCHANGED <<files, wakeSeen>>

\* The process is killed, or has died, and is started again: it remembers
\* neither the wake nor the control request it has acted on.
Restart ==
    /\ restarts < MaxRestarts /\ restarts' = restarts + 1
    /\ wakeSeen' = FALSE /\ controlSeen' = FALSE
    /\ queue' = {} /\ current' = NoJob /\ task' = "none" /\ cancelled' = FALSE
    /\ scheduler' = "starting"
    /\ UNCHANGED files

-----------------------------------------------------------------------------
Loop == Take \/ JobStart \/ JobFinish \/ JobCancelled \/ NextJob \/ LoopDies

Next ==
    \/ SchedulerStart \/ (\E due \in BOOLEAN : SchedulerTick(due))
    \/ ControlPoll
    \/ Loop
    \/ FocusChange \/ RequestWake \/ Restart
    \/ \E target \in Targets : RequestControl(target)

\* The event loop runs every task that can run, a cycle ends (its budget and
\* the timeouts of its clients see to it), and the interval elapses.
Fairness ==
    /\ WF_vars(Loop) /\ WF_vars(SchedulerStart) /\ WF_vars(ControlPoll)
    /\ WF_vars(SchedulerTick(TRUE))

Spec == Init /\ [][Next]_vars /\ Fairness

-----------------------------------------------------------------------------
\* The queue keeps to its size, and no two jobs that are waiting or running have
\* the same id, so that a cancellation meant for one cannot hit another.
TypeOK ==
    /\ focus \in BOOLEAN /\ wakeFile \in BOOLEAN /\ wakeSeen \in BOOLEAN
    /\ controlFile \in Targets /\ controlSeen \in BOOLEAN
    /\ queue \subseteq Job /\ Cardinality(queue) <= MaxQueue
    /\ current \in Job \cup {NoJob}
    /\ task \in TaskStates /\ cancelled \in BOOLEAN
    /\ current = NoJob <=> task \in {"none", "dead"}
    /\ \A i, j \in queue \cup {current} : i.id = j.id => i = j
    /\ current \notin queue
    /\ scheduler \in {"starting", "ticking"}
    /\ restarts \in 0..MaxRestarts

\* However enqueues, control requests and the end of jobs interleave, nothing
\* urgent waits behind less urgent work that has not been told to stop.
UrgentFirst ==
    \A j \in queue : Unfinished /\ j.priority < current.priority => cancelled

\* A wake that the gate admits is never lost to a queue full of other jobs: when
\* the scheduler has seen it, an urgent job waits, and whatever runs is urgent
\* itself or has been told to stop.
UrgentAdmitted ==
    [][wakeFile /\ ~wakeSeen /\ wakeSeen' /\ focus
         => /\ \E j \in queue' : j.priority = Urgent
            /\ Unfinished' => current'.priority = Urgent \/ cancelled']_vars

\* "Bounded, long-lived worker that owns expensive preparation cycles"
\* (daemon/precompute_worker.py:143-148): preempting a job does not end the worker.
LongLived == Alive

================================================================================
