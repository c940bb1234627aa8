------------------------ MODULE PrecomputeWorkerProofs ------------------------
(***************************************************************************)
(* Proofs about PrecomputeWorker and WorkerHistory: the size of the queue, *)
(* the uniqueness of ids, that urgent work is neither refused nor kept     *)
(* waiting, and that a wake is not forgotten, for a queue of any size.     *)
(***************************************************************************)
EXTENDS WorkerHistory, FiniteSetTheorems, TLAPS

\* What every enqueue keeps of the queue q and of the mark c on the task.
Good(q, c) ==
    /\ c \in BOOLEAN
    /\ q \subseteq Job /\ IsFiniteSet(q) /\ Cardinality(q) <= MaxQueue
    /\ \A i, j \in q \cup {current} : i.id = j.id => i = j
    /\ current \notin q
    /\ \A j \in q : Unfinished /\ j.priority < current.priority => c

\* The inductive invariant: the types, and Good for the state as it is.
IInv == TypeOK /\ Good(queue, cancelled)

USE WorkerAssumption

-----------------------------------------------------------------------------
(* The helpers of enqueue.                                                  *)

\* One more element is at most one more.
LEMMA OneMore ==
    ASSUME NEW S, IsFiniteSet(S), NEW x
    PROVE  /\ IsFiniteSet(S \cup {x})
           /\ Cardinality(S \cup {x}) <= Cardinality(S) + 1
           /\ Cardinality(S) \in Nat /\ Cardinality(S \cup {x}) \in Nat
  <1>1. /\ IsFiniteSet(S \cup {x})
        /\ Cardinality(S \cup {x}) = IF x \in S THEN Cardinality(S)
                                               ELSE Cardinality(S) + 1
    BY FS_AddElement
  <1>2. Cardinality(S) \in Nat
    BY FS_CardinalityType
  <1> QED
    BY <1>1, <1>2

\* The ids of a set of jobs are no more than the jobs.
LEMMA FewIds ==
    ASSUME NEW q, IsFiniteSet(q)
    PROVE  /\ IsFiniteSet({j.id : j \in q})
           /\ Cardinality({j.id : j \in q}) <= Cardinality(q)
  <1> DEFINE T == {j.id : j \in q}
             f == [j \in q |-> j.id]
  <1>1. f \in Surjection(q, T)
    BY DEF Surjection
  <1> QED
    BY <1>1, FS_Surjection

\* While there is room, an id is free: no job waiting or running has it and no
\* request in the control file names it.
LEMMA FreshIdIsFree ==
    ASSUME NEW q, IsFiniteSet(q), Cardinality(q) < MaxQueue
    PROVE  FreshId(q) \in Id /\ FreshId(q) \notin IdsInUse(q)
  <1> DEFINE T == {j.id : j \in q}
  <1>1. IsFiniteSet(T) /\ Cardinality(T) <= Cardinality(q)
    BY FewIds
  <1>2. /\ IsFiniteSet(T \cup {current.id})
        /\ Cardinality(T \cup {current.id}) <= Cardinality(T) + 1
    BY <1>1, OneMore
  <1>3. /\ IsFiniteSet((T \cup {current.id}) \cup {controlFile})
        /\ Cardinality((T \cup {current.id}) \cup {controlFile})
             <= Cardinality(T \cup {current.id}) + 1
    BY <1>2, OneMore
  <1>4. IdsInUse(q) = (T \cup {current.id}) \cup {controlFile}
    BY DEF IdsInUse
  <1>5. /\ Cardinality(q) \in Nat /\ Cardinality(T) \in Nat
        /\ Cardinality(T \cup {current.id}) \in Nat
        /\ Cardinality(IdsInUse(q)) \in Nat /\ Cardinality(Id) \in Nat
    BY <1>1, <1>2, <1>3, <1>4, FS_CardinalityType
  <1>6. Cardinality(IdsInUse(q)) < Cardinality(Id)
    BY <1>1, <1>2, <1>3, <1>4, <1>5
  <1>7. PICK id \in Id : id \notin IdsInUse(q)
    <2> SUFFICES ASSUME Id \subseteq IdsInUse(q) PROVE FALSE
      OBVIOUS
    <2>1. Cardinality(Id) <= Cardinality(IdsInUse(q))
      BY <1>3, <1>4, FS_Subset
    <2> QED
      BY <1>5, <1>6, <2>1
  <1> QED
    BY <1>7 DEF FreshId

\* Making room leaves some of the queue, with a place free in it.
LEMMA RoomFits ==
    ASSUME NEW q, IsFiniteSet(q), Cardinality(q) <= MaxQueue, NEW priority,
           NEW r \in Room(q, priority)
    PROVE  r \subseteq q /\ IsFiniteSet(r) /\ Cardinality(r) < MaxQueue
  <1>1. Cardinality(q) \in Nat
    BY FS_CardinalityType
  <1>2. CASE Cardinality(q) < MaxQueue
    BY <1>2 DEF Room
  <1>3. CASE ~(Cardinality(q) < MaxQueue)
    <2>1. PICK j \in q : r = q \ {j}
      BY <1>3 DEF Room, Worst
    <2>2. IsFiniteSet(r) /\ Cardinality(r) = Cardinality(q) - 1
      BY <2>1, FS_RemoveElement
    <2> QED
      BY <1>1, <2>1, <2>2
  <1> QED
    BY <1>2, <1>3

\* A job that is coalesced finds nothing in the queue that is less urgent, and
\* something that is at least as urgent.
LEMMA CoalescedWithEqual ==
    ASSUME NEW q, q \subseteq Job, IsFiniteSet(q), NEW priority \in Priorities,
           Room(q, priority) = {}
    PROVE  \E j \in q : j.priority <= priority
  <1>1. ~(Cardinality(q) < MaxQueue)
    BY DEF Room
  <1>2. q # {}
    BY <1>1, FS_EmptySet
  <1>3. \A k \in Worst(q) : ~(k.priority > priority)
    BY <1>1 DEF Room
  <1>4. \A j \in q : j.priority \in Priorities
    BY DEF Job
  <1>5. \E k \in q : k \in Worst(q)
    BY <1>2, <1>4 DEF Worst, Priorities, Urgent, Startup, Periodic
  <1> QED
    BY <1>3, <1>4, <1>5 DEF Priorities, Urgent, Startup, Periodic

\* Enqueueing keeps the queue good.
LEMMA EnqueueGood ==
    ASSUME NEW w, NEW priority \in Priorities, TypeOK,
           Good(w.queue, w.cancelled), NEW x \in Enqueue(w, priority)
    PROVE  Good(x.queue, x.cancelled)
  <1>1. CASE x = w
    BY <1>1
  <1>2. CASE x # w
    <2>1. PICK r \in Room(w.queue, priority) :
            x = [queue |-> r \cup {[id |-> FreshId(r), priority |-> priority]},
                 cancelled |-> w.cancelled \/ Preempts(priority)]
      BY <1>2 DEF Enqueue
    <2> DEFINE j == [id |-> FreshId(r), priority |-> priority]
    <2>2. x.queue = r \cup {j} /\ x.cancelled = (w.cancelled \/ Preempts(priority))
      BY <2>1
    <2>3. r \subseteq w.queue /\ IsFiniteSet(r) /\ Cardinality(r) < MaxQueue
      BY RoomFits DEF Good
    <2>4. FreshId(r) \in Id /\ FreshId(r) \notin IdsInUse(r)
      BY <2>3, FreshIdIsFree
    <2>5. /\ j \in Job /\ j.priority = priority
          /\ \A i \in r \cup {current} : i.id # j.id
      BY <2>4 DEF Job, IdsInUse
    <2> HIDE DEF j
    <2>6. IsFiniteSet(r \cup {j}) /\ Cardinality(r \cup {j}) <= MaxQueue
      <3>1. /\ IsFiniteSet(r \cup {j})
            /\ Cardinality(r \cup {j}) <= Cardinality(r) + 1
            /\ Cardinality(r) \in Nat /\ Cardinality(r \cup {j}) \in Nat
        BY <2>3, OneMore
      <3> QED
        BY <2>3, <3>1
    <2>7. r \cup {j} \subseteq Job
      BY <2>3, <2>5 DEF Good
    <2>8. \A i, k \in (r \cup {j}) \cup {current} : i.id = k.id => i = k
      BY <2>3, <2>5 DEF Good
    <2>9. current \notin r \cup {j}
      BY <2>3, <2>5 DEF Good
    <2>10. ASSUME NEW k \in r \cup {j}, Unfinished, k.priority < current.priority
           PROVE  w.cancelled \/ Preempts(priority)
      <3>1. CASE k \in r
        BY <2>3, <2>10, <3>1 DEF Good
      <3>2. CASE k = j
        BY <2>5, <2>10, <3>2 DEF Preempts
      <3> QED
        BY <2>10, <3>1, <3>2
    <2> QED
      BY <2>2, <2>6, <2>7, <2>8, <2>9, <2>10 DEF Good
  <1> QED
    BY <1>1, <1>2

\* So does enqueueing what the gate admits.
LEMMA EnqueueIfAllowedGood ==
    ASSUME NEW w, NEW priority \in Priorities, TypeOK,
           Good(w.queue, w.cancelled), NEW x \in EnqueueIfAllowed(w, priority)
    PROVE  Good(x.queue, x.cancelled)
  BY EnqueueGood DEF EnqueueIfAllowed

-----------------------------------------------------------------------------
(* Every step keeps the invariant.                                         *)

\* An empty queue fits.
LEMMA EmptyFits == IsFiniteSet({}) /\ Cardinality({}) <= MaxQueue
  <1>1. IsFiniteSet({}) /\ Cardinality({}) = 0
    BY FS_EmptySet
  <1> QED
    BY <1>1

\* The worker starts with an empty queue and no job.
LEMMA InitIInv == Init => IInv
  <1> SUFFICES ASSUME Init PROVE IInv
    OBVIOUS
  <1>1. IsFiniteSet({}) /\ Cardinality({}) <= MaxQueue
    BY EmptyFits
  <1>2. Good(queue, cancelled)
    BY <1>1 DEF Init, Good
  <1>3. controlFile \in Targets /\ restarts \in 0..MaxRestarts
    BY DEF Init, Targets
  <1>4. TypeOK
    BY <1>2, <1>3 DEF Init, TypeOK, Good, TaskStates
  <1> QED
    BY <1>2, <1>4 DEF IInv

\* A step of the scheduler or the controller changes the queue and the mark on
\* the task; the rest of the types is not its business.
LEMMA KeptByQueueing ==
    ASSUME IInv, Good(queue', cancelled'), UNCHANGED <<files, current, task, restarts>>,
           wakeSeen' \in BOOLEAN, controlSeen' \in BOOLEAN,
           scheduler' \in {"starting", "ticking"}
    PROVE  IInv'
  <1>1. Good(queue, cancelled)'
    BY DEF Good, Unfinished
  <1>2. TypeOK'
    BY <1>1 DEF IInv, TypeOK, Good, files
  <1> QED
    BY <1>1, <1>2 DEF IInv

\* The scheduler enqueues up to two jobs in one turn.
LEMMA SchedulerKeeps ==
    ASSUME IInv, NEW due \in BOOLEAN, SchedulerStart \/ SchedulerTick(due)
    PROVE  IInv'
  <1>1. TypeOK /\ Good(queue, cancelled)
    BY DEF IInv
  <1>2. Good(Now.queue, Now.cancelled)
    BY <1>1 DEF Now
  <1>3. {Urgent, Startup, Periodic} \subseteq Priorities
    BY DEF Priorities
  <1>4. CASE SchedulerStart
    <2>1. PICK w \in EnqueueIfAllowed(Now, Startup) :
            queue' = w.queue /\ cancelled' = w.cancelled
      BY <1>4 DEF SchedulerStart
    <2>2. Good(queue', cancelled')
      BY <1>1, <1>2, <1>3, <2>1, EnqueueIfAllowedGood
    <2> QED
      BY <1>1, <1>4, <2>2, KeptByQueueing DEF SchedulerStart, seen, TypeOK
  <1>5. CASE SchedulerTick(due)
    <2> DEFINE woken == wakeFile /\ ~wakeSeen
               V == IF woken THEN EnqueueIfAllowed(Now, Urgent) ELSE {Now}
               W(v) == IF due THEN EnqueueIfAllowed(v, Periodic) ELSE {v}
    <2>1. PICK v \in V : \E w \in W(v) : queue' = w.queue /\ cancelled' = w.cancelled
      BY <1>5 DEF SchedulerTick
    <2>2. PICK w \in W(v) : queue' = w.queue /\ cancelled' = w.cancelled
      BY <2>1
    <2>3. Good(v.queue, v.cancelled)
      BY <1>1, <1>2, <1>3, EnqueueIfAllowedGood
    <2>4. Good(w.queue, w.cancelled)
      BY <1>1, <1>3, <2>3, EnqueueIfAllowedGood
    <2> QED
      BY <1>1, <1>5, <2>2, <2>4, KeptByQueueing DEF SchedulerTick, TypeOK
  <1> QED
    BY <1>4, <1>5

\* A control request drains and marks, it adds nothing.
LEMMA ControllerKeeps ==
    ASSUME IInv, ControlPoll
    PROVE  IInv'
  <1>1. Good(queue', cancelled')
    BY EmptyFits DEF IInv, ControlPoll, Good, TypeOK
  <1> QED
    BY <1>1, KeptByQueueing DEF IInv, ControlPoll, TypeOK

\* Taking one of the most urgent jobs leaves nothing more urgent behind.
LEMMA TakeKeeps ==
    ASSUME IInv, TakeJob, UNCHANGED <<files, seen, scheduler, restarts>>
    PROVE  IInv'
  <1>1. PICK j \in Best(queue) : /\ queue' = queue \ {j}
                                 /\ current' = j
                                 /\ task' = "created" /\ cancelled' = FALSE
    BY DEF TakeJob
  <1>2. j \in queue /\ j \in Job /\ \A k \in queue : j.priority <= k.priority
    BY <1>1 DEF Best, IInv, Good
  <1>3. /\ IsFiniteSet(queue') /\ Cardinality(queue') = Cardinality(queue) - 1
        /\ Cardinality(queue) \in Nat /\ Cardinality(queue) <= MaxQueue
    BY <1>1, <1>2, FS_RemoveElement, FS_CardinalityType DEF IInv, Good
  <1>4. Cardinality(queue') <= MaxQueue
    BY <1>3
  <1>5. \A k \in queue' : ~(k.priority < j.priority)
    BY <1>1, <1>2 DEF IInv, Good, Job, Priorities, Urgent, Startup, Periodic
  <1>6. Good(queue, cancelled)'
    BY <1>1, <1>2, <1>3, <1>4, <1>5 DEF IInv, Good
  <1>7. current' # NoJob
    BY <1>1, <1>2 DEF Job, NoJob
  <1>8. TypeOK'
    BY <1>1, <1>2, <1>6, <1>7 DEF IInv, TypeOK, Good, TaskStates, files, seen
  <1> QED
    BY <1>6, <1>8 DEF IInv

\* The loop and the job's task.
LEMMA LoopKeeps ==
    ASSUME IInv, Loop
    PROVE  IInv'
  <1> USE DEF IInv
  <1>1. CASE Take
    BY <1>1, TakeKeeps DEF Take
  <1>2. CASE JobStart \/ JobFinish \/ JobCancelled
    <2>1. /\ UNCHANGED <<files, seen, queue, current, cancelled, scheduler, restarts>>
          /\ task \in {"created", "running"}
          /\ task' \in {"running", "done", "raised"}
      BY <1>2 DEF JobStart, JobFinish, JobCancelled
    <2>2. Good(queue, cancelled)'
      BY <2>1 DEF Good, Unfinished
    <2>3. TypeOK'
      BY <2>1, <2>2 DEF TypeOK, TaskStates, files, seen
    <2> QED
      BY <2>2, <2>3
  <1>3. CASE NextJob
    <2>1. CASE TakeJob
      BY <1>3, <2>1, TakeKeeps DEF NextJob
    <2>2. CASE queue = {} /\ current' = NoJob /\ task' = "none" /\ cancelled' = FALSE
               /\ UNCHANGED queue
      <3>1. Good(queue, cancelled)'
        BY <2>2 DEF Good
      <3> QED
        BY <1>3, <2>2, <3>1 DEF NextJob, TypeOK, TaskStates, files, seen
    <2> QED
      BY <1>3, <2>1, <2>2 DEF NextJob
  <1>4. CASE LoopDies
    <2>1. Good(queue, cancelled)'
      BY <1>4, EmptyFits DEF LoopDies, Good
    <2> QED
      BY <1>4, <2>1 DEF LoopDies, TypeOK, Good, TaskStates, files, seen
  <1> QED
    BY <1>1, <1>2, <1>3, <1>4 DEF Loop

\* What happens outside the worker, and its restart.
LEMMA WorldKeeps ==
    ASSUME IInv, FocusChange \/ RequestWake \/ Restart
                 \/ \E target \in Targets : RequestControl(target)
    PROVE  IInv'
  <1> USE DEF IInv
  <1>1. CASE Restart
    <2>1. Good(queue, cancelled)'
      BY <1>1, EmptyFits DEF Restart, Good
    <2>2. restarts' \in 0..MaxRestarts
      BY <1>1 DEF Restart, TypeOK
    <2> QED
      BY <1>1, <2>1, <2>2 DEF Restart, TypeOK, Good, TaskStates, files
  <1>2. CASE FocusChange \/ RequestWake \/ \E target \in Targets : RequestControl(target)
    <2>1. UNCHANGED <<queue, job, scheduler, restarts>>
      BY <1>2 DEF FocusChange, RequestWake, RequestControl
    <2>2. Good(queue, cancelled)'
      BY <2>1 DEF Good, Unfinished, job
    <2>3. /\ focus' \in BOOLEAN /\ wakeFile' \in BOOLEAN /\ wakeSeen' \in BOOLEAN
          /\ controlFile' \in Targets /\ controlSeen' \in BOOLEAN
      BY <1>2 DEF FocusChange, RequestWake, RequestControl, TypeOK, seen
    <2> QED
      BY <2>1, <2>2, <2>3 DEF TypeOK, job
  <1> QED
    BY <1>1, <1>2

\* The invariant is inductive.
LEMMA StepIInv == IInv /\ [Next]_vars => IInv'
  <1> SUFFICES ASSUME IInv, [Next]_vars PROVE IInv'
    OBVIOUS
  <1>1. CASE UNCHANGED vars
    BY <1>1 DEF vars, files, seen, job, IInv, TypeOK, Good, Unfinished
  <1> QED
    BY <1>1, SchedulerKeeps, ControllerKeeps, LoopKeeps, WorldKeeps DEF Next


-----------------------------------------------------------------------------
(* A wake is admitted.                                                     *)

\* An urgent job is in the queue, and the task is urgent or marked.
Admitted(q, c) ==
    /\ \E j \in q : j.priority = Urgent
    /\ Unfinished => current.priority = Urgent \/ c

\* An urgent job gets in, or finds one that is as urgent.
LEMMA UrgentGetsIn ==
    ASSUME NEW w, TypeOK, Good(w.queue, w.cancelled), NEW x \in Enqueue(w, Urgent)
    PROVE  Admitted(x.queue, x.cancelled)
  <1>1. Urgent \in Priorities
    BY DEF Priorities
  <1>2. current.priority \in Priorities
    BY DEF TypeOK, Job, NoJob, Priorities
  <1>3. CASE Room(w.queue, Urgent) = {}
    <2>1. PICK j \in w.queue : j.priority <= Urgent
      BY <1>1, <1>3, CoalescedWithEqual DEF Good
    <2>2. j.priority = Urgent
      BY <2>1 DEF Good, Job, Priorities, Urgent, Startup, Periodic
    <2>3. x = w
      BY <1>3 DEF Enqueue
    <2>4. ASSUME Unfinished, current.priority # Urgent
          PROVE  w.cancelled
      BY <1>2, <2>2, <2>4 DEF Good, Priorities, Urgent, Startup, Periodic
    <2> QED
      BY <2>2, <2>3, <2>4 DEF Admitted, Good
  <1>4. CASE Room(w.queue, Urgent) # {}
    <2>1. PICK r \in Room(w.queue, Urgent) :
            x = [queue |-> r \cup {[id |-> FreshId(r), priority |-> Urgent]},
                 cancelled |-> w.cancelled \/ Preempts(Urgent)]
      BY <1>4 DEF Enqueue
    <2>2. /\ [id |-> FreshId(r), priority |-> Urgent] \in x.queue
          /\ x.cancelled = (w.cancelled \/ Preempts(Urgent))
      BY <2>1
    <2>3. \E j \in x.queue : j.priority = Urgent
      BY <2>2
    <2>4. ASSUME Unfinished, current.priority # Urgent
          PROVE  Preempts(Urgent)
      BY <1>2, <2>4 DEF Preempts, Priorities, Urgent, Startup, Periodic
    <2> QED
      BY <2>2, <2>3, <2>4 DEF Admitted
  <1> QED
    BY <1>3, <1>4

\* The periodic job of the same turn throws out nothing that is more urgent.
LEMMA PeriodicIsModest ==
    ASSUME NEW v, Good(v.queue, v.cancelled), Admitted(v.queue, v.cancelled),
           NEW x \in Enqueue(v, Periodic)
    PROVE  Admitted(x.queue, x.cancelled)
  <1>1. CASE x = v
    BY <1>1
  <1>2. CASE x # v
    <2>1. PICK r \in Room(v.queue, Periodic) :
            x = [queue |-> r \cup {[id |-> FreshId(r), priority |-> Periodic]},
                 cancelled |-> v.cancelled \/ Preempts(Periodic)]
      BY <1>2 DEF Enqueue
    <2>2. r = v.queue
      <3>1. \A k \in v.queue : ~(k.priority > Periodic)
        BY DEF Good, Job, Priorities, Urgent, Startup, Periodic
      <3> QED
        BY <3>1 DEF Room, Worst
    <2>3. /\ v.queue \subseteq x.queue
          /\ x.cancelled = (v.cancelled \/ Preempts(Periodic))
      BY <2>1, <2>2
    <2> QED
      BY <2>3 DEF Admitted
  <1> QED
    BY <1>1, <1>2

\* A turn of the scheduler that finds a wake with the gate open admits it.
LEMMA TickAdmits ==
    ASSUME IInv, NEW due \in BOOLEAN, SchedulerTick(due),
           wakeFile /\ ~wakeSeen, focus
    PROVE  Admitted(queue', cancelled') /\ UNCHANGED <<current, task>>
  <1>1. TypeOK /\ Good(Now.queue, Now.cancelled)
    BY DEF IInv, Now
  <1> DEFINE W(v) == IF due THEN EnqueueIfAllowed(v, Periodic) ELSE {v}
  <1>2. PICK v \in EnqueueIfAllowed(Now, Urgent) :
          \E w \in W(v) : queue' = w.queue /\ cancelled' = w.cancelled
    BY DEF SchedulerTick
  <1>3. PICK w \in W(v) : queue' = w.queue /\ cancelled' = w.cancelled
    BY <1>2
  <1>4. v \in Enqueue(Now, Urgent)
    BY <1>2 DEF EnqueueIfAllowed
  <1>5. Admitted(v.queue, v.cancelled)
    BY <1>1, <1>4, UrgentGetsIn
  <1>6. Good(v.queue, v.cancelled)
    BY <1>1, <1>4, EnqueueGood DEF Priorities
  <1>7. Admitted(w.queue, w.cancelled)
    BY <1>3, <1>5, <1>6, PeriodicIsModest DEF EnqueueIfAllowed
  <1> QED
    BY <1>3, <1>7 DEF SchedulerTick

-----------------------------------------------------------------------------
(* The theorems.                                                           *)

\* The invariant holds in every reachable state of the worker.
THEOREM Invariance == Spec => []IInv
  BY InitIInv, StepIInv, PTL DEF Spec

\* The queue never outgrows its size, and every job that waits or runs has an id
\* of its own, whatever is evicted, coalesced, drained or cancelled.
THEOREM TypeCorrect == Spec => []TypeOK
  BY Invariance, PTL DEF IInv

\* Nothing urgent ever waits behind less urgent work that goes on undisturbed.
THEOREM UrgentIsFirst == Spec => []UrgentFirst
  <1>1. IInv => UrgentFirst
    BY DEF IInv, Good, UrgentFirst
  <1> QED
    BY <1>1, Invariance, PTL

\* A wake that the gate admits always leads to an urgent job in the queue, with
\* the way cleared for it, however full the queue was.
THEOREM WakeIsAdmitted == Spec => UrgentAdmitted
  <1>1. ASSUME IInv, [Next]_vars, wakeFile, ~wakeSeen, wakeSeen', focus
        PROVE  /\ \E j \in queue' : j.priority = Urgent
               /\ Unfinished' => current'.priority = Urgent \/ cancelled'
    <2>1. PICK due \in BOOLEAN : SchedulerTick(due)
      BY <1>1 DEF Next, vars, files, seen, SchedulerStart, ControlPoll, Loop, Take,
                  JobStart, JobFinish, JobCancelled, NextJob, LoopDies,
                  FocusChange, RequestWake, RequestControl, Restart
    <2>2. Admitted(queue', cancelled') /\ UNCHANGED <<current, task>>
      BY <1>1, <2>1, TickAdmits
    <2> QED
      BY <2>2 DEF Admitted, Unfinished
  <1>2. IInv /\ [Next]_vars
          => [wakeFile /\ ~wakeSeen /\ wakeSeen' /\ focus
                => /\ \E j \in queue' : j.priority = Urgent
                   /\ Unfinished' => current'.priority = Urgent \/ cancelled']_vars
    BY <1>1
  <1> QED
    BY <1>2, Invariance, PTL DEF Spec, UrgentAdmitted

-----------------------------------------------------------------------------
(* A wake is remembered, with the history of WorkerHistory.                *)

\* A wake file is never taken away, and the cycle that is waited for is running.
WakeInv ==
    /\ owed \in {"no", "cycle", "end"}
    /\ owed # "no" => wakeFile
    /\ owed = "end" => task = "running"
    /\ WakeRemembered

\* What the history makes of a step.
LEMMA Owing ==
    ASSUME WakeInv, HNext
    PROVE  /\ owed' \in {"no", "cycle", "end"}
           /\ owed' # "no" => owed # "no" \/ RequestWake
           /\ owed' = "end" => \/ owed = "end" /\ ~JobFinish /\ ~JobCancelled /\ ~Restart
                               \/ JobStart /\ task' = "running"
           /\ owed = "end" => owed' = "end" \/ JobFinish \/ JobCancelled \/ Restart
           /\ owed = "end" /\ JobFinish => owed' = "no"
           /\ JobStart /\ task' = "running" /\ owed = "cycle" => owed' = "end"
           /\ owed' # "no" /\ ~excused' =>
                RequestWake \/ Restart \/ (~excused /\ ~Deferred /\ ~Obeyed)
  <1>1. owed' = CASE owed = "no" /\ RequestWake                      -> "cycle"
                  [] owed = "cycle" /\ JobStart /\ task' = "running" -> "end"
                  [] owed = "end" /\ JobFinish                       -> "no"
                  [] owed = "end" /\ (JobCancelled \/ Restart)       -> "cycle"
                  [] OTHER                                           -> owed
    BY DEF HNext
  <1>2. excused' = (/\ owed' # "no" /\ ~RequestWake /\ ~Restart
                    /\ excused \/ Deferred \/ Obeyed)
    BY DEF HNext
  <1>3. owed \in {"no", "cycle", "end"}
    BY DEF WakeInv
  <1>4. JobFinish => ~JobCancelled /\ ~Restart
    BY DEF JobFinish, JobCancelled, Restart
  <1> QED
    BY <1>1, <1>2, <1>3, <1>4

\* A turn of the scheduler leaves the queue as it was, mark and all, or not empty.
LEMMA EnqueueFills ==
    ASSUME NEW w, NEW priority, NEW x \in EnqueueIfAllowed(w, priority)
    PROVE  x = w \/ x.queue # {}
  <1>1. CASE x # w
    <2>1. PICK r \in Room(w.queue, priority) :
            x = [queue |-> r \cup {[id |-> FreshId(r), priority |-> priority]},
                 cancelled |-> w.cancelled \/ Preempts(priority)]
      BY <1>1 DEF EnqueueIfAllowed, Enqueue
    <2>2. [id |-> FreshId(r), priority |-> priority] \in x.queue
      BY <2>1
    <2> QED
      BY <2>2
  <1> QED
    BY <1>1

LEMMA SchedulerFills ==
    ASSUME NEW due \in BOOLEAN, SchedulerStart \/ SchedulerTick(due)
    PROVE  queue' # {} \/ UNCHANGED <<queue, cancelled>>
  <1>1. CASE SchedulerStart
    <2>1. PICK w \in EnqueueIfAllowed(Now, Startup) :
            queue' = w.queue /\ cancelled' = w.cancelled
      BY <1>1 DEF SchedulerStart
    <2> QED
      BY <2>1, EnqueueFills DEF Now
  <1>2. CASE SchedulerTick(due)
    <2> DEFINE V == IF wakeFile /\ ~wakeSeen THEN EnqueueIfAllowed(Now, Urgent) ELSE {Now}
               W(v) == IF due THEN EnqueueIfAllowed(v, Periodic) ELSE {v}
    <2>1. PICK v \in V : \E w \in W(v) : queue' = w.queue /\ cancelled' = w.cancelled
      BY <1>2 DEF SchedulerTick
    <2>2. PICK w \in W(v) : queue' = w.queue /\ cancelled' = w.cancelled
      BY <2>1
    <2>3. v = Now \/ v.queue # {}
      BY EnqueueFills
    <2>4. w = v \/ w.queue # {}
      BY EnqueueFills
    <2> QED
      BY <2>2, <2>3, <2>4 DEF Now
  <1> QED
    BY <1>1, <1>2

\* The scheduler marks a wake as seen only when a job waits or the gate is shut.
LEMMA SchedulerRemembers ==
    ASSUME IInv, WakeInv, HNext, NEW due \in BOOLEAN,
           SchedulerStart \/ SchedulerTick(due)
    PROVE  WakeRemembered'
  <1> SUFFICES ASSUME owed' # "no", Alive', ~excused'
               PROVE  \/ wakeFile' /\ ~wakeSeen'
                      \/ queue' # {}
                      \/ ~cancelled' /\ (task' = "created" \/ owed' = "end")
    BY DEF WakeRemembered
  <1>1. /\ UNCHANGED <<wakeFile, task, restarts>> /\ (SchedulerStart => wakeSeen' = wakeSeen)
        /\ SchedulerTick(due) => wakeSeen' = (wakeSeen \/ (wakeFile /\ ~wakeSeen))
    BY DEF SchedulerStart, SchedulerTick, files, seen
  <1>2. ~RequestWake \/ ~wakeSeen'
    BY DEF RequestWake
  <1>3. ~Restart /\ ~JobFinish /\ ~JobCancelled
    BY <1>1 DEF Restart, JobFinish, JobCancelled, IInv, TypeOK
  <1>4. CASE wakeSeen' # wakeSeen
    <2>1. SchedulerTick(due) /\ wakeFile /\ ~wakeSeen
      <3>1. SchedulerTick(due)
        BY <1>1, <1>4
      <3>2. wakeSeen \in BOOLEAN /\ wakeFile \in BOOLEAN
        BY DEF IInv, TypeOK
      <3>3. wakeSeen' = (wakeSeen \/ (wakeFile /\ ~wakeSeen))
        BY <1>1, <3>1
      <3> QED
        BY <1>4, <3>1, <3>2, <3>3
    <2>2. CASE focus
      BY <2>1, <2>2, TickAdmits DEF Admitted
    <2>3. CASE ~focus
      BY <1>1, <1>2, <1>3, <1>4, <2>1, <2>3, Owing DEF Deferred, RequestWake
    <2> QED
      BY <2>2, <2>3
  <1>5. CASE wakeSeen' = wakeSeen
    <2>1. CASE RequestWake
      BY <2>1 DEF RequestWake
    <2>2. CASE ~RequestWake
      <3>1. owed # "no" /\ ~excused
        BY <1>3, <2>2, Owing
      <3>2. owed' = "end" \/ owed # "end"
        BY <1>3, Owing
      <3> QED
        BY <1>1, <1>5, <3>1, <3>2, SchedulerFills DEF WakeInv, WakeRemembered, Alive
    <2> QED
      BY <2>1, <2>2
  <1> QED
    BY <1>4, <1>5

\* A control request that drains or cancels is an excuse.
LEMMA ControllerRemembers ==
    ASSUME IInv, WakeInv, HNext, ControlPoll
    PROVE  WakeRemembered'
  <1> SUFFICES ASSUME owed' # "no", Alive', ~excused'
               PROVE  \/ wakeFile' /\ ~wakeSeen'
                      \/ queue' # {}
                      \/ ~cancelled' /\ (task' = "created" \/ owed' = "end")
    BY DEF WakeRemembered
  <1>1. UNCHANGED <<wakeFile, wakeSeen, task, restarts>>
    BY DEF ControlPoll, files
  <1>2. ~Restart /\ ~JobFinish /\ ~JobCancelled
    BY <1>1 DEF Restart, JobFinish, JobCancelled, IInv, TypeOK
  <1>3. CASE RequestWake
    BY <1>3 DEF RequestWake
  <1>4. CASE ~RequestWake
    <2>1. owed # "no" /\ ~excused /\ ~Obeyed /\ (owed' = "end" \/ owed # "end")
      BY <1>2, <1>4, Owing
    <2>2. queue' = queue /\ cancelled' = cancelled
      BY <2>1 DEF Obeyed
    <2> QED
      BY <1>1, <2>1, <2>2 DEF WakeInv, WakeRemembered, Alive
  <1> QED
    BY <1>3, <1>4

\* The loop forgets nothing that is not deferred: what it takes it starts, and what
\* is cancelled without an excuse has made way for a job in the queue.
LEMMA LoopRemembers ==
    ASSUME IInv, WakeInv, HNext, Loop
    PROVE  WakeRemembered'
  <1> SUFFICES ASSUME owed' # "no", Alive', ~excused'
               PROVE  \/ wakeFile' /\ ~wakeSeen'
                      \/ queue' # {}
                      \/ ~cancelled' /\ (task' = "created" \/ owed' = "end")
    BY DEF WakeRemembered
  <1>1. UNCHANGED <<wakeFile, wakeSeen, restarts>>
    BY DEF Loop, Take, JobStart, JobFinish, JobCancelled, NextJob, LoopDies, files, seen
  <1>2. CASE RequestWake
    BY <1>2 DEF RequestWake
  <1>3. CASE ~RequestWake
    <2>1. ~Restart
      BY <1>1 DEF Restart, IInv, TypeOK
    <2>2. owed # "no" /\ ~excused /\ ~Deferred
      BY <1>3, <2>1, Owing
    <2>3. Alive => \/ wakeFile /\ ~wakeSeen
                   \/ queue # {}
                   \/ ~cancelled /\ (task = "created" \/ owed = "end")
      BY <2>2 DEF WakeInv, WakeRemembered
    <2>4. CASE TakeJob
      BY <2>4 DEF TakeJob
    <2>5. CASE JobStart
      <3>1. CASE cancelled
        BY <1>1, <2>3, <2>5, <3>1 DEF JobStart, Alive, WakeInv
      <3>2. CASE ~cancelled
        <4>1. focus
          BY <2>2, <2>5 DEF Deferred
        <4>2. task' = "running" /\ cancelled' = cancelled
          BY <2>5, <3>2, <4>1 DEF JobStart
        <4>3. owed = "cycle"
          BY <2>2, <2>5 DEF WakeInv, JobStart
        <4> QED
          BY <2>5, <3>2, <4>2, <4>3, Owing
      <3> QED
        BY <3>1, <3>2
    <2>6. CASE JobFinish
      <3>1. owed # "end"
        BY <2>6, Owing
      <3> QED
        BY <1>1, <2>3, <2>6, <3>1 DEF JobFinish, Alive
    <2>7. CASE JobCancelled
      BY <1>1, <2>3, <2>7 DEF JobCancelled, Alive
    <2>8. CASE NextJob /\ ~TakeJob
      BY <1>1, <2>3, <2>8 DEF NextJob, Alive, WakeInv
    <2>9. CASE LoopDies
      BY <2>9 DEF LoopDies, Alive
    <2> QED
      BY <2>4, <2>5, <2>6, <2>7, <2>8, <2>9 DEF Loop, Take
  <1> QED
    BY <1>2, <1>3

\* What happens outside the worker, and its restart, which has yet to see the wake.
LEMMA WorldRemembers ==
    ASSUME IInv, WakeInv, HNext,
           \/ FocusChange \/ RequestWake \/ Restart
           \/ \E target \in Targets : RequestControl(target)
    PROVE  WakeRemembered'
  <1> SUFFICES ASSUME owed' # "no", Alive', ~excused'
               PROVE  \/ wakeFile' /\ ~wakeSeen'
                      \/ queue' # {}
                      \/ ~cancelled' /\ (task' = "created" \/ owed' = "end")
    BY DEF WakeRemembered
  <1>1. CASE RequestWake
    BY <1>1 DEF RequestWake
  <1>2. CASE Restart
    <2>1. wakeFile' = wakeFile /\ wakeSeen' = FALSE
      BY <1>2 DEF Restart, files
    <2>2. owed # "no" \/ RequestWake
      BY Owing
    <2> QED
      BY <1>1, <2>1, <2>2 DEF WakeInv
  <1>3. CASE ~RequestWake /\ ~Restart
    <2>1. UNCHANGED <<wakeFile, wakeSeen, queue, task, cancelled>>
      BY <1>3 DEF FocusChange, RequestControl, seen, job
    <2>2. ~JobFinish /\ ~JobCancelled
      BY <2>1 DEF JobFinish, JobCancelled
    <2>3. owed # "no" /\ ~excused /\ (owed' = "end" \/ owed # "end")
      BY <1>3, <2>2, Owing
    <2> QED
      BY <2>1, <2>3 DEF WakeInv, WakeRemembered, Alive
  <1> QED
    BY <1>1, <1>2, <1>3

LEMMA StepRemembers ==
    ASSUME IInv, WakeInv, [HNext]_<<vars, owed, excused>>
    PROVE  WakeInv'
  <1>1. CASE UNCHANGED <<vars, owed, excused>>
    BY <1>1 DEF vars, files, seen, job, WakeInv, WakeRemembered, Alive
  <1>2. CASE HNext
    <2>1. WakeRemembered'
      BY <1>2, SchedulerRemembers, ControllerRemembers, LoopRemembers, WorldRemembers
         DEF HNext, Next
    <2>2. owed' # "no" => wakeFile'
      <3>1. wakeFile => wakeFile'
        BY <1>2 DEF HNext, Next, SchedulerStart, SchedulerTick, ControlPoll, Loop, Take,
                    JobStart, JobFinish, JobCancelled, NextJob, LoopDies,
                    FocusChange, RequestWake, RequestControl, Restart, files
      <3>2. RequestWake => wakeFile'
        BY DEF RequestWake
      <3> QED
        BY <1>2, <3>1, <3>2, Owing DEF WakeInv
    <2>3. owed' = "end" => task' = "running"
      <3>1. ASSUME task = "running", task' # "running"
            PROVE  JobFinish \/ JobCancelled \/ Restart
        BY <1>2, <3>1 DEF HNext, Next, SchedulerStart, SchedulerTick, ControlPoll, Loop, Take,
                    JobStart, NextJob, LoopDies, FocusChange, RequestWake, RequestControl, job
      <3> QED
        BY <1>2, <3>1, Owing DEF WakeInv
    <2> QED
      BY <1>2, <2>1, <2>2, <2>3, Owing DEF WakeInv
  <1> QED
    BY <1>1, <1>2

\* Whatever is evicted, coalesced, preempted or restarted, the worker remembers a
\* wake until a cycle that started after it has ended, or the gate or a control
\* request has come in between (daemon/precompute_worker.py).
THEOREM WakeIsRemembered == HSpec => []WakeRemembered
  <1>1. HInit => IInv /\ WakeInv
    <2>1. HInit => WakeInv
      BY DEF HInit, WakeInv, WakeRemembered
    <2> QED
      BY <2>1, InitIInv DEF HInit
  <1>2. IInv /\ WakeInv /\ [HNext]_<<vars, owed, excused>> => (IInv /\ WakeInv)'
    <2>1. [HNext]_<<vars, owed, excused>> => [Next]_vars
      BY DEF HNext
    <2> QED
      BY <2>1, StepIInv, StepRemembers
  <1> QED
    BY <1>1, <1>2, PTL DEF HSpec, WakeInv

===============================================================================
