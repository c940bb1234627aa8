# Vaner in TLA+

Vaner predicts what a developer will ask next and prepares the answer while the
machine is idle. A daemon watches the working tree and the conversation, a
*precompute cycle* turns what it saw into predictions, gathers evidence for them
and drafts answers, and the prepared work is offered to editors and agents, who
may *adopt* it. Everything runs on one asyncio loop per process, with SQLite
behind it and a few threads and other processes beside it. What goes wrong in
such a program goes wrong between two awaits: this directory models the parts
where that matters, checks them with TLC, and proves with TLAPS, for instances of
any size, every safety property that holds of them.

All paths below are relative to `src/vaner/`.

## 1. The system

| Component | State it keeps | Operations | Talks to |
|---|---|---|---|
| Readiness machine (`intent/prediction.py`) | the table of legal transitions | `is_transition_allowed` | the registry |
| Prediction registry (`intent/prediction_registry.py`) | entries (readiness, weight, evidence, spent mark, artefacts, file hashes, probation), adoption queue | `merge`, `attach_*`, `record_*`, `transition`, `rebalance`, `apply_invalidation_signals`, `apply_item_state_delta`, `consume_pending_adoption_descriptors` | called by the cycle, its workers, the composer feed, HTTP and MCP |
| Precompute cycle (`engine.py`) | cycle counter, lists of staled and rolled-back ids, locals of the phases | sweep, bridge, reconcile, merge, prime, explore, draft, flush, confirm, refine | registry, frontier, stores, LLM clients |
| Adoption-outcome log (`store/prediction_adoption_outcomes.py`) | a table of adoptions: pending, confirmed, rejected, stale | create, list pending, resolve one, resolve by prediction | the cycle |
| Background refinement (`intent/deep_run_maturation.py`) | revision, failed revisits, probation window and snapshot of an entry | select, mature, roll back | registry, drafter, judge |
| Exploration frontier and governor (`intent/frontier.py`, `intent/governor.py`) | pending scenarios, heap, explored files, budget | push, pop, mark explored, saturation, charge | the dispatcher of the cycle |
| Precompute worker (`daemon/precompute_worker.py`) | bounded priority queue, current job and its task, last control and wake ids | enqueue, make room, preempt, control file, drain, run job | the engine (cancels its cycles), focus gate |
| Deep-run sessions (`intent/deep_run.py`, `store/deep_run.py`, parts of `engine.py`) | session rows in SQLite, the session each engine caches | start, stop, status, expire, resume on initialize, pause and resume | CLI, MCP, HTTP, the gates |
| Deep-run gates (`intent/deep_run_gates.py`) | of each process: the session published for routing, the spend counted for it | publish, arm, consume cost, locality | router, engine |
| Router and proxy (`router/proxy.py`, `router/backends.py`) | a JSON file with the fallback calls of the hour | forward: primary, then gates and budget, then fallback | gates, LLM servers |
| LLM endpoint pool (`clients/endpoint_pool.py`) | failure counters, cool-downs | choose, succeed, fail | LLM clients |
| Composer signals (`signals/codex.py`) | composer sessions | snapshot, cancel, abandon | the registry |
| Scenario store and memory policy (`store/scenarios/sqlite.py`, `memory/policy.py`, `intent/scenario_lifecycle.py`) | scenario rows: memory state, successes, contradiction, pin, visibility, corrections | upsert, record outcome or expansion, pin, promote, demote, merge a correction, refresh the lifecycle | daemon cycle, cockpit, CLI, `vaner.expand` and `vaner.feedback` of MCP servers |
| Prediction cache (`intent/cache.py`) | prepared packages | tiered lookup, store, expire | the router |
| Artefacts, work products, reconciliation, plan drafts, focus | rows and gates | upsert, supersede, defer | the cycle and the worker |
| Event bus (`events`) | subscriber queues | publish, subscribe | registry listener, HTTP |
| Broker, scoring, setup, CLI, cockpit, plug-ins | none, or files and screens | pure computation and I/O | |

`PROJECT.json` lists every component with what is modelled of it, and every
hazard met while reading, at its line.

What is hard in it:

- **Cancellation.** The worker cancels a cycle at any await when fresher work
  arrives. The exploration tasks the cycle had started are *not* cancelled with
  it: they finish inside later cycles, after sweeps their captures never saw.
- **Reads before an await.** The primer, the drafter, `mature_one` and the confirm
  sweep choose what to work on, await an LLM or the store, and then write without
  looking again.
- **Order of phases.** The adoption queue is written to the log at the end of a
  cycle; predictions are staled and their adoptions resolved at its top.
- **Evidence that moves.** Files are edited between any two steps; an entry
  remembers the hashes its artefacts were captured from.
- **Restarts and failing writes.** The log survives a restart, the registry and
  the queue do not, and a failing statement is swallowed.
- **Several clocks.** Confirmation depends on wall-clock age, probation on the
  cycle counter, neither on the other.
- **Several processes.** Commands, MCP servers, proxies and the daemon share one
  SQLite file, a budget file and control files. Each caches what it has read, checks
  in one transaction and writes in the next, and may die in between.

## 2. The modules

| Module | Models | Role |
|---|---|---|
| `Readiness` | `intent/prediction.py` | readiness states and the transition table |
| `PredictionRegistry` | registry with all its callers | detailed specification, properties |
| `PredictionRegistryProofs` | | TLAPS proofs about it |
| `AdoptionLog` | the promise of the outcome log | abstract specification |
| `AdoptionOutcomes` | queue, table, bridge, flush, confirm sweep, refinement | detailed specification, refines `AdoptionLog` |
| `AdoptionHistory` | | `AdoptionOutcomes` with a history variable |
| `AdoptionOutcomesProofs`, `AdoptionHistoryProofs` | | TLAPS proofs about them, the refinement included |
| `PrecomputeWorker` | the worker process: queue, loop, scheduler, controller, files | detailed specification, properties |
| `WorkerHistory` | | `PrecomputeWorker` with history variables |
| `PrecomputeWorkerProofs` | | TLAPS proofs about both |
| `Frontier` | `intent/frontier.py` | push, pop and mark-explored as operators on its record |
| `ExplorationQueue` | the promise of frontier and dispatcher together | abstract specification |
| `ExplorationLoop` | dispatcher, tasks and governor of the exploration phase | detailed specification, refines `ExplorationQueue` |
| `FrontierProofs`, `ExplorationLoopProofs` | | TLAPS proofs about them, the refinement included |
| `Clock` | `time.time()` as the hour | shared by the three modules below |
| `DeepRunStore` | the table of sessions, `store/deep_run.py` | one operator per statement |
| `RemoteBudget` | the budget file under its lock, `router/backends.py` | a component, instanced by `DeepRun` |
| `HourlyCounter` | the promise of the hourly budget | abstract specification, refined by `DeepRunHistory` |
| `DeepRun` | sessions, engines, gates and requests of all processes | composes the three, properties |
| `DeepRunHistory` | | `DeepRun` with history variables, properties |
| `DeepRunProofs` | | TLAPS proofs about both |
| `TrustLadder` | the promise of a scenario's memory | abstract specification |
| `ScenarioMemory` | the store with all its writers | detailed specification, refines `TrustLadder` |
| `CorrectionHistory` | | `ScenarioMemory` with history variables |
| `ScenarioMemoryProofs` | | TLAPS proofs about both |
| `MC...` | | instances for TLC |

How they fit: the worker runs the cycle as the job of `JobStart` .. `JobFinish`, and
its cancellations are `CyclePreempted`, the fault `"preempt"` and `Preempt` in the
three modules that model parts of the cycle. The exploration phase of
`ExplorationLoop` is what `WorkerAttach` .. `WorkerComplete` of `PredictionRegistry`
stand for, from the side of the registry. The scenario store and the deep-run
sessions share no state with these: the cycle only rebuilds the rows of the one
(`Rebuild`, `Listed`), and the gates of the other are read by the router alone.
Section 6 says why the parts of the cycle are not composed further.

### PredictionRegistry

`reg` is `_predictions`. The methods of the registry are operators from an entry
to an entry (`Transition`, `AttachScenario`, `RecordEvidence`, `AttachArtifact`,
`RecordAdoption`, `Staled`, `OnCommit`, `OnFileChange`, `OnCategoryShift`), as they
are synchronous; the actions are the callers, cut at their awaits:

| Action | Code |
|---|---|
| `CycleSweep` | `_apply_cycle_invalidation`: commit, file-change and category-shift signals, in this order, on every entry, then the rollback of each prediction on probation that one of them has touched |
| `CycleCutShort` | a cycle that is cancelled before its sweep: it has only raised the counter |
| `ItemStateDelta` | `apply_item_state_delta` for the deltas of a reconciled artefact |
| `MergeSpecs` | `merge`: the known stay, the new get a share of the weight |
| `PrimeStart`, `PrimeFinish`, `PrimeNothing` | `_prime_latest_history_query_prediction` around its await |
| `WorkerAttach`, `WorkerRecord`, `WorkerComplete` | the three critical sections of `_process_scenario`; a worker is bound to no phase once it has started |
| `DraftStart`, `DraftFinish`, `DraftFail` | `_precompute_predicted_responses` around its LLM call |
| `RefineStart`, `MatureStart`, `MatureDone` | `_run_background_refinement_pass`: the candidates are selected once; `mature_one` reads draft and evidence, awaits drafter and judge, and writes |
| `CycleEnd`, `CyclePreempted` | end and cancellation of a cycle |
| `ComposerSnapshot`, `Adopt`, `FileEdit` | composer feed, adoption endpoints, the developer |

A content hash is the version of the file it was taken from, a weight is a number
of shares, and `Rebalanced` is the *set* of populations the floating-point shares
may produce. The feed, the kind and the anchor of each prediction (`spec`) decide
which callers reach it, and whether it opts out of maturation (`matures`).

A probation window is the number of cycles it still lasts (`window`, counted down by
`Aged` when the cycle counter goes up), and `replaced` is the draft and the evidence
that the maturation has put away, as `mature_one` had read them before its awaits
(`held`). A rollback puts them back after the signals of the same sweep have cleared
the draft and refreshed the hashes, as `tests/test_engine/test_adoption_outcome_engine.py`
asserts. So what `SweepDropsMovedEvidence` promises of a live prediction whose evidence
has moved is `KeepsOnlyReplaced`: nothing prepared is left or, inside a probation
window, exactly the draft that the maturation had replaced. That draft is older than
the change, and the refreshed hashes make it look fresh to every later sweep; and if
`_precompute_predicted_responses` has written a newer draft inside the window, the
rollback undoes that one with the maturation.

The adoption queue, and the caps on revisions and failures, are left to
`AdoptionOutcomes`. The signals `stale_all`, `composer_cancelled`,
`composer_abandoned`, `artefact_superseded` and `adoption` are left out, because
nothing in the source sends them.

### AdoptionOutcomes and AdoptionLog

`AdoptionLog` says what the log promises for one adoption: it is queued, then
pending or lost, then resolved, once and for good. `AdoptionOutcomes` is the code:
the registry's queue, the rows, and the cycle cut into its phases, with a phase
split where a statement is awaited (`FlushOne` and `ConfirmOne` handle one row per
step; `ResolveStale` and `ResolveRejected` are one UPDATE each). Adoption, the
readiness of predictions and the ageing of rows may happen between any two of
them. The refinement pass selects its candidates up front and awaits a drafter and a
judge in `MatureStart` .. `MatureDone`. `Faults` says what may go wrong: `"store"`
(a statement raises and is swallowed), `"preempt"` (the cycle is cancelled and its
locals are gone), `"crash"` (only the rows survive). A probation window is kept as
the number of cycles it still lasts, so that the state space is finite.

The refinement mapping is `StateOf`: an adoption is `"pending"` or resolved when it
has a row, `"queued"` when the queue or the flush holds it, `"lost"` otherwise. When it
may be lost `AdoptionLog` leaves open; `LostOnlyByFault` says it: the queue survives
a cancelled cycle and a failing insert, and only what a flush has taken is at risk.

### PrecomputeWorker

| Action | Code |
|---|---|
| `SchedulerStart` | the start of `_schedule_periodic`: the startup job, if the gate admits it |
| `SchedulerTick(due)` | one turn of its loop: a wake it has not seen, then a periodic job |
| `ControlPoll` | `_watch_control`, `_handle_worker_control`, `_drain_queue` |
| `Take`, `NextJob`, `LoopDies` | `run_forever`: get a job, await its task, go on, or end with the error the await raised |
| `JobStart`, `JobFinish`, `JobCancelled` | `_run_job` in its own task: its first step asks the gate again; it catches a cancellation only once it has started |
| `RequestWake`, `RequestControl` | other processes overwrite the wake and control files |
| `FocusChange` | whatever `proactive_gate` reads changes |
| `Restart` | the process is started again: ids already acted on are forgotten, the files are not |

`Enqueue`, `Room` and `Preempts` are `enqueue` and `_make_room_for`; they never
await, so they are operators. `Room` yields a set because the code breaks the tie
among the worst jobs by sequence number, which is left out. Reading a file and
acting on it is one step, as no await lies in between. A job task exists before its
first step has run (`"created"`), which is where the loop can be killed.

`WorkerHistory` follows one wake (`owed`) to the end of a cycle that started after it,
and notes whether the gate or a control request came in between (`excused`).
`WakeRemembered` is the safety half of `WakeServed`: while a wake is owed without an
excuse, the file is unseen, a job waits, or one that nobody has cancelled is about to
start or is that cycle. A preempted job is not put back, so this relies on whatever
preempts it being in the queue; a restart drops the queue, so it relies on
`last_wake_id` not surviving.

### Frontier and ExplorationLoop

The frontier is one object used between awaits only, so its methods are operators
on the record of its fields. The heap is a set of entries ordered by priority and
push counter; entries are deleted lazily, as in the code: `Live` is what `pop` does
not skip. The floating-point priority is a number in `0..MaxPriority`, the
effective one after multiplier, boost and decay: any value may be pushed. Ratios
are compared as cross-multiplied integers.

| Action | Code |
|---|---|
| `Seed` | any of the seeders pushes a scenario |
| `StartExploring` | `set_effective_max_depth`, and on to the loop |
| `Dispatch`, `LeaveLoop` | one turn of the dispatcher's loop: guard, pop, create a task, and wait if the list is full |
| `Collect`, `Drained` | `asyncio.wait(FIRST_COMPLETED)` and the final `gather` |
| `TaskStart`, `TaskEnd` | `_process_scenario`: past the semaphore and the deadline, and the critical section that pushes branches, marks, charges |
| `Preempt` | the worker cancels the cycle at one of its awaits; `wait` leaves its tasks running, `gather` cancels them |
| `OrphanEnds` | a task of an earlier cancelled cycle appends to the engine's list of explored scenarios, which this cycle's deadline test reads |
| `UserRequest`, `DeadlinePasses` | `notify_user_request_start`/`_end`, wall clock |

`ExplorationQueue` says what they promise together: scenarios wait with a priority,
a free worker takes one of the best, and what has been explored does not wait any
more. `KeepsTheQueue` is that promise under the mapping `Waiting` (the pending
scenarios and their priorities), `Working` (what the tasks in flight hold), the
explored ids, and `Abandoned` (deadline passed or cycle cancelled). A push, whoever
makes it, only raises priorities; only an abandoned cycle lets go of what it has
taken. The promise does not say that a scenario is explored once: a task may push
one that another is exploring at the time, and a free task may take it before the
other marks it (hazard at `engine.py:2396`). How often that can happen is what
`RepeatsBounded` says: only tasks that held the scenario when the first one marked it
explore it again, so no oftener than tasks may be in flight; a bound of one for each
id is violated (with one explorer already).

Simplifications, all checked against the code: the state lock is never held across
an await, so it never blocks and is left out; the branch of the dispatcher for an
empty pop cannot be reached (`Bookkeeping` says why: a pending scenario has a live
entry); the modes `dedicated` and `deep_run` of the governor are its background mode
without user requests. What an exploration ends with is any set of files the merged
ranking may be cut to (`Evidence`): with the LLM, some file of the scenario may be
missing from it. Left out: what fills a scenario (evidence, briefing, drafts).

### Deep-Run: sessions, gates and the hourly budget

The callers are of three kinds. `Resident` calls go through the one long-lived
engine of `serve-http --with-engine`, which loads its session once. `OneShot` calls
(command line, MCP, HTTP without the engine) build an engine of their own. A
`Request` runs in a proxy process; if the proxy enriches (`Gateway`), it builds an
engine, too, whose `initialize` publishes a session for the whole process.

| Action | Code |
|---|---|
| `Begin`, `Select`, `Publish` | `initialize` and `_resume_deep_run_on_restart`: close what has expired; read the newest open session; cache, publish and arm the cost gate |
| `Create`, `Refused`, `Created` | `start_deep_run` around the `BEGIN IMMEDIATE` of `create_session` |
| `Stop`, `Stopped` | `stop_deep_run` around its UPDATE by id |
| `Evaluate` | `evaluate_deep_run_gates`: pause or resume the cached session (part of the engine's interface; nothing in the source calls it yet) |
| `Passthrough`, `Primary`, `PrimaryFails`, `Posted`, `Fallback`, `FallbackBlocked` | `forward_chat_completion_with_request`, with `_enforce_deep_run_gates_for_remote` before either call |
| `Lock`, `Reserve` | `_consume_remote_budget`: the flock and the read; the comparison, the replacement and the release, and the call posted if it is granted |
| `TimePasses` | the hour turns, a window closes |
| `ProxyDies`, `EngineDies` | a process is gone with what it held; the kernel releases its lock |
| `CallDies` | a command ends at an await, its process gone; or a call of the resident engine or the `initialize` of a request fails, on a locked database for example, and the engine keeps its cache |

What the code does that the model keeps: a response, of the primary or the fallback,
may be followed by a shadow sample, which is forwarded, gated and charged once more
(`_run_shadow_sample`); the hour is read before the lock is asked for; a caller waiting for the lock holds up its whole event loop (`Stalls`); a blocked
primary is taken for one that failed; a fresh counter is armed by every request of an
enriching proxy, at the persisted spend, which nothing flushes and so stays 0; a
session's row is updated whatever its status has become. Left out: base URLs on the
local machine, which pass no gate; pass counters and the pass log; the flush of the
spend and the cycle counter, which nothing calls.

`HourlyCounter` says what the budget is worth to its callers: one counter that grants
a call and counts it in a single step, and grants nothing if it cannot be read.
`CountsEveryCall` is that promise with the file as the counter and, as the calls
granted, the history `posted` of `DeepRunHistory`. It holds for late callers, too,
who count in the hour they had read; what fails for them is only the sum over an hour
of the clock (`late` in `HourlyBudget`).

### ScenarioMemory and TrustLadder

A step is one SQLite transaction, each of which begins with its write and so is
atomic, or one read. The daemon's rebuild (`Rebuild`, `Listed`), the outcomes and
pins of cockpit and command line (`Outcome`, `SetPinned`) are single steps. The two
MCP tools are not:

| Action | Code |
|---|---|
| `Praise`, `Blame` | the start of `vaner.feedback`: it reads the row and decides with `decide_promotion` or `decide_on_negative_feedback` |
| `Expand`, `RecordExpansion`, `Reread` | the start of `vaner.expand`, up to the state that it writes back |
| `Check`, `Promote`, `Demote` | `promote_scenario`, `demote_scenario`: read and validate on one connection, write on another |
| `ReadContext`, `Merge` | `merge_memory_section`: the correction is appended to what was read and all but the last `Kept` are dropped; a trusted memory is marked stale |
| `RecordOutcome`, `ListTop` | the last two writes of the call |
| `Dies` | the client or the server goes away between two of them |

The lifecycle of a row is computed again at the end of almost every transaction.
Its relevance is a weighted sum of data, so its verdict is a choice (`Refreshed`),
except that a pin forbids archiving. Successes are counted to the streak that
promotes and contradiction (in hundredths) to the limit that forbids it: nothing
looks beyond. A scenario keeps `Kept` corrections, 3 in the code and 1 in the run, so
that two calls are enough to see one dropped.

`TrustLadder` is the promise of `memory/policy.py` to one scenario: from candidate to
trusted, from there to stale or demoted, back only by a rebuild. The engine
implements it only with the action `Overwrite`, for a scenario that an overtaken call
is about to write: the store validates, but on another connection than the one that
writes. What the code keeps is that this is the *only* exception.

What the model shows and a reader of the policy may not expect: the daemon's upsert
keeps nothing of a row but its pin, so each cycle that rebuilds a scenario makes a
candidate of it and drops successes, contradiction and corrections; a promotion with
a correction in one feedback ends stale; "wrong" said of a stale memory raises
`InvalidMemoryTransition`; expanding a scenario that is not trusted drops the pin a
user has set; stale and demoted are left by a rebuild alone; the streak is a total
that no bad outcome resets.

## 3. The runs

| Run | Question | Bounds |
|---|---|---|
| `registry` (pass) | types, readiness, floor, drafting, monotonicity and sweep, under every interleaving of the cycle, orphaned workers, adoptions, edits | 2 predictions in two populations that between them reach every caller (a macro, which may be matured, with a composer intent; a history prompt with an item), 1 file with 2 versions that may be deleted and come back in the second, 1 scenario, 1 worker in flight, weights in {0, 1, 2} with floor 1, evidence 0 or 1, a probation window of the cycle after the maturation |
| `sweep_misses_edit` (violation) | does the sweep drop everything prepared from moved evidence? | the same |
| `adoption_log` (pass) | does the engine implement `AdoptionLog`? can a probation always be rolled back? is "stale" always true? what can lose an adoption? | 2 predictions, 2 adoptions, one row per confirm sweep, one revisit, probation of 2 cycles, all faults |
| `adoption_resolves` (pass) | is every adoption resolved in the end? does a logged contradiction stick? | the same without faults |
| `adoption_missed` (violation) | does every contradiction stick? | the same without faults |
| `rejected_unmatured` (violation) | is only a matured adoption rejected? | the same without faults |
| `worker` (pass) | is the queue bounded, are ids unique, is nothing urgent held up, refused or forgotten, whatever is cancelled, drained or deferred? | queue of 2, 5 job ids, 1 restart |
| `worker_dies` (violation) | does the worker survive every cancellation? | the same without restart |
| `exploration` (pass) | do the tables of the frontier agree, does the loop implement `ExplorationQueue` (best first included), is nothing lost or admitted again once explored, how often is it explored, how far is the budget overrun, does the cycle end? | 3 scenarios over 2 files (one overlaps both others), priorities 0..2 with floor 1, 2 pending at most, 1 explorer and so 2 tasks in flight, budget 1, depth 2 and a bonus of 1, 1 branch per exploration, a ranking cut to 1 file |
| `exploration_strands` (violation) | does the loop only end with nothing left to explore? | the same |
| `deep_run` (pass) | is one session active at most, does each gate hold and know the session in flight, is the hourly budget kept and every call counted as by `HourlyCounter`, does a session that is over stay over? | the resident engine, a command, two requests of an enriching proxy and one of a forwarding one, of which two or three are at work in a behaviour; 2 sessions, 2 hours, a cap of one call, with and without `local_only`, a budget of one call per hour |
| `scenario_memory` (pass) | does memory keep to the ladder, are pins and corrections kept, is only an overtaken call refused? | 1 scenario, 2 calls of any kind, interchangeable (symmetry), with the daemon, the cockpit and the command line beside them |

Why these bounds are enough to see the interesting cases: two predictions are what
it takes for a hash to hide behind another, for a signal to hit one and miss the
other, and for a backlog of rows; two versions and a deletion give every outcome of
a comparison; weight 2 with floor 1 is halved once to the floor and once below it;
one worker can outlive its cycle and run into every phase of the next; a window of one
cycle has a sweep inside it and one after it, and the macro can be drafted, matured,
drafted again and rolled back; a limit of one
row makes the confirm sweep leave rows behind. A queue of two holds jobs of different
priority, is full with one urgent and one periodic job, and with two urgent ones; five
ids are what two waiting jobs, one running job and the one named in the control file
leave a fresh one of; one restart suffices because it forgets everything but the
files. Three scenarios on two files make an id, a file set and an overlap coincide or
not; a ranking cut to one file drops a file of the scenario that has two, and may put
another in the place of the only one; a frontier of two is full with one task in
flight; two tasks in flight is the
least the code allows, and one task can propose what the other explores; a budget of
one is overrun by the second task. Two sessions are what it takes to resume one while
another is active; three groups of callers cover every pair that shares a variable
(engine and command the rows, a command and two requests the gate of a process, three
requests the budget file), and the requests of one process show a rival publishing an
older answer; two hours turn once while a caller waits for the lock. Rows of
scenarios meet nowhere but in `list_top`, which refreshes each by itself, so one
scenario is enough, and two calls are what one needs to overtake the other, while the
rebuild can overtake both. The largest runs have 1.1 million states (`registry`), 0.7
(`scenario_memory`), 0.6 (`deep_run`) and 0.3 (`exploration`). The
proofs of section 5 remove all these bounds, for all safety properties.

Deadlock is checked everywhere but in the exploration runs: there the model is one
cycle, which ends. That it does not get stuck before is `CycleEnds`. The two modules
with calls cannot stop, as requests may be made again and pins be set at any time.

### Fairness

Three runs check liveness, each under what the code's scheduling gives.

- `adoption_resolves`: weak fairness of `CycleStep` (the daemon starts a cycle whenever
  none is running and a cycle that is not cancelled goes from await to await to its
  end) and of `Age` (time passes). Cancelled cycles, crashes and failing statements
  are excluded there by `Faults = {}`: nothing in the code guarantees that a cycle is
  ever left to finish, and without that no adoption need ever be resolved.
- `worker`: weak fairness of the loop, the scheduler and the controller, which are
  tasks of one event loop; of the tick at which the interval has elapsed; and of the
  end of a job, as its cycle is bounded by budget and client timeouts. `WakeServed`
  states its hypotheses itself, since the code cannot give them: the gate stays open,
  no control request keeps arriving, and the worker lives. No fairness is
  assumed of requests, focus changes or restarts.
- `exploration`: weak fairness of the dispatcher and of its tasks together. The
  deadline need not pass, users need not stop, and the seeding need not end, which is
  the hypothesis of `CycleEnds`.

`DeepRun` and `ScenarioMemory` assume no fairness and state no liveness, because the
code gives none: nothing closes a session whose window has ended until some engine
initializes, a resident engine may never do so again, and a scenario is left stale
until a rebuild that nobody owes it.

## 4. Where code and documentation disagree

- **`sweep_misses_edit`.** The sweep keeps one hash per path, that of the last
  prediction enrolled among its watchers, and a comment (`engine.py:3569`) says all of
  them captured the file at the same time. They need not have: predictions live
  across cycles. An older prediction then keeps a briefing made from content that is
  gone. `SweepDropsMovedEvidence` is the property with the comment's assumption made
  explicit; it holds, and is proved. Neither counts the draft that a rollback gives
  back, which a test asserts (section 2).
- **`adoption_missed`.** An adoption on the queue when its prediction is staled is not
  in the table yet, so the UPDATE misses it; it is flushed as pending later and
  confirmed in the end. `LoggedContradictionSticks` is what does hold.
- **`rejected_unmatured`.** `mature_one` writes after its awaits without looking
  again: a prediction adopted meanwhile is matured although adopted predictions are no
  candidates, and a rollback then rejects the adoption of a draft that was never
  matured.
- **`worker_dies`.** A job's task that is cancelled before its first step never enters
  the handler in `_run_job`. The error comes out of the bare await in `run_forever`
  and ends the process, which its docstring calls long-lived and its supervisor
  starts once. It takes a scheduler or controller step between the creation of the
  task and its first step.
- **`exploration_strands`.** The frontier counts as saturated as soon as nothing is
  pending, also when tasks are in flight that are about to push branches. The loop
  then ends and the branches are dropped with the frontier, with time and budget
  left, although two comments and a branch of the loop (the empty pop, which cannot
  be reached) are about waiting for them.

Two claims of a docstring are not checked by a run, because the model says plainly that
they fail: the cap on the cost of a session holds for one arming of a gate only, and
each request of an enriching proxy arms it anew (`reset_cost_gate`,
`intent/deep_run_gates.py:204`). `GateWithinCap` and `CapsHold` are therefore about
what was charged *since the gate was armed*; nothing here bounds what a session
spends over its life.

## 5. The proofs

`PredictionRegistryProofs` proves, for every number of predictions, scenarios, files,
workers and versions, and for all thresholds:

| Theorem | Says |
|---|---|
| `TypeCorrect` | `Spec => []TypeOK` |
| `ReadyPrepared` | `Spec => []ReadyIsPrepared` |
| `FloorKept` | `Spec => []OnlyStallStarves` |
| `NeverLeftDrafting` | `Spec => []DraftingNeverRests` |
| `Monotone` | `Spec => NeverRegresses` |
| `SweepIsThorough` | `Spec => SweepDropsMovedEvidence` |

The only assumption is `RegistryAssumption` of `PredictionRegistry` (natural-number
bounds, the floor at most the whole, populations of well-formed specs).

The argument. None of the state properties is inductive with respect to single
entries as they are written, because a handler passes through entries that violate
them (a prediction is in `drafting` between two calls). The invariant `IInv` is
`TypeOK` and `Sound(p, reg[p])` for every entry: an enrolled entry is not drafting,
is prepared or invalidated when ready, and is at or above the floor unless it is an
item hit by a delta. A step changes an entry *legally* (`Legal`) when the result is
sound again, well typed, and has climbed (`Climbs`: rank not lower, spent mark kept). One
lemma per method or call sequence shows it legal (`BriefedLegal`, `PrimedLegal`,
`OnFileChangeLegal`, ...); `LegalChain` composes them, which is what the sweep needs;
`StepIsLegal` has one case per action. `IInv` being inductive and `NeverRegresses`
follow from that one lemma, and `TypeStep` adds the variables other than the
table. Three facts make the rollback legal, whatever draft it gives back: a sweep that
touches a prediction stales it or leaves a reason of invalidation (`SignalledEffect`,
from `StaledMarks`, `OnCommitMarks`, `OnFileChangeMarks` and `OnCategoryShiftMarks`), so
a ready prediction may be left with nothing; a rollback moves neither readiness nor
weight (`RolledBackLegal`); and so the whole of a sweep is a legal change
(`SweptIsLegal`). `SweepIsThorough` needs a fact of its own: `LastWatcher` is well
defined (`LastExists`, by well-foundedness), so if the watchers agree, a moved file is
in `ChangedFiles` (`MovedIsChanged`), and `SweptEntry` follows the three signals and the
rollback through.

`PrecomputeWorkerProofs`, for every queue size and set of ids:

| Theorem | Says |
|---|---|
| `TypeCorrect` | `Spec => []TypeOK`: the queue is never overfull, no two jobs share an id |
| `UrgentIsFirst` | `Spec => []UrgentFirst` |
| `WakeIsAdmitted` | `Spec => UrgentAdmitted` |
| `WakeIsRemembered` | `HSpec => []WakeRemembered` |

The assumption is `WorkerAssumption`: a queue of at least one place, and more ids than
the queue, the running job and the control file can hold, which stands for fresh UUIDs. The invariant `IInv` is
`TypeOK` and `Good(queue, cancelled)`, which is `UrgentFirst` with the queue and the
cancelled mark as parameters: a tick of the scheduler enqueues twice, and what lies
between the two is no state. `RoomFits` and `FreshIdIsFree` show that `Enqueue` keeps
the size and the ids, `EnqueueGood` that a preempting job marks what it preempts.
For `WakeIsAdmitted`, `CoalescedWithEqual` says a job is only refused when the queue is
full of jobs at least as urgent, so a refused wake finds another one waiting;
`PeriodicIsModest` that the periodic job of the same tick throws out nothing urgent.
For `WakeIsRemembered`, `WakeInv` adds that a wake file is never taken away and that
the cycle a wake waits for is the one running. `SchedulerFills` (a tick leaves the
queue alone or not empty) covers preemption, `TickAdmits` the tick that sees the wake.

`FrontierProofs` and `ExplorationLoopProofs`, for every concurrency, budget, set of
scenarios, file sets and content of the frontier:

| Theorem | Says |
|---|---|
| `BudgetOverrunBounded` | `Spec => []BudgetKept` |
| `TypeCorrect` | `Spec => []TypeOK` |
| `TablesAgree` | `Spec => []Bookkeeping` |
| `ExploredOnce` | `Spec => []NeverReenters` |
| `AdmittedIsKept` | `Spec => []NothingLost` |
| `RepeatsAreBounded` | `Spec => []RepeatsBounded` |
| `ImplementsTheQueue` | `Spec => KeepsTheQueue`, the refinement of `ExplorationQueue` |

`BudgetKept` is not inductive: it says nothing about where the units went.
`Accounted` does (in budget mode the units left are the budget less the
explorations, or none), and `RoomWhileLooping` (the dispatcher holds the event
loop only with a place free) bounds what is in flight when it spawns one more with a
unit left. `Typed` is the part of the types the argument needs; it says nothing
about the frontier, whose consistency plays no part in it.

The consistency of the frontier is `Good(f)`: its fields are typed (`FieldsOK`), what
is pending is as pushed and not explored (`PendingOK`), and each pending scenario has
the one entry that counts in the heap, the newest of its entries (`HeapOK`). One lemma
per method shows that it keeps it (`PushGood`, `AfterPopGood`, `MarkExploredGood`,
`CapGood`). That a non-empty heap has a top, and that what `pop` yields is the best,
needs a least element of a set of numbers (`Least`, from the library's theorem on
finite subsets). A task pushes its branches one after the other, a recursive
function: the prover has no induction, but the *least* prefix after which the
frontier is not as it should be exists by `Least`, and `PushGood` refutes it
(`PushAllDefined`, `PushAllKeeps`). `LInv` adds the types of what
the tasks hold and `NothingLost`, which is inductive with them.

`RepeatsBounded` is not inductive: tasks in flight may still be about to repeat what
has been marked. `Repeats` counts these (`Repeating`) as if they were done. The task
that marks a scenario first adds at most the other slots to them, and the id it marks
pays for all slots; a later one was counted already; and what `Dispatch` takes is
unexplored, so it never adds to them. The bound is a product with the number of ids
explored, whose set is shown finite on the way (nothing says that `Id` is).

`ImplementsTheQueue` follows action by action. That a push lowers nobody
(`NoneLowered`) is a fact about each frontier method, carried through the branches of
a task by the same argument on the least prefix (`NoneLoweredTwice` is its step). What
`pop` yields is the best (`PoppedIsBest`), restated on priorities (`DispatchTakes`); `ExploredDoesNotWait` turns `NeverReenters` into the mapping's terms;
and the steps that free a slot without marking are shown to be those of an abandoned
cycle (`TaskStartLetsGo`). `LoopAssumption` is used for the numbers being natural and
the concurrency positive.

`AdoptionOutcomesProofs` and `AdoptionHistoryProofs`, for any number of predictions
and adoptions, and with every fault unless said:

| Theorem | Says |
|---|---|
| `TypeCorrect` | `Spec => []TypeOK` |
| `ProbationSound` | `Spec => []ProbationCanRollBack` |
| `StaleIsTrue` | `Spec => StaleMeansStaled` |
| `RecordedOnce` | `Spec => []OneRecordEach` |
| `ImplementsTheLog` | `Spec => KeepsTheLog`, the refinement of `AdoptionLog` |
| `OnlyFaultsLose` | `Spec => LostOnlyByFault` |
| `NothingLostWithoutFaults` | if `Faults = {}`, `Spec => [](\A a : StateOf(a) # "lost")` |
| `ContradictionIsFinal` | if `Faults = {}`, `HSpec => []LoggedContradictionSticks` |

`TInv` is `TypeOK` with what selection guarantees while the refinement pass is under
way (`Refining`): what is to be matured has a revision left. `StaleMeansStaled` needs
`HandedOver`: what the sweep has put on the list of staled ids stays stale until the
UPDATE. `OneRecordEach` needs `Apart`: the numbers of the adoptions on the queue, among
the drained and in the rows are pairwise different and were all given out. For the
refinement, `LogStep` says what a step may do to the records of all adoptions (one
enters, one moves on, some are resolved, what is not written is lost), `Standing`
gives `StateOf` for an adoption in each of its places without the choice in its
definition, and `OneArrow` puts them together: the adoption takes a step of
`AdoptionLog` or none. `OnlyFaultsLose` adds which steps let go of a record (`WaitingKept`):
a flush begins only when the one before has been emptied, which is part of `Apart`.
`LoggedContradictionSticks` holds by `Verdicts`: a row the sweep
has contradicted is resolved against, or is pending and its prediction still on a list
of the cycle under way. The assumption is `OutcomesAssumption`.

`DeepRunProofs`, for any number of engines, calls, proxies and sessions and every
policy, with processes dying at any step:

| Theorem | Says |
|---|---|
| `TypeCorrect` | `Spec => []TypeOK` |
| `AtMostOneActive` | `Spec => []OneActive` |
| `CapsHold` | `Spec => []GateWithinCap` |
| `OverStaysOver` | `Spec => OverIsOver` |
| `BudgetHolds` | `HSpec => []HourlyBudget` |
| `ImplementsTheCounter` | `HSpec => CountsEveryCall`, the refinement of `HourlyCounter` |
| `GatesAreCurrent` | `HSpec => []GatesSeeTheSession` |

`IInv` is `TypeOK`, `OneActive`, `GateWithinCap` and `Referenced`: whatever is cached,
held or published names a row that exists, without which a policy could not be
looked up. The hourly budget rests on `BudgetInv`: who is about to replace the file
holds the lock and has read the file as it is, and the calls posted in this hour are
counted in it. The same invariant gives `ImplementsTheCounter`: with the lock held, the
read, the comparison and the replacement of one caller are one step of the counter
(`GrantCounts`), and no other step touches the file (`HolderKept`).
`GatesSeeTheSession` rests on `GateInv`: for an undisturbed request,
what any request of its process is *about* to publish is the newest session, too;
and once the request is past `initialize` the gate has it. The hypotheses `late` and
`rival` of the two properties are needed: without the one, a caller that waited across
the turn of the hour counts in the old hour and sets the counter back; without the
other, a request that read the store earlier publishes its older answer last. The
assumptions are `ClockAssumption`, `StoreAssumption` and `DeepRunAssumption`.

`ScenarioMemoryProofs`, for any number of scenarios, of calls at work on them and of
corrections kept (`KeptAssumption`: at least one):

| Theorem | Says |
|---|---|
| `TypeCorrect` | `Spec => []TypeOK` |
| `PinnedStaysShown` | `Spec => []PinnedIsShown` |
| `TableHolds` | `Spec => TableUnlessTorn` |
| `RefusalsJustified` | `Spec => RefusedOnlyIfOvertaken` |
| `KeepsLadder` | `Spec => KeepsToTheLadder`, the refinement of `TrustLadder` |
| `CorrectionsStay` | `HSpec => []CorrectionsKept` |

`IInv` adds `Decided` to types and pins: the state a call is going to write is legal
from the one it decided from, and after the store's check also from the one the store
has read. The lemma `NextStep` proves it inductive and shows at once the `Effect` of the
step: one scenario at most is rebuilt, moved by the call that was writing, or
corrected, and the others keep memory and corrections. The other theorems read that
one lemma. `CorrectionsStay` rests on `LastOfAppend`: to append to what is kept and cut
off the oldest gives what is kept of all corrections there have been.

Only model-checked is liveness (`EveryAdoptionResolved`, `WakeServed`, `CycleEnds`):
fairness and `ENABLED` are out of reach of the prover. Of the first two the safety half
is proved: what is waited for is not forgotten on the way (`NothingLostWithoutFaults`,
`WakeIsRemembered`). The properties of the five
violation runs do not hold, so there is nothing to prove.

## 6. What is left out, and why

**Composition.** The modules of the cycle model the same phases from the side of what
each changes: the registry, the log, the frontier. They meet in few places, and each
has the other's effect as a choice: the log sees predictions turn ready or stale at
any time, the exploration an orphan ending at any time, the registry a worker at any
time. That is more than the other module does, so safety carries over. A product of
two of them is beyond the five minutes a run should take, at the bounds that
section 3 gives reasons for, and would show liveness at best.

**A busy database.** Two writers of one SQLite file wait for each other up to a timeout
and then fail with "database is locked". A statement that fails this way is modelled
where the code goes on after it (the fault `"store"` of the adoption log) and where the
exception ends the call with what it had written before (`CallDies` of `DeepRun`, `Dies`
of `ScenarioMemory`: the step of a caller that ends there, for whatever reason). A
failing UPDATE of `evaluate_deep_run_gates` changes nothing. Statements of the
precompute cycle other than those of the adoption log do not fail in any model.

**Properties not stated.** Several hazards of `PROJECT.json` say in their note what is not
covered, or not true. The cap on the cost of a session in particular holds per arming
of a gate, not per session, although the docstring of `reset_cost_gate`
(`intent/deep_run_gates.py:204`) says that arming for the same id changes nothing.
An open question for the code's authors: an upgrade of a pending scenario skips the
depth cap and the priority threshold that a new one must pass. Whether that is meant
is not documented, so no property states it.

**Not modelled.**

- Data without state: ranking, packing and formatting of context, scores and arcs,
  embeddings and their similarity (prediction cache), text matching (reconciliation),
  translation of payloads. What they decide is a choice in the modules that use them.
- One statement per method: the tables of artefacts, signals and work products
  (`store/artefacts.py`); listing, counters and logs of sessions.
- Files and screens: setup wizard, configuration, command line, cockpit, plug-ins,
  file watching, supervision of processes, metrics. These are most of the repository's
  lines, and have no behaviour that a bounded model could tell apart: the
  definitions here stand for some 4500 lines, about a fifteenth of the implementation,
  and the part of it where steps of several actors meet.
- Small machines of one actor: failures and cool-downs of LLM endpoints, plan drafts,
  composer sessions, the fan-out of events for display.
- Code without a caller: `mark_stale_by_evidence`, `decide_invalidation`, `decide_reuse`
  and `detect_conflict` of the scenario memory, the flush of a session's spend, the
  signals of the registry named in section 2.
