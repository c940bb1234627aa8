------------------------------- MODULE DeepRun -------------------------------
(***************************************************************************)
(* Deep-Run sessions as the processes of a repository see them: calls that *)
(* start, stop or ask for a session, each on an engine that caches what it *)
(* read from the store, and the requests of proxy processes, whose remote  *)
(* calls pass the locality gate, the cost gate and the hourly budget of    *)
(* fallbacks.                                                              *)
(*                                                                         *)
(* A step is the code between two awaits, with the SQL statement it awaits.*)
(* Both base URLs of a proxy are remote (a local one passes no gate).  The *)
(* pointer of the router and the session of the cost gate are always       *)
(* published together, so they are one variable; in a process without a    *)
(* router nobody reads it and it is left out.                              *)
(***************************************************************************)
EXTENDS DeepRunStore

CONSTANTS
    Resident,    \* calls served by the one long-lived engine (serve-http --with-engine)
    OneShot,     \* calls that build an engine of their own (CLI, MCP, serve-http)
    Request,     \* requests of proxies
    Proxy,       \* proxy processes
    Gateway,     \* the proxies that enrich: an engine of its own for every request
    ProxyOf,     \* the process of each request
    MaxPerHour

ASSUME DeepRunAssumption ==
    /\ Resident \cap (OneShot \cup Request) = {}
    /\ OneShot \cap Request = {}
    /\ "nobody" \notin Request
    /\ Gateway \subseteq Proxy
    /\ ProxyOf \in [Request -> Proxy]
    /\ MaxPerHour \in Nat

VARIABLES
    engine,   \* the resident engine: what it caches
    gate,     \* of each proxy: the session published, and what the gate counted
    pc,       \* where each call stands
    op,       \* what it is for
    held,     \* the session it has read, created or is stopping
    file, lock, stamp, seen

B == INSTANCE RemoteBudget WITH Caller <- Request

Call == Resident \cup OneShot \cup Request
budgetVars == <<file, lock, stamp, seen>>
calls == <<pc, op, held>>
vars == <<now, sessions, engine, gate, calls, budgetVars>>

Ops(c) == IF c \in Request THEN {"request"} ELSE {"start", "stop", "status"}
Places == {"idle", "selecting", "publishing", "creating", "created",
           "stopping", "stopped", "primary", "posted", "fallback", "locking", "reserving"}

Snapshot == [session : Session \cup {None}, paused : BOOLEAN]
Nothing == [session |-> None, paused |-> FALSE]
Fresh == [loaded |-> FALSE, cached |-> Nothing]
Disarmed == [session |-> None, spent |-> 0]

Init ==
    /\ now = 0
    /\ SessionsInit
    /\ engine = Fresh
    /\ gate = [p \in Proxy |-> Disarmed]
    /\ pc = [c \in Call |-> "idle"]
    /\ op = [c \in Call |-> "none"]
    /\ held = [c \in Call |-> Nothing]
    /\ B!BudgetInit

\* A request in the hourly budget holds up its whole event loop: flock blocks.
Stalls(r) == pc[r] \in {"locking", "reserving"}
Runs(c) == c \in Request =>
             \A r \in Request \ {c} : ProxyOf[r] = ProxyOf[c] => ~Stalls(r)

At(c, place) == pc[c] = place /\ Runs(c)
Goto(c, place) == pc' = [pc EXCEPT ![c] = place] /\ UNCHANGED op
Holding(c, h) == held' = [held EXCEPT ![c] = h]

\* Where a call goes on once its engine is initialized and caches s.
AfterInitialize(what, s) ==
    CASE what = "start"   -> "creating"
      [] what = "stop"    -> IF s.session = None THEN "idle" ELSE "stopping"
      [] what = "status"  -> "idle"
      [] what = "request" -> "primary"

GoOn(c, what, s) ==
    /\ pc' = [pc EXCEPT ![c] = AfterInitialize(what, s)]
    /\ op' = [op EXCEPT ![c] = "none"]
    /\ Holding(c, IF what = "stop" THEN s ELSE Nothing)

-----------------------------------------------------------------------------
(* VanerEngine.initialize, as far as Deep-Run goes.                        *)

\* A call begins.  The resident engine loads once, and a proxy that does not
\* enrich builds no engine; any other engine closes what has expired first.
Begin(c, what) ==
    LET loaded == c \in Resident /\ engine.loaded
        ungated == c \in Request /\ ProxyOf[c] \notin Gateway
    IN  /\ At(c, "idle") /\ what \in Ops(c)
        /\ IF loaded \/ ungated
           THEN /\ GoOn(c, what, IF loaded THEN engine.cached ELSE Nothing)
                /\ UNCHANGED sessions
           ELSE /\ pc' = [pc EXCEPT ![c] = "selecting"]
                /\ op' = [op EXCEPT ![c] = what]
                /\ sessions' = Closed
                /\ UNCHANGED held
        /\ UNCHANGED <<now, engine, gate, budgetVars>>

Select(c) ==
    /\ At(c, "selecting")
    /\ \E s \in Session \cup {None} :
        /\ IsNewest(s)
        /\ Holding(c, [session |-> s, paused |-> s # None /\ sessions[s].status = "paused"])
    /\ Goto(c, "publishing")
    /\ UNCHANGED <<now, sessions, engine, gate, budgetVars>>

ArmedOnce(g, s) == IF g.session = None THEN [session |-> s, spent |-> 0] ELSE g  \* mutant

\* set_active_session_for_routing and reset_cost_gate: a new counter each time.
Armed(g, s) == [session |-> s, spent |-> 0]

\* The end of _resume_deep_run_on_restart.
Publish(c) ==
    /\ At(c, "publishing")
    /\ engine' = IF c \in Resident
                 THEN [loaded |-> TRUE, cached |-> held[c]] ELSE engine
    /\ gate' = IF c \in Request
               THEN [gate EXCEPT ![ProxyOf[c]] = Armed(@, held[c].session)] ELSE gate
    /\ GoOn(c, op[c], held[c])
    /\ UNCHANGED <<now, sessions, budgetVars>>

-----------------------------------------------------------------------------
(* start_deep_run, stop_deep_run, evaluate_deep_run_gates                  *)

\* The window may have closed already: ends_at is not looked at.
Create(c) ==
    /\ At(c, "creating")
    /\ MayInsert
    /\ \E s \in Session, ends \in Windows, policy \in Policies :
        /\ sessions[s].status = "unborn"
        /\ \A t \in Session : t < s => sessions[t].status # "unborn"
        /\ sessions' = Inserted(s, ends, policy)
        /\ Holding(c, [session |-> s, paused |-> FALSE])
    /\ Goto(c, "created")
    /\ UNCHANGED <<now, engine, gate, budgetVars>>

\* DeepRunActiveSessionExistsError, or the bound on sessions.
Refused(c) ==
    /\ At(c, "creating")
    /\ MayInsert => \A s \in Session : sessions[s].status # "unborn"
    /\ Goto(c, "idle")
    /\ UNCHANGED <<now, sessions, engine, gate, held, budgetVars>>

Cache(c, s) ==
    engine' = IF c \in Resident THEN [engine EXCEPT !.cached = s] ELSE engine

Created(c) ==
    /\ At(c, "created")
    /\ Cache(c, held[c])
    /\ Holding(c, Nothing) /\ Goto(c, "idle")
    /\ UNCHANGED <<now, sessions, gate, budgetVars>>

\* The UPDATE is by id: whatever the row's status has become.
Stop(c) ==
    /\ At(c, "stopping")
    /\ sessions' = WithStatus(held[c].session, "over")
    /\ Goto(c, "stopped")
    /\ UNCHANGED <<now, engine, gate, held, budgetVars>>

Stopped(c) ==
    /\ At(c, "stopped")
    /\ Cache(c, Nothing)
    /\ Holding(c, Nothing) /\ Goto(c, "idle")
    /\ UNCHANGED <<now, sessions, gate, budgetVars>>

\* The resource gates pause and resume the session the engine caches, unless
\* status and reasons are what it has already; the unique index may object.
Evaluate(constrained, otherReasons) ==
    LET s == engine.cached
        status == IF constrained THEN "paused" ELSE "active"
    IN  /\ s.session # None
        /\ s.paused # constrained \/ (constrained /\ otherReasons)
        /\ IndexAdmits(s.session, status)
        /\ sessions' = WithStatus(s.session, status)
        /\ engine' = [engine EXCEPT !.cached.paused = constrained]
        /\ UNCHANGED <<now, gate, calls, budgetVars>>

-----------------------------------------------------------------------------
(* forward_chat_completion_with_request                                    *)

Policy(g) == sessions[g.session].policy

AdmitsFullGate(g) ==      \* mutant: the cap is compared before the charge
    g.session # None => ~Policy(g).localOnly /\ g.spent <= Policy(g).cap

\* _enforce_deep_run_gates_for_remote
Admits(g) ==
    g.session # None => ~Policy(g).localOnly /\ g.spent + 1 <= Policy(g).cap

\* try_consume_cost, at the estimated cost of one call.
Charged(g) == IF g.session = None THEN g ELSE [g EXCEPT !.spent = @ + 1]

Charge(r) == LET p == ProxyOf[r] IN
    Admits(gate[p]) /\ gate' = [gate EXCEPT ![p] = Charged(@)]

\* With an Authorization header a gateway passes the call through, ungated.
Passthrough(r) ==
    /\ At(r, "primary") /\ ProxyOf[r] \in Gateway
    /\ Goto(r, "idle")
    /\ UNCHANGED <<now, sessions, engine, gate, held, budgetVars>>

Primary(r) ==
    /\ At(r, "primary")
    /\ Charge(r)
    /\ Goto(r, "posted")
    /\ UNCHANGED <<now, sessions, engine, held, budgetVars>>

\* Blocked, or without credentials: either is taken for a failure of the primary.
PrimaryFails(r) ==
    /\ At(r, "primary")
    /\ Goto(r, "fallback")
    /\ UNCHANGED <<now, sessions, engine, gate, held, budgetVars>>

\* The response, an error, or a response and a shadow sample that is forwarded
\* the same way.
Posted(r) ==
    /\ At(r, "posted")
    /\ \E next \in {"idle", "fallback", "primary"} : Goto(r, next)
    /\ UNCHANGED <<now, sessions, engine, gate, held, budgetVars>>

\* The gates again, then the hourly budget; none of it awaits.
Fallback(r) ==
    /\ At(r, "fallback")
    /\ Charge(r)
    /\ B!Ask(r)
    /\ Goto(r, "locking")
    /\ UNCHANGED <<now, sessions, engine, held>>

FallbackBlocked(r) ==
    /\ At(r, "fallback") /\ ~Admits(gate[ProxyOf[r]])
    /\ Goto(r, "idle")
    /\ UNCHANGED <<now, sessions, engine, gate, held, budgetVars>>

Lock(r) ==
    /\ At(r, "locking")
    /\ B!LockAndRead(r)
    /\ Goto(r, "reserving")
    /\ UNCHANGED <<now, sessions, engine, gate, held>>

\* Granted, the call is posted at once, and a shadow sample may follow it as well;
\* refused, the request fails.
Reserve(r) ==
    /\ At(r, "reserving")
    /\ B!ReplaceAndUnlock(r)
    /\ \E next \in {"idle", "primary"} :
          Goto(r, next) /\ (next = "primary" => B!Grants(r))
    /\ UNCHANGED <<now, sessions, engine, gate, held>>

-----------------------------------------------------------------------------
(* The clock, and processes that die                                       *)

TimePasses == Tick /\ UNCHANGED <<sessions, engine, gate, calls, budgetVars>>

Lost(dead) ==
    /\ pc' = [c \in Call |-> IF c \in dead THEN "idle" ELSE pc[c]]
    /\ held' = [c \in Call |-> IF c \in dead THEN Nothing ELSE held[c]]
    /\ op' = [c \in Call |-> IF c \in dead THEN "none" ELSE op[c]]

ProxyDies(p) ==
    LET dead == {r \in Request : ProxyOf[r] = p}
    IN  /\ Lost(dead)
        /\ B!Forget(dead)
        /\ gate' = [gate EXCEPT ![p] = Disarmed]
        /\ UNCHANGED <<now, sessions, engine>>

EngineDies ==
    /\ Lost(Resident)
    /\ engine' = Fresh
    /\ UNCHANGED <<now, sessions, gate, budgetVars>>

\* A statement of the call fails ("database is locked"), the call is cancelled at
\* an await, or its process is gone.  A resident engine keeps its cache; a request
\* ends this way while initialize reads the store.
CallDies(c) ==
    /\ pc[c] # "idle" /\ (c \in Request => At(c, "selecting"))
    /\ Lost({c})
    /\ UNCHANGED <<now, sessions, engine, gate, budgetVars>>

-----------------------------------------------------------------------------
Initialize(c) == (\E what \in Ops(c) : Begin(c, what)) \/ Select(c) \/ Publish(c)

Lifecycle(c) == Create(c) \/ Refused(c) \/ Created(c) \/ Stop(c) \/ Stopped(c)

Forward(r) == Passthrough(r) \/ Primary(r) \/ PrimaryFails(r) \/ Fallback(r)
              \/ FallbackBlocked(r) \/ Lock(r) \/ Reserve(r) \/ Posted(r)

Next ==
    \/ \E c \in Call : Initialize(c)
    \/ \E c \in Resident \cup OneShot : Lifecycle(c)
    \/ \E r \in Request : Forward(r)
    \/ \E constrained, otherReasons \in BOOLEAN : Evaluate(constrained, otherReasons)
    \/ TimePasses
    \/ \E p \in Proxy : ProxyDies(p)
    \/ EngineDies
    \/ \E c \in Call : CallDies(c)

Spec == Init /\ [][Next]_vars

-----------------------------------------------------------------------------
TypeOK ==
    /\ now \in Hour
    /\ sessions \in [Session -> Row \cup {Unborn}]
    /\ engine \in [loaded : BOOLEAN, cached : Snapshot]
    /\ gate \in [Proxy -> [session : Session \cup {None}, spent : Nat]]
    /\ pc \in [Call -> Places]
    /\ op \in [Call -> {"none", "start", "stop", "status", "request"}]
    /\ held \in [Call -> Snapshot]
    /\ file \in B!File
    /\ lock \in Request \cup {"nobody"}
    /\ stamp \in [Request -> Hour]
    /\ seen \in [Request -> B!File]

\* Whatever is started, stopped, paused and resumed by however many processes,
\* at most one session is active (store/deep_run.py, HIGH-4).
OneActive == \A s, t \in Active : s = t

\* What was charged since a gate was armed is within the cap of its session; a
\* session that is local_only, or has no cap, was charged nothing.
GateWithinCap ==
    \A p \in Proxy : gate[p].session # None =>
        gate[p].spent <= IF Policy(gate[p]).localOnly THEN 0 ELSE Policy(gate[p]).cap

\* Who knows of s: a call, or the cache of the resident engine.
Known(s) == engine.cached.session = s \/ \E c \in Call : held[c].session = s

\* A session that is over and that no call and no cache still holds is never
\* picked up again: not by an engine that starts, nor by the resource gates.
OverIsOver ==
    [][\A s \in Session : Over(s) /\ ~Known(s) => (Over(s) /\ ~Known(s))']_vars

==============================================================================
