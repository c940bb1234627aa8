---------------------------- MODULE DeepRunProofs ----------------------------
(***************************************************************************)
(* Proofs about DeepRun and DeepRunHistory, for any number of processes,   *)
(* calls and sessions and for every policy: one active session at most,    *)
(* gates within their caps, sessions that stay over, gates that are those  *)
(* of the session in flight, and the hourly budget.                        *)
(***************************************************************************)
EXTENDS DeepRunHistory, TLAPS

BornSession(s) == s # None => sessions[s].status # "unborn"

CallKnows(c) ==
    /\ BornSession(held[c].session)
    /\ pc[c] = "stopping" => held[c].session # None
    /\ pc[c] \in {"selecting", "publishing"} => op[c] # "none"

\* Every reference to a session is to a row that has been inserted; a call that
\* is to stop a session has one; a call that initializes knows what it is for.
Referenced ==
    /\ BornSession(engine.cached.session)
    /\ \A p \in Proxy : BornSession(gate[p].session)
    /\ \A c \in Call : CallKnows(c)

\* The inductive invariant.
IInv == TypeOK /\ Referenced /\ OneActive /\ GateWithinCap

USE ClockAssumption, StoreAssumption, DeepRunAssumption
USE DEF Hour, Session, None, Statuses, Unborn, Row, Snapshot, Nothing, Fresh, Disarmed,
        Places, Call, calls, budgetVars, B!File, B!NoFile, B!Corrupt, B!Hour

-----------------------------------------------------------------------------
(* The initial states and what a step does to the rows.                     *)

LEMMA InitIInv == Init => IInv
  <1> SUFFICES ASSUME Init PROVE IInv
    OBVIOUS
  <1>1. TypeOK
    BY DEF Init, TypeOK, SessionsInit, B!BudgetInit
  <1>2. Referenced
    BY DEF Init, Referenced, CallKnows, BornSession, SessionsInit
  <1>3. OneActive /\ GateWithinCap
    BY DEF Init, OneActive, GateWithinCap, Active, SessionsInit
  <1> QED
    BY <1>1, <1>2, <1>3 DEF IInv

\* A row that is in flight is a row of the table.
LEMMA OpenRows ==
    ASSUME TypeOK, NEW s \in Session, sessions[s].status # "unborn"
    PROVE  sessions[s] \in Row
  BY DEF TypeOK

\* What any statement does to the rows: none is lost, no policy changes, and
\* there is still one active row at most.
RowsStep ==
    /\ sessions' \in [Session -> Row \cup {Unborn}]
    /\ \A s \in Session : sessions[s].status # "unborn" =>
          sessions'[s].status # "unborn" /\ sessions'[s].policy = sessions[s].policy
    /\ OneActive'

LEMMA SameRows ==
    ASSUME IInv, UNCHANGED sessions
    PROVE  RowsStep
  BY DEF IInv, TypeOK, RowsStep, OneActive, Active

\* close_expired_sessions
LEMMA ClosedRows ==
    ASSUME IInv, sessions' = Closed
    PROVE  RowsStep
  <1>1. ASSUME NEW s \in Session
        PROVE  /\ sessions'[s] \in Row \cup {Unborn}
               /\ sessions[s].status # "unborn" =>
                    sessions'[s].status # "unborn" /\ sessions'[s].policy = sessions[s].policy
               /\ s \in Active' => s \in Active
    <2>1. sessions'[s] = IF s \in Open /\ sessions[s].ends <= now
                         THEN [sessions[s] EXCEPT !.status = "over"] ELSE sessions[s]
      BY DEF Closed
    <2>2. CASE s \in Open /\ sessions[s].ends <= now
      <3>1. sessions[s] \in Row
        BY <2>2 DEF IInv, TypeOK, Open
      <3>2. /\ sessions'[s] = [sessions[s] EXCEPT !.status = "over"]
            /\ sessions'[s].status = "over"
            /\ sessions'[s].policy = sessions[s].policy
        BY <2>1, <2>2, <3>1
      <3> QED
        BY <3>1, <3>2 DEF Active
    <2>3. CASE ~(s \in Open /\ sessions[s].ends <= now)
      BY <2>1, <2>3 DEF IInv, TypeOK, Active
    <2> QED
      BY <2>2, <2>3
  <1>2. sessions' \in [Session -> Row \cup {Unborn}]
    BY <1>1 DEF Closed
  <1>3. OneActive'
    BY <1>1 DEF IInv, OneActive, Active
  <1> QED
    BY <1>1, <1>2, <1>3 DEF RowsStep

\* update_session_status, under the unique index
LEMMA StatusRows ==
    ASSUME IInv, NEW s \in Session, NEW status \in Statuses,
           sessions[s].status # "unborn",
           IndexAdmits(s, status),
           sessions' = WithStatus(s, status)
    PROVE  RowsStep
  <1>1. sessions[s] \in Row
    BY DEF IInv, TypeOK
  <1>2. sessions' = [sessions EXCEPT ![s] = [sessions[s] EXCEPT !.status = status]]
    BY DEF WithStatus
  <1>3. sessions \in [Session -> Row \cup {Unborn}]
    BY DEF IInv, TypeOK
  <1>4. /\ sessions'[s].status = status
        /\ sessions'[s].policy = sessions[s].policy
        /\ sessions'[s] \in Row
        /\ \A t \in Session \ {s} : sessions'[t] = sessions[t]
    BY <1>1, <1>2, <1>3
  <1>5. OneActive'
    BY <1>4 DEF IInv, OneActive, Active, IndexAdmits
  <1> QED
    BY <1>2, <1>3, <1>4, <1>5 DEF RowsStep

\* create_session
LEMMA InsertedRows ==
    ASSUME IInv, MayInsert,
           NEW s \in Session, NEW ends \in Windows, NEW policy \in Policies,
           sessions[s].status = "unborn",
           sessions' = Inserted(s, ends, policy)
    PROVE  RowsStep /\ sessions'[s].status # "unborn"
  <1>1. sessions \in [Session -> Row \cup {Unborn}]
    BY DEF IInv, TypeOK
  <1>2. /\ sessions' \in [Session -> Row \cup {Unborn}]
        /\ sessions'[s].status = "active"
        /\ \A t \in Session \ {s} : sessions'[t] = sessions[t]
    BY <1>1 DEF Inserted
  <1>3. \A t \in Session \ {s} : sessions'[t].status # "active"
    BY <1>2 DEF MayInsert, Active
  <1>4. \A t \in Active' : t = s
    BY <1>3 DEF Active
  <1>5. OneActive'
    BY <1>4 DEF OneActive
  <1> QED
    BY <1>2, <1>5 DEF RowsStep

\* A reference to an inserted row stays one.
LEMMA StaysBorn ==
    ASSUME RowsStep, NEW s \in Session \cup {None}, BornSession(s)
    PROVE  BornSession(s)'
  BY DEF RowsStep, BornSession

-----------------------------------------------------------------------------
(* What a step does to the calls.                                           *)

CallsStep ==
    /\ pc' \in [Call -> Places]
    /\ op' \in [Call -> {"none", "start", "stop", "status", "request"}]
    /\ held' \in [Call -> Snapshot]
    /\ \A c \in Call : CallKnows(c)'

LEMMA CallsKept ==
    ASSUME IInv, RowsStep, UNCHANGED calls
    PROVE  CallsStep
  <1>1. TypeOK /\ Referenced
    BY DEF IInv
  <1>2. \A c \in Call : BornSession(held[c].session)'
    BY <1>1, StaysBorn DEF TypeOK, Referenced, CallKnows, BornSession
  <1> QED
    BY <1>1, <1>2 DEF TypeOK, CallsStep, Referenced, CallKnows

\* One call moves on.
LEMMA CallMoves ==
    ASSUME IInv, RowsStep, NEW c \in Call, NEW place \in Places,
           NEW what \in {"none", "start", "stop", "status", "request"},
           NEW h \in Snapshot,
           h.session # None => sessions'[h.session].status # "unborn",
           place = "stopping" => h.session # None,
           place \in {"selecting", "publishing"} => what # "none",
           pc' = [pc EXCEPT ![c] = place],
           op' = [op EXCEPT ![c] = what],
           held' = [held EXCEPT ![c] = h]
    PROVE  CallsStep
  <1>1. TypeOK /\ Referenced
    BY DEF IInv
  <1>2. /\ pc' \in [Call -> Places]
        /\ op' \in [Call -> {"none", "start", "stop", "status", "request"}]
        /\ held' \in [Call -> Snapshot]
    BY <1>1 DEF TypeOK
  <1>3. ASSUME NEW b \in Call PROVE CallKnows(b)'
    <2>1. CASE b = c
      BY <1>1, <2>1 DEF TypeOK, CallKnows, BornSession
    <2>2. CASE b # c
      <3>1. pc'[b] = pc[b] /\ op'[b] = op[b] /\ held'[b] = held[b]
        BY <1>1, <2>2 DEF TypeOK
      <3>2. held[b].session \in Session \cup {None} /\ CallKnows(b)
        BY <1>1 DEF TypeOK, Referenced
      <3> QED
        BY <3>1, <3>2 DEF RowsStep, CallKnows, BornSession
    <2> QED
      BY <2>1, <2>2
  <1> QED
    BY <1>2, <1>3 DEF CallsStep

\* A call moves on, with what it holds.
LEMMA CallGoesTo ==
    ASSUME IInv, RowsStep, NEW c \in Call,
           NEW place \in Places \ {"stopping", "selecting", "publishing"},
           Goto(c, place), UNCHANGED held
    PROVE  CallsStep
  <1>1. TypeOK /\ Referenced
    BY DEF IInv
  <1>2. ASSUME NEW b \in Call PROVE CallKnows(b)'
    <2>1. held[b].session \in Session \cup {None} /\ CallKnows(b)
      BY <1>1 DEF TypeOK, Referenced
    <2>2. pc'[b] \in {"stopping", "selecting", "publishing"} => pc'[b] = pc[b]
      BY <1>1 DEF TypeOK, Goto
    <2> QED
      BY <2>1, <2>2 DEF Goto, RowsStep, CallKnows, BornSession
  <1> QED
    BY <1>1, <1>2 DEF TypeOK, Goto, CallsStep

LEMMA CallsLost ==
    ASSUME IInv, RowsStep, NEW dead, Lost(dead)
    PROVE  CallsStep
  <1>1. TypeOK /\ Referenced
    BY DEF IInv
  <1>2. /\ pc' \in [Call -> Places]
        /\ op' \in [Call -> {"none", "start", "stop", "status", "request"}]
        /\ held' \in [Call -> Snapshot]
    BY <1>1 DEF TypeOK, Lost
  <1>3. ASSUME NEW b \in Call PROVE CallKnows(b)'
    <2>1. held[b].session \in Session \cup {None} /\ CallKnows(b)
      BY <1>1 DEF TypeOK, Referenced
    <2> QED
      BY <2>1 DEF Lost, RowsStep, CallKnows, BornSession
  <1> QED
    BY <1>2, <1>3 DEF CallsStep

-----------------------------------------------------------------------------
(* What a step does to the resident engine and to the gates.                *)

EngineStep ==
    /\ engine' \in [loaded : BOOLEAN, cached : Snapshot]
    /\ BornSession(engine.cached.session)'

LEMMA EngineKept ==
    ASSUME IInv, RowsStep, UNCHANGED engine
    PROVE  EngineStep
  BY StaysBorn DEF IInv, TypeOK, Referenced, EngineStep, BornSession

LEMMA EngineCaches ==
    ASSUME IInv, RowsStep, NEW c, NEW h \in Snapshot, Cache(c, h),
           h.session # None => sessions'[h.session].status # "unborn"
    PROVE  EngineStep
  BY EngineKept DEF Cache, IInv, TypeOK, EngineStep, BornSession

GateStep ==
    /\ gate' \in [Proxy -> [session : Session \cup {None}, spent : Nat]]
    /\ \A p \in Proxy : BornSession(gate[p].session)'
    /\ GateWithinCap'

\* A row keeps its policy, so a gate left alone stays within its cap; each gate
\* of a step is left alone, armed or disarmed, or charged what it admits.
LEMMA GatesMove ==
    ASSUME IInv, RowsStep,
           gate' \in [Proxy -> [session : Session \cup {None}, spent : Nat]],
           \A p \in Proxy :
              \/ gate'[p] = gate[p]
              \/ /\ gate'[p].spent = 0
                 /\ gate'[p].session # None =>
                       sessions[gate'[p].session].status # "unborn"
              \/ Admits(gate[p]) /\ gate'[p] = Charged(gate[p])
    PROVE  GateStep
  <1>1. ASSUME NEW p \in Proxy
        PROVE  /\ BornSession(gate[p].session)'
               /\ gate'[p].session # None =>
                    gate'[p].spent <= IF Policy(gate[p])'.localOnly THEN 0
                                      ELSE Policy(gate[p])'.cap
    <2> DEFINE s == gate'[p].session
    <2>1. CASE s = None
      BY <2>1 DEF BornSession
    <2>2. CASE s # None
      <3>1. gate[p] \in [session : Session \cup {None}, spent : Nat]
            /\ BornSession(gate[p].session)
        BY DEF IInv, TypeOK, Referenced
      <3>2. s \in Session /\ sessions[s].status # "unborn"
        BY <2>2, <3>1 DEF BornSession, Charged
      <3>3. sessions'[s].status # "unborn" /\ sessions'[s].policy = sessions[s].policy
        BY <3>2 DEF RowsStep
      <3>4. sessions[s].policy \in [localOnly : BOOLEAN, cap : Nat]
        BY <3>2, OpenRows DEF IInv
      <3>5. CASE gate'[p] = gate[p]
        BY <2>2, <3>3, <3>5 DEF IInv, GateWithinCap, Policy, BornSession
      <3>6. CASE gate'[p].spent = 0
        BY <3>3, <3>4, <3>6 DEF Policy, BornSession
      <3>7. CASE Admits(gate[p]) /\ gate'[p] = Charged(gate[p])
        <4>1. s = gate[p].session /\ gate'[p].spent = gate[p].spent + 1
          BY <2>2, <3>1, <3>7 DEF Charged
        <4>2. ~sessions[s].policy.localOnly /\ gate[p].spent + 1 <= sessions[s].policy.cap
          BY <2>2, <3>7, <4>1 DEF Admits, Policy
        <4> QED
          BY <3>3, <4>1, <4>2 DEF Policy, BornSession
      <3> QED
        BY <3>5, <3>6, <3>7
    <2> QED
      BY <2>1, <2>2
  <1> QED
    BY <1>1 DEF GateStep, GateWithinCap

LEMMA GatesKept ==
    ASSUME IInv, RowsStep, UNCHANGED gate
    PROVE  GateStep
  BY GatesMove DEF IInv, TypeOK

LEMMA GatesCharged ==
    ASSUME IInv, RowsStep, NEW r \in Request, Charge(r)
    PROVE  GateStep
  <1>1. ProxyOf[r] \in Proxy /\ gate \in [Proxy -> [session : Session \cup {None}, spent : Nat]]
    BY DEF IInv, TypeOK
  <1>2. /\ Admits(gate[ProxyOf[r]])
        /\ gate' = [gate EXCEPT ![ProxyOf[r]] = Charged(@)]
    BY DEF Charge
  <1>3. Charged(gate[ProxyOf[r]]) \in [session : Session \cup {None}, spent : Nat]
    BY <1>1 DEF Charged
  <1> QED
    BY <1>1, <1>2, <1>3, GatesMove

-----------------------------------------------------------------------------
(* The hourly budget, and the parts put together.                           *)

BudgetStep ==
    /\ file' \in B!File
    /\ lock' \in Request \cup {"nobody"}
    /\ stamp' \in [Request -> Hour]
    /\ seen' \in [Request -> B!File]

LEMMA BudgetKept ==
    ASSUME IInv, UNCHANGED budgetVars
    PROVE  BudgetStep
  BY DEF IInv, TypeOK, BudgetStep

LEMMA BudgetAsked ==
    ASSUME IInv, NEW r \in Request, B!Ask(r)
    PROVE  BudgetStep
  BY DEF IInv, TypeOK, BudgetStep, B!Ask

LEMMA BudgetLocked ==
    ASSUME IInv, NEW r \in Request, B!LockAndRead(r)
    PROVE  BudgetStep
  BY DEF IInv, TypeOK, BudgetStep, B!LockAndRead

LEMMA BudgetReserved ==
    ASSUME IInv, NEW r \in Request, B!ReplaceAndUnlock(r)
    PROVE  BudgetStep
  <1>1. TypeOK
    BY DEF IInv
  <1>2. /\ seen[r] \in B!File /\ stamp[r] \in Hour
        /\ seen[r].used \in 0..MaxPerHour
    BY <1>1 DEF TypeOK
  <1>3. B!Grants(r) => [B!Current(r) EXCEPT !.used = @ + 1] \in B!File
    <2>1. SUFFICES ASSUME B!Grants(r)
                   PROVE  [B!Current(r) EXCEPT !.used = @ + 1] \in B!File
      OBVIOUS
    <2>2. B!Current(r) \in [hour : {-2, -1} \cup Hour, used : 0..MaxPerHour]
      BY <1>2 DEF B!Current
    <2>3. B!Current(r).used < MaxPerHour
      BY <2>1 DEF B!Grants
    <2> QED
      BY <2>2, <2>3
  <1>4. file' \in B!File
    BY <1>1, <1>3 DEF B!ReplaceAndUnlock, TypeOK
  <1> QED
    BY <1>1, <1>4 DEF TypeOK, BudgetStep, B!ReplaceAndUnlock

LEMMA BudgetForgotten ==
    ASSUME IInv, NEW dead, B!Forget(dead)
    PROVE  BudgetStep
  BY DEF IInv, TypeOK, BudgetStep, B!Forget

LEMMA Together ==
    ASSUME IInv, now' \in Hour, RowsStep, CallsStep, EngineStep, GateStep, BudgetStep
    PROVE  IInv'
  <1>1. TypeOK'
    BY DEF TypeOK, RowsStep, CallsStep, EngineStep, GateStep, BudgetStep
  <1>2. Referenced'
    BY DEF Referenced, CallsStep, EngineStep, GateStep
  <1> QED
    BY <1>1, <1>2 DEF IInv, RowsStep, GateStep

\* A step of a call on a store it leaves alone.
LEMMA TogetherSame ==
    ASSUME IInv, UNCHANGED <<now, sessions>>, CallsStep, EngineStep, GateStep, BudgetStep
    PROVE  IInv'
  BY SameRows, Together DEF IInv, TypeOK

-----------------------------------------------------------------------------
(* The steps, one by one.                                                   *)

\* Where a call goes once its engine is initialized.
LEMMA GoesOn ==
    ASSUME IInv, RowsStep, NEW c \in Call,
           NEW what \in {"start", "stop", "status", "request"},
           NEW s \in Snapshot, s.session # None => sessions'[s.session].status # "unborn",
           GoOn(c, what, s)
    PROVE  CallsStep
  <1> DEFINE place == AfterInitialize(what, s)
             h == IF what = "stop" THEN s ELSE Nothing
  <1>1. /\ place \in Places
        /\ place \notin {"selecting", "publishing"}
        /\ place = "stopping" => what = "stop" /\ s.session # None
    BY DEF AfterInitialize
  <1>2. h \in Snapshot /\ (h.session # None => sessions'[h.session].status # "unborn")
    OBVIOUS
  <1>3. place = "stopping" => h.session # None
    BY <1>1
  <1>4. /\ pc' = [pc EXCEPT ![c] = place]
        /\ op' = [op EXCEPT ![c] = "none"]
        /\ held' = [held EXCEPT ![c] = h]
    BY DEF GoOn, Holding
  <1> HIDE DEF place, h
  <1> QED
    BY <1>1, <1>2, <1>3, <1>4, CallMoves

LEMMA BeginStep ==
    ASSUME IInv, NEW c \in Call, NEW what \in Ops(c), Begin(c, what)
    PROVE  IInv'
  <1> DEFINE loaded == c \in Resident /\ engine.loaded
             ungated == c \in Request /\ ProxyOf[c] \notin Gateway
             s == IF loaded THEN engine.cached ELSE Nothing
  <1>1. TypeOK /\ Referenced /\ now \in Hour /\ now' = now
        /\ UNCHANGED <<engine, gate>> /\ UNCHANGED budgetVars
    BY DEF IInv, TypeOK, Begin
  <1>2. what \in {"start", "stop", "status", "request"}
    BY DEF Ops
  <1>3. CASE loaded \/ ungated
    <2>1. GoOn(c, what, s) /\ UNCHANGED sessions
      BY <1>3 DEF Begin
    <2>2. s \in Snapshot /\ (s.session # None => sessions[s.session].status # "unborn")
      BY <1>1 DEF TypeOK, Referenced, BornSession
    <2>3. RowsStep
      BY <2>1, SameRows
    <2>4. s.session # None => sessions'[s.session].status # "unborn"
      BY <2>1, <2>2
    <2> HIDE DEF s
    <2>5. CallsStep
      BY <1>2, <2>1, <2>2, <2>3, <2>4, GoesOn
    <2> QED
      BY <1>1, <2>3, <2>5, EngineKept, GatesKept, BudgetKept, Together
  <1>4. CASE ~(loaded \/ ungated)
    <2>1. /\ pc' = [pc EXCEPT ![c] = "selecting"]
          /\ op' = [op EXCEPT ![c] = what]
          /\ sessions' = Closed
          /\ held' = held
      BY <1>4 DEF Begin
    <2>2. RowsStep
      BY <2>1, ClosedRows
    <2>3. /\ held[c] \in Snapshot
          /\ held[c].session # None => sessions'[held[c].session].status # "unborn"
          /\ held' = [held EXCEPT ![c] = held[c]]
      BY <1>1, <2>1, <2>2 DEF TypeOK, Referenced, CallKnows, BornSession, RowsStep
    <2>4. CallsStep
      BY <1>2, <2>1, <2>2, <2>3, CallMoves
    <2> QED
      BY <1>1, <2>2, <2>4, EngineKept, GatesKept, BudgetKept, Together
  <1> QED
    BY <1>3, <1>4

LEMMA SelectStep ==
    ASSUME IInv, NEW c \in Call, Select(c)
    PROVE  IInv'
  <1>1. PICK s \in Session \cup {None} :
          /\ IsNewest(s)
          /\ Holding(c, [session |-> s, paused |-> s # None /\ sessions[s].status = "paused"])
    BY DEF Select
  <1> DEFINE h == [session |-> s, paused |-> s # None /\ sessions[s].status = "paused"]
  <1>2. /\ UNCHANGED <<now, sessions, engine, gate>> /\ UNCHANGED budgetVars
        /\ pc' = [pc EXCEPT ![c] = "publishing"] /\ op' = op /\ pc[c] = "selecting"
    BY DEF Select, Goto, At
  <1>3. RowsStep
    BY <1>2, SameRows
  <1>4. h \in Snapshot /\ (h.session # None => sessions'[h.session].status # "unborn")
    BY <1>1, <1>2 DEF IsNewest, Open
  <1>5. /\ op[c] \in {"none", "start", "stop", "status", "request"}
        /\ op' = [op EXCEPT ![c] = op[c]] /\ op[c] # "none"
    BY <1>2 DEF IInv, TypeOK, Referenced, CallKnows
  <1>6. held' = [held EXCEPT ![c] = h]
    BY <1>1 DEF Holding
  <1> HIDE DEF h
  <1>7. CallsStep
    BY <1>2, <1>3, <1>4, <1>5, <1>6, CallMoves
  <1> QED
    BY <1>2, <1>3, <1>7, EngineKept, GatesKept, BudgetKept, TogetherSame

LEMMA PublishStep ==
    ASSUME IInv, NEW c \in Call, Publish(c)
    PROVE  IInv'
  <1>1. /\ UNCHANGED <<now, sessions>> /\ UNCHANGED budgetVars
        /\ pc[c] = "publishing" /\ GoOn(c, op[c], held[c])
    BY DEF Publish, At
  <1>2. TypeOK /\ Referenced
    BY DEF IInv
  <1>3. /\ op[c] \in {"start", "stop", "status", "request"}
        /\ held[c] \in Snapshot
        /\ held[c].session # None => sessions[held[c].session].status # "unborn"
    BY <1>1, <1>2 DEF TypeOK, Referenced, CallKnows, BornSession
  <1>4. RowsStep
    BY <1>1, SameRows
  <1>5. CallsStep
    BY <1>1, <1>3, <1>4, GoesOn
  <1>6. EngineStep
    <2>1. CASE c \in Resident
      BY <1>1, <1>3, <2>1 DEF Publish, EngineStep, BornSession
    <2>2. CASE c \notin Resident
      BY <1>4, <2>2, EngineKept DEF Publish
    <2> QED
      BY <2>1, <2>2
  <1>7. GateStep
    <2>1. CASE c \in Request
      <3>1. /\ gate' = [gate EXCEPT ![ProxyOf[c]] = Armed(@, held[c].session)]
            /\ ProxyOf[c] \in Proxy
        BY <2>1 DEF Publish
      <3>2. Armed(gate[ProxyOf[c]], held[c].session)
              = [session |-> held[c].session, spent |-> 0]
        BY DEF Armed
      <3>3. gate' = [gate EXCEPT ![ProxyOf[c]] = [session |-> held[c].session, spent |-> 0]]
        BY <3>1, <3>2
      <3> QED
        BY <1>2, <1>3, <1>4, <3>1, <3>3, GatesMove DEF TypeOK
    <2>2. CASE c \notin Request
      BY <1>4, <2>2, GatesKept DEF Publish
    <2> QED
      BY <2>1, <2>2
  <1> QED
    BY <1>1, <1>5, <1>6, <1>7, BudgetKept, TogetherSame

LEMMA CreateStep ==
    ASSUME IInv, NEW c \in Call, Create(c)
    PROVE  IInv'
  <1>1. PICK s \in Session, ends \in Windows, policy \in Policies :
          /\ sessions[s].status = "unborn"
          /\ sessions' = Inserted(s, ends, policy)
          /\ Holding(c, [session |-> s, paused |-> FALSE])
    BY DEF Create
  <1> DEFINE h == [session |-> s, paused |-> FALSE]
  <1>2. /\ now' = now /\ UNCHANGED <<engine, gate>> /\ UNCHANGED budgetVars /\ MayInsert
        /\ pc' = [pc EXCEPT ![c] = "created"] /\ op' = op
    BY DEF Create, Goto
  <1>3. RowsStep /\ sessions'[s].status # "unborn"
    BY <1>1, <1>2, InsertedRows
  <1>4. /\ h \in Snapshot /\ (h.session # None => sessions'[h.session].status # "unborn")
        /\ held' = [held EXCEPT ![c] = h]
    BY <1>1, <1>3 DEF Holding
  <1>5. /\ op[c] \in {"none", "start", "stop", "status", "request"}
        /\ op' = [op EXCEPT ![c] = op[c]]
    BY <1>2 DEF IInv, TypeOK
  <1> HIDE DEF h
  <1>6. CallsStep
    BY <1>2, <1>3, <1>4, <1>5, CallMoves
  <1>7. now' \in Hour
    BY <1>2 DEF IInv, TypeOK
  <1> QED
    BY <1>2, <1>3, <1>6, <1>7, EngineKept, GatesKept, BudgetKept, Together

\* A call is done and holds nothing.
LEMMA CallRests ==
    ASSUME IInv, RowsStep, NEW c \in Call, Goto(c, "idle"), Holding(c, Nothing)
    PROVE  CallsStep
  <1>1. TypeOK /\ Referenced
    BY DEF IInv
  <1>2. ASSUME NEW b \in Call PROVE CallKnows(b)'
    <2>1. CASE b = c
      <3>1. pc'[b] = "idle" /\ held'[b] = Nothing
        BY <1>1, <2>1 DEF TypeOK, Goto, Holding
      <3> QED
        BY <3>1 DEF CallKnows, BornSession
    <2>2. CASE b # c
      <3>1. pc'[b] = pc[b] /\ op'[b] = op[b] /\ held'[b] = held[b]
        BY <1>1, <2>2 DEF TypeOK, Goto, Holding
      <3>2. held[b].session \in Session \cup {None} /\ CallKnows(b)
        BY <1>1 DEF TypeOK, Referenced
      <3> QED
        BY <3>1, <3>2 DEF RowsStep, CallKnows, BornSession
    <2> QED
      BY <2>1, <2>2
  <1>3. /\ pc' \in [Call -> Places]
        /\ op' \in [Call -> {"none", "start", "stop", "status", "request"}]
        /\ held' \in [Call -> Snapshot]
    BY <1>1 DEF TypeOK, Goto, Holding
  <1> QED
    BY <1>2, <1>3 DEF CallsStep

\* A call that is told the outcome caches it and is done.
LEMMA DoneStep ==
    ASSUME IInv, NEW c \in Call, NEW h \in Snapshot,
           h.session # None => sessions[h.session].status # "unborn",
           Cache(c, h), Holding(c, Nothing), Goto(c, "idle"),
           UNCHANGED <<now, sessions, gate, budgetVars>>
    PROVE  IInv'
  <1>1. RowsStep
    BY SameRows
  <1>2. EngineStep
    BY <1>1, EngineCaches
  <1>3. CallsStep
    BY <1>1, CallRests
  <1> QED
    BY <1>1, <1>2, <1>3, GatesKept, BudgetKept, TogetherSame

LEMMA CreatedStep ==
    ASSUME IInv, NEW c \in Call, Created(c)
    PROVE  IInv'
  <1>1. /\ held[c] \in Snapshot
        /\ held[c].session # None => sessions[held[c].session].status # "unborn"
    BY DEF IInv, TypeOK, Referenced, CallKnows, BornSession
  <1> QED
    BY <1>1, DoneStep DEF Created

LEMMA StoppedStep ==
    ASSUME IInv, NEW c \in Call, Stopped(c)
    PROVE  IInv'
  BY DoneStep DEF Stopped

LEMMA StopStep ==
    ASSUME IInv, NEW c \in Call, Stop(c)
    PROVE  IInv'
  <1>1. /\ now' = now /\ UNCHANGED <<engine, gate, held>> /\ UNCHANGED budgetVars
        /\ pc[c] = "stopping" /\ Goto(c, "stopped")
        /\ sessions' = WithStatus(held[c].session, "over")
    BY DEF Stop, At
  <1>2. /\ held[c].session \in Session
        /\ sessions[held[c].session].status # "unborn"
    BY <1>1 DEF IInv, TypeOK, Referenced, CallKnows, BornSession
  <1>3. RowsStep
    BY <1>1, <1>2, StatusRows DEF IndexAdmits
  <1>4. CallsStep
    BY <1>1, <1>3, CallGoesTo
  <1>5. now' \in Hour
    BY <1>1 DEF IInv, TypeOK
  <1> QED
    BY <1>1, <1>3, <1>4, <1>5, EngineKept, GatesKept, BudgetKept, Together

LEMMA EvaluateStep ==
    ASSUME IInv, NEW constrained \in BOOLEAN, NEW otherReasons \in BOOLEAN,
           Evaluate(constrained, otherReasons)
    PROVE  IInv'
  <1> DEFINE s == engine.cached.session
             status == IF constrained THEN "paused" ELSE "active"
  <1>1. /\ now' = now /\ UNCHANGED gate /\ UNCHANGED calls /\ UNCHANGED budgetVars
        /\ s # None /\ IndexAdmits(s, status)
        /\ sessions' = WithStatus(s, status)
        /\ engine' = [engine EXCEPT !.cached.paused = constrained]
    BY DEF Evaluate
  <1>2. /\ engine \in [loaded : BOOLEAN, cached : Snapshot]
        /\ s \in Session /\ sessions[s].status # "unborn"
    BY <1>1 DEF IInv, TypeOK, Referenced, BornSession
  <1>3. RowsStep
    <2> HIDE DEF s
    <2>1. status \in Statuses
      OBVIOUS
    <2> HIDE DEF status
    <2> QED
      BY <1>1, <1>2, <2>1, StatusRows
  <1>4. engine' = [engine EXCEPT !.cached = [engine.cached EXCEPT !.paused = constrained]]
    BY <1>1
  <1>5. engine' \in [loaded : BOOLEAN, cached : Snapshot] /\ engine'.cached.session = s
    BY <1>2, <1>4
  <1>6. EngineStep
    BY <1>2, <1>3, <1>5 DEF EngineStep, BornSession, RowsStep
  <1>7. now' \in Hour
    BY <1>1 DEF IInv, TypeOK
  <1> QED
    BY <1>1, <1>3, <1>6, <1>7, CallsKept, GatesKept, BudgetKept, Together

\* The steps of a call that change neither store nor gates.
LEMMA QuietStep ==
    ASSUME IInv, NEW c \in Call,
           NEW place \in Places \ {"stopping", "selecting", "publishing"},
           Goto(c, place),
           UNCHANGED <<now, sessions, engine, gate, held>>, BudgetStep
    PROVE  IInv'
  <1>1. RowsStep
    BY SameRows
  <1>2. CallsStep
    BY <1>1, CallGoesTo
  <1> QED
    BY <1>1, <1>2, EngineKept, GatesKept, TogetherSame

LEMMA RequestStep ==
    ASSUME IInv, NEW r \in Request, Forward(r)
    PROVE  IInv'
  <1>1. r \in Call
    OBVIOUS
  <1>2. CASE Passthrough(r)
    BY <1>1, <1>2, BudgetKept, QuietStep DEF Passthrough
  <1>3. CASE Primary(r)
    <2>1. RowsStep
      BY <1>3, SameRows DEF Primary
    <2>2. CallsStep
      BY <1>1, <1>3, <2>1, CallGoesTo DEF Primary
    <2> QED
      BY <1>3, <2>1, <2>2, EngineKept, GatesCharged, BudgetKept, TogetherSame DEF Primary
  <1>4. CASE PrimaryFails(r)
    BY <1>1, <1>4, BudgetKept, QuietStep DEF PrimaryFails
  <1>5. CASE Posted(r)
    BY <1>1, <1>5, BudgetKept, QuietStep DEF Posted
  <1>6. CASE Fallback(r)
    <2>1. RowsStep
      BY <1>6, SameRows DEF Fallback
    <2>2. CallsStep
      BY <1>1, <1>6, <2>1, CallGoesTo DEF Fallback
    <2> QED
      BY <1>6, <2>1, <2>2, EngineKept, GatesCharged, BudgetAsked, TogetherSame DEF Fallback
  <1>7. CASE FallbackBlocked(r)
    BY <1>1, <1>7, BudgetKept, QuietStep DEF FallbackBlocked
  <1>8. CASE Lock(r)
    BY <1>1, <1>8, BudgetLocked, QuietStep DEF Lock
  <1>9. CASE Reserve(r)
    BY <1>1, <1>9, BudgetReserved, QuietStep DEF Reserve
  <1> QED
    BY <1>2, <1>3, <1>4, <1>5, <1>6, <1>7, <1>8, <1>9 DEF Forward

LEMMA ProxyDiesStep ==
    ASSUME IInv, NEW p \in Proxy, ProxyDies(p)
    PROVE  IInv'
  <1> DEFINE dead == {r \in Request : ProxyOf[r] = p}
  <1>1. /\ UNCHANGED <<now, sessions, engine>>
        /\ Lost(dead) /\ B!Forget(dead)
        /\ gate' = [gate EXCEPT ![p] = Disarmed]
    BY DEF ProxyDies
  <1> HIDE DEF dead
  <1>2. RowsStep
    BY <1>1, SameRows
  <1>3. GateStep
    BY <1>1, <1>2, GatesMove DEF IInv, TypeOK
  <1> QED
    BY <1>1, <1>2, <1>3, CallsLost, EngineKept, BudgetForgotten, TogetherSame

LEMMA LosesCalls ==
    ASSUME IInv, NEW dead, Lost(dead), EngineStep,
           UNCHANGED <<now, sessions, gate, budgetVars>>
    PROVE  IInv'
  BY SameRows, CallsLost, GatesKept, BudgetKept, TogetherSame

LEMMA EngineDiesStep ==
    ASSUME IInv, EngineDies
    PROVE  IInv'
  <1>1. EngineStep
    BY DEF EngineDies, EngineStep, BornSession
  <1> QED
    BY <1>1, LosesCalls DEF EngineDies

LEMMA CallDiesStep ==
    ASSUME IInv, NEW c \in Call, CallDies(c)
    PROVE  IInv'
  <1>1. EngineStep
    BY SameRows, EngineKept DEF CallDies
  <1> QED
    BY <1>1, LosesCalls DEF CallDies

LEMMA TimePassesStep ==
    ASSUME IInv, TimePasses
    PROVE  IInv'
  <1>1. now' \in Hour
    BY DEF TimePasses, Tick, IInv, TypeOK
  <1>2. RowsStep
    BY SameRows DEF TimePasses
  <1> QED
    BY <1>1, <1>2, CallsKept, EngineKept, GatesKept, BudgetKept, Together DEF TimePasses

LEMMA NextIInv ==
    ASSUME IInv, [Next]_vars
    PROVE  IInv'
  <1>1. ASSUME NEW c \in Call, Initialize(c) PROVE IInv'
    BY <1>1, BeginStep, SelectStep, PublishStep DEF Initialize
  <1>2. ASSUME NEW c \in Resident \cup OneShot, Lifecycle(c) PROVE IInv'
    <2>1. CASE Refused(c)
      BY <2>1, BudgetKept, QuietStep DEF Refused
    <2> QED
      BY <1>2, <2>1, CreateStep, CreatedStep, StopStep, StoppedStep DEF Lifecycle
  <1>3. CASE UNCHANGED vars
    BY <1>3, SameRows, CallsKept, EngineKept, GatesKept, BudgetKept, TogetherSame DEF vars
  <1> QED
    BY <1>1, <1>2, <1>3, RequestStep, EvaluateStep, TimePassesStep, ProxyDiesStep,
       EngineDiesStep, CallDiesStep DEF Next

THEOREM Inductive == Spec => []IInv
  <1> QED
    BY InitIInv, NextIInv, PTL DEF Spec

\* Every variable keeps its type, for every interleaving of engines, proxies and
\* crashes: in particular the budget file never counts past the budget.
THEOREM TypeCorrect == Spec => []TypeOK
  <1>1. IInv => TypeOK
    BY DEF IInv
  <1> QED
    BY <1>1, Inductive, PTL

\* At most one session is active, however many processes start, stop, pause and
\* resume sessions (store/deep_run.py, create_session and update_session_status).
THEOREM AtMostOneActive == Spec => []OneActive
  <1>1. IInv => OneActive
    BY DEF IInv
  <1> QED
    BY <1>1, Inductive, PTL

\* No gate lets through more than the cap of its session, and a local_only
\* session nothing (intent/deep_run_gates.py, try_consume_cost).
THEOREM CapsHold == Spec => []GateWithinCap
  <1>1. IInv => GateWithinCap
    BY DEF IInv
  <1> QED
    BY <1>1, Inductive, PTL

-----------------------------------------------------------------------------
(* A session that is over stays over, once nobody holds it.                 *)

Gone(s) == Over(s) /\ ~Known(s)

LEMMA NextGone ==
    ASSUME IInv, [Next]_vars, NEW s \in Session, Gone(s)
    PROVE  Gone(s)'
  <1>1. /\ sessions[s].status = "over" /\ engine.cached.session # s
        /\ \A c \in Call : held[c].session # s
        /\ s # None
    BY DEF Gone, Over, Known
  <1>2. TypeOK
    BY DEF IInv
  <1> SUFFICES /\ sessions'[s].status = "over"
               /\ engine'.cached.session # s
               /\ \A c \in Call : held'[c].session # s
    BY DEF Gone, Over, Known
  <1>3. ASSUME NEW c \in Call, NEW h \in Snapshot, h.session # s,
               held' = [held EXCEPT ![c] = h]
        PROVE  \A b \in Call : held'[b].session # s
    BY <1>1, <1>2, <1>3 DEF TypeOK
  <1>4. ASSUME NEW dead, Lost(dead)
        PROVE  \A b \in Call : held'[b].session # s
    BY <1>1, <1>4 DEF Lost
  <1>5. ASSUME NEW c, NEW what, NEW h \in Snapshot, c \in Call, h.session # s,
               GoOn(c, what, h)
        PROVE  \A b \in Call : held'[b].session # s
    <2>1. (IF what = "stop" THEN h ELSE Nothing) \in Snapshot
          /\ (IF what = "stop" THEN h ELSE Nothing).session # s
      BY <1>1, <1>5
    <2> QED
      BY <1>3, <1>5, <2>1 DEF GoOn, Holding
  <1>6. ASSUME NEW c \in Call, NEW what \in Ops(c), Begin(c, what)
        PROVE  /\ sessions'[s].status = "over" /\ engine' = engine
               /\ \A b \in Call : held'[b].session # s
    <2>1. sessions' = sessions \/ sessions' = Closed
      BY <1>6 DEF Begin
    <2>2. sessions'[s].status = "over"
      BY <1>1, <2>1 DEF Closed, Open
    <2>3. /\ engine.cached \in Snapshot /\ engine.cached.session # s
          /\ Nothing \in Snapshot /\ Nothing.session # s
      BY <1>1, <1>2 DEF TypeOK
    <2> QED
      BY <1>1, <1>5, <1>6, <2>2, <2>3 DEF Begin
  <1>7. ASSUME NEW c \in Call, Select(c)
        PROVE  \A b \in Call : held'[b].session # s
    <2>1. PICK t \in Session \cup {None} :
            IsNewest(t)
            /\ Holding(c, [session |-> t, paused |-> t # None /\ sessions[t].status = "paused"])
      BY <1>7 DEF Select
    <2> DEFINE h == [session |-> t, paused |-> t # None /\ sessions[t].status = "paused"]
    <2>2. t # s
      BY <1>1, <2>1 DEF IsNewest, Open
    <2>3. h \in Snapshot /\ h.session # s /\ held' = [held EXCEPT ![c] = h]
      BY <2>1, <2>2 DEF Holding
    <2> HIDE DEF h
    <2> QED
      BY <1>3, <2>3
  <1>8. ASSUME NEW c \in Call, Publish(c)
        PROVE  /\ engine'.cached.session # s
               /\ \A b \in Call : held'[b].session # s
    BY <1>1, <1>2, <1>5, <1>8 DEF Publish, TypeOK
  <1>9. ASSUME NEW c \in Call, Create(c)
        PROVE  /\ sessions'[s].status = "over"
               /\ \A b \in Call : held'[b].session # s
    <2>1. PICK t \in Session, ends \in Windows, policy \in Policies :
            /\ sessions[t].status = "unborn"
            /\ sessions' = Inserted(t, ends, policy)
            /\ Holding(c, [session |-> t, paused |-> FALSE])
      BY <1>9 DEF Create
    <2>2. t # s
      BY <1>1, <2>1
    <2> QED
      BY <1>1, <1>2, <1>3, <2>1, <2>2 DEF Holding, Inserted, TypeOK
  <1>10. ASSUME NEW c \in Call, Stop(c)
         PROVE  sessions'[s].status = "over"
    BY <1>1, <1>2, <1>10 DEF Stop, WithStatus, TypeOK
  <1>11. ASSUME NEW c \in Call, NEW h \in Snapshot, h.session # s,
                Cache(c, h), Holding(c, Nothing)
         PROVE  /\ engine'.cached.session # s
                /\ \A b \in Call : held'[b].session # s
    BY <1>1, <1>2, <1>3, <1>11 DEF Cache, Holding, TypeOK
  <1>12. ASSUME NEW constrained \in BOOLEAN, NEW otherReasons \in BOOLEAN,
                Evaluate(constrained, otherReasons)
         PROVE  sessions'[s].status = "over" /\ engine'.cached.session # s
    BY <1>1, <1>2, <1>12 DEF Evaluate, WithStatus, TypeOK
  <1>13. ASSUME NEW c \in Call, Initialize(c)
         PROVE  /\ sessions'[s].status = "over" /\ engine'.cached.session # s
                /\ \A b \in Call : held'[b].session # s
    BY <1>1, <1>6, <1>7, <1>8, <1>13 DEF Initialize, Select, Publish
  <1>14. ASSUME NEW c \in Resident \cup OneShot, Lifecycle(c)
         PROVE  /\ sessions'[s].status = "over" /\ engine'.cached.session # s
                /\ \A b \in Call : held'[b].session # s
    <2>1. CASE Create(c)
      BY <1>1, <1>9, <2>1 DEF Create
    <2>2. CASE Refused(c)
      BY <1>1, <2>2 DEF Refused
    <2>3. CASE Created(c)
      BY <1>1, <1>2, <1>11, <2>3 DEF Created, TypeOK
    <2>4. CASE Stop(c)
      BY <1>1, <1>10, <2>4 DEF Stop
    <2>5. CASE Stopped(c)
      BY <1>1, <1>11, <2>5 DEF Stopped
    <2> QED
      BY <1>14, <2>1, <2>2, <2>3, <2>4, <2>5 DEF Lifecycle
  <1>15. ASSUME NEW r \in Request, Forward(r)
         PROVE  UNCHANGED <<sessions, engine, held>>
    BY <1>15 DEF Forward, Passthrough, Primary, PrimaryFails, Posted, Fallback,
                 FallbackBlocked, Lock, Reserve
  <1>16. CASE TimePasses \/ UNCHANGED vars
    BY <1>1, <1>16 DEF TimePasses, vars, calls
  <1>17. CASE \E p \in Proxy : ProxyDies(p)
    BY <1>1, <1>4, <1>17 DEF ProxyDies
  <1>18. CASE EngineDies
    BY <1>1, <1>4, <1>18 DEF EngineDies
  <1>19. CASE \E c \in Call : CallDies(c)
    BY <1>1, <1>4, <1>19 DEF CallDies
  <1>20. ASSUME NEW constrained \in BOOLEAN, NEW otherReasons \in BOOLEAN,
                Evaluate(constrained, otherReasons)
         PROVE  held' = held
    BY <1>20 DEF Evaluate, calls
  <1> QED
    BY <1>1, <1>12, <1>13, <1>14, <1>15, <1>16, <1>17, <1>18, <1>19, <1>20 DEF Next

\* A session that is over and that neither a call nor the resident engine still
\* holds is never picked up again by an engine that starts or by the resource
\* gates (store/deep_run.py, get_active_session and update_session_status).
THEOREM OverStaysOver == Spec => OverIsOver
  <1>1. IInv /\ [Next]_vars
        => [\A s \in Session : Over(s) /\ ~Known(s) => (Over(s) /\ ~Known(s))']_vars
    BY NextGone DEF Gone
  <1> QED
    BY <1>1, Inductive, PTL DEF Spec, OverIsOver

-----------------------------------------------------------------------------
(* The hourly budget of the fallback calls, with the history of DeepRunHistory. *)

\* Who is about to replace the file holds the lock and has read it as it is; the
\* calls posted in this hour are counted in the file.
BudgetInv ==
    /\ posted \in Nat
    /\ file.hour <= now
    /\ \A r \in Request : stamp[r] <= now
    /\ \A r \in Request : pc[r] = "reserving" => lock = r /\ seen[r] = file
    /\ ~late => posted <= IF file.hour = now THEN file.used ELSE 0

\* The steps the budget can see.
Others ==
    /\ UNCHANGED budgetVars
    /\ now' \in {now, now + 1}
    /\ \A r \in Request : pc'[r] = "reserving" => pc[r] = "reserving"

LEMMA BudgetSteps ==
    ASSUME IInv, [Next]_vars
    PROVE  \/ \E r \in Request : Fallback(r) \/ Lock(r) \/ Reserve(r)
           \/ \E p \in Proxy : ProxyDies(p)
           \/ Others
  <1>1. TypeOK
    BY DEF IInv
  <1>2. ASSUME NEW c \in Call, NEW place, place # "reserving",
               pc' = [pc EXCEPT ![c] = place]
        PROVE  \A r \in Request : pc'[r] = "reserving" => pc[r] = "reserving"
    BY <1>1, <1>2 DEF TypeOK
  <1>3. ASSUME NEW c \in Call, NEW what, NEW s, GoOn(c, what, s),
               what \in {"start", "stop", "status", "request"}
        PROVE  \A r \in Request : pc'[r] = "reserving" => pc[r] = "reserving"
    <2>1. AfterInitialize(what, s) # "reserving"
      BY <1>3 DEF AfterInitialize
    <2> QED
      BY <1>2, <1>3, <2>1 DEF GoOn
  <1>4. ASSUME NEW c \in Call, Initialize(c) PROVE Others
    <2>1. CASE \E what \in Ops(c) : Begin(c, what)
      BY <1>2, <1>3, <2>1 DEF Begin, Others, Ops
    <2>2. CASE Select(c)
      BY <1>2, <2>2 DEF Select, Goto, Others
    <2>3. CASE Publish(c)
      <3>1. op[c] \in {"start", "stop", "status", "request"}
        BY <1>1, <2>3 DEF IInv, Referenced, CallKnows, TypeOK, Publish, At
      <3> QED
        BY <1>3, <2>3, <3>1 DEF Publish, Others
    <2> QED
      BY <1>4, <2>1, <2>2, <2>3 DEF Initialize
  <1>5. ASSUME NEW c \in Resident \cup OneShot, Lifecycle(c) PROVE Others
    BY <1>2, <1>5 DEF Lifecycle, Create, Refused, Created, Stop, Stopped, Goto, Others
  <1>6. ASSUME NEW r \in Request, Passthrough(r) \/ Primary(r) \/ PrimaryFails(r)
                                  \/ Posted(r) \/ FallbackBlocked(r)
        PROVE  Others
    <2>1. PICK place \in {"idle", "posted", "fallback", "primary"} : Goto(r, place)
      BY <1>6 DEF Passthrough, Primary, PrimaryFails, Posted, FallbackBlocked
    <2>2. now' = now /\ UNCHANGED budgetVars
      BY <1>6 DEF Passthrough, Primary, PrimaryFails, Posted, FallbackBlocked
    <2> QED
      BY <1>2, <2>1, <2>2 DEF Goto, Others
  <1>7. ASSUME NEW dead, Lost(dead), UNCHANGED <<now, budgetVars>> PROVE Others
    BY <1>7 DEF Lost, Others
  <1>8. CASE EngineDies \/ \E c \in Call : CallDies(c)
    BY <1>7, <1>8 DEF EngineDies, CallDies
  <1>9. CASE TimePasses \/ UNCHANGED vars
    BY <1>9 DEF TimePasses, Tick, vars, calls, Others
  <1>10. ASSUME NEW constrained \in BOOLEAN, NEW otherReasons \in BOOLEAN,
                Evaluate(constrained, otherReasons)
         PROVE  Others
    BY <1>10 DEF Evaluate, calls, Others
  <1> QED
    BY <1>4, <1>5, <1>6, <1>8, <1>9, <1>10 DEF Next, Forward

\* What a call posts it counts, in the file it has locked.
LEMMA ReserveCounts ==
    ASSUME IInv, BudgetInv, NEW r \in Request, Reserve(r), B!Grants(r), stamp[r] = now
    PROVE  /\ file' = [hour |-> now, used |-> (IF file.hour = now THEN file.used ELSE 0) + 1]
  <1>1. /\ seen[r] = file /\ file \in B!File
        /\ file' = [B!Current(r) EXCEPT !.used = @ + 1]
    BY DEF BudgetInv, Reserve, At, B!ReplaceAndUnlock, IInv, TypeOK
  <1> QED
    BY <1>1 DEF B!Current

LEMMA HolderKept ==
    ASSUME IInv, BudgetInv, [Next]_vars
    PROVE  /\ file'.hour <= now'
           /\ \A r \in Request : stamp'[r] <= now'
           /\ \A r \in Request : pc'[r] = "reserving" => lock' = r /\ seen'[r] = file'
           /\ file' = file \/ \E r \in Request : Grants(r)
  <1>1. /\ TypeOK /\ now \in Nat /\ file \in B!File
        /\ \A r \in Request : stamp[r] \in Nat
    BY DEF IInv, TypeOK
  <1>2. ASSUME NEW r \in Request, Fallback(r)
        PROVE  /\ now' = now /\ file' = file /\ lock' = lock /\ seen' = seen
               /\ \A q \in Request : stamp'[q] <= now
               /\ \A q \in Request : pc'[q] = "reserving" => pc[q] = "reserving"
    BY <1>1, <1>2 DEF BudgetInv, Fallback, Goto, B!Ask, TypeOK
  <1>3. ASSUME NEW r \in Request, Lock(r)
        PROVE  /\ now' = now /\ file' = file /\ stamp' = stamp
               /\ \A q \in Request : pc'[q] = "reserving" => lock' = q /\ seen'[q] = file
    <2>1. /\ lock = "nobody" /\ lock' = r /\ seen' = [seen EXCEPT ![r] = file]
          /\ pc' = [pc EXCEPT ![r] = "reserving"]
          /\ now' = now /\ file' = file /\ stamp' = stamp
      BY <1>3 DEF Lock, Goto, B!LockAndRead, B!LockGranted
    <2>2. \A q \in Request : pc[q] # "reserving"
      BY <2>1 DEF BudgetInv
    <2> QED
      BY <1>1, <2>1, <2>2 DEF TypeOK
  <1>4. ASSUME NEW r \in Request, Reserve(r)
        PROVE  /\ now' = now /\ file'.hour <= now
               /\ \A q \in Request : stamp'[q] <= now
               /\ \A q \in Request : pc'[q] = "reserving" => lock' = q /\ seen'[q] = file'
               /\ file' = file \/ Grants(r)
    <2>1. /\ pc[r] = "reserving" /\ lock = r /\ seen[r] = file /\ stamp[r] <= now
      BY <1>4 DEF Reserve, At, BudgetInv
    <2>2. /\ file' = IF B!Grants(r) THEN [B!Current(r) EXCEPT !.used = @ + 1] ELSE file
          /\ stamp' = [stamp EXCEPT ![r] = 0]
          /\ \E next \in {"idle", "primary"} : pc' = [pc EXCEPT ![r] = next]
          /\ now' = now
      BY <1>4 DEF Reserve, Goto, B!ReplaceAndUnlock
    <2>3. \A q \in Request : pc'[q] # "reserving"
      BY <1>1, <2>1, <2>2 DEF BudgetInv, TypeOK
    <2>4. B!Current(r) \in B!File /\ B!Current(r).hour <= now
      BY <1>1, <2>1 DEF B!Current, TypeOK
    <2>5. file'.hour <= now
      BY <2>2, <2>4 DEF BudgetInv
    <2>6. \A q \in Request : stamp'[q] <= now
      BY <1>1, <2>2 DEF BudgetInv, TypeOK
    <2> QED
      BY <1>4, <2>2, <2>3, <2>5, <2>6 DEF Grants
  <1>5. ASSUME NEW p \in Proxy, ProxyDies(p)
        PROVE  /\ now' = now /\ file' = file
               /\ \A q \in Request : stamp'[q] <= now
               /\ \A q \in Request : pc'[q] = "reserving" => lock' = q /\ seen'[q] = file
    BY <1>1, <1>5 DEF BudgetInv, ProxyDies, Lost, B!Forget, TypeOK
  <1>6. CASE Others
    BY <1>1, <1>6 DEF BudgetInv, Others
  <1>7. CASE \E r \in Request : Fallback(r) \/ Lock(r) \/ Reserve(r)
    BY <1>2, <1>3, <1>4, <1>7 DEF BudgetInv
  <1>8. CASE \E p \in Proxy : ProxyDies(p)
    BY <1>5, <1>8 DEF BudgetInv
  <1> QED
    BY <1>6, <1>7, <1>8, BudgetSteps

LEMMA NextBudget ==
    ASSUME IInv, BudgetInv, [HNext]_<<vars, historyVars>>
    PROVE  BudgetInv'
  <1>1. [Next]_vars
    BY DEF HNext
  <1>2. /\ now \in Nat /\ file \in B!File /\ posted \in Nat /\ file.used \in Nat
    BY DEF IInv, TypeOK, BudgetInv
  <1>3. CASE UNCHANGED <<vars, historyVars>>
    BY <1>3 DEF vars, historyVars, calls, BudgetInv
  <1>4. CASE HNext
    <2>1. posted' = IF now' # now THEN 0 ELSE posted + (IF Granted THEN 1 ELSE 0)
      BY <1>4 DEF HNext
    <2>2. posted' \in Nat
      BY <1>2, <2>1
    <2>3. ~late' => posted' <= IF file'.hour = now' THEN file'.used ELSE 0
      <3> SUFFICES ASSUME ~late'
                   PROVE  posted' <= IF file'.hour = now' THEN file'.used ELSE 0
        OBVIOUS
      <3>1. now' = now => ~late /\ ~Late
        BY <1>4 DEF HNext
      <3>2. now' = now => posted <= IF file.hour = now THEN file.used ELSE 0
        BY <3>1 DEF BudgetInv
      <3>3. CASE Granted
        <4>1. PICK r \in Request : Reserve(r) /\ B!Grants(r)
          BY <3>3 DEF Granted, Grants
        <4>2. now' = now
          BY <4>1 DEF Reserve
        <4>3. CASE stamp[r] = now
          <5>1. /\ file'.hour = now
                /\ file'.used = (IF file.hour = now THEN file.used ELSE 0) + 1
            BY <4>1, <4>3, ReserveCounts
          <5> QED
            BY <1>2, <2>1, <3>3, <3>2, <4>2, <5>1
        <4>4. CASE stamp[r] # now
          BY <3>1, <4>1, <4>2, <4>4 DEF Late, Grants
        <4> QED
          BY <4>3, <4>4
      <3>4. CASE ~Granted
        <4>1. file' = file
          BY <1>1, <3>4, HolderKept DEF Granted
        <4>2. CASE now' = now
          BY <1>2, <2>1, <3>4, <3>2, <4>1, <4>2
        <4>3. CASE now' # now
          BY <1>2, <2>1, <4>1, <4>3
        <4> QED
          BY <4>2, <4>3
      <3> QED
        BY <3>3, <3>4
    <2> QED
      BY <1>1, <2>2, <2>3, HolderKept DEF BudgetInv
  <1> QED
    BY <1>3, <1>4

\* All proxies together post no more fallback calls in an hour than the budget,
\* through any crash, unless a call that had waited for the lock since an earlier
\* hour is among them (router/backends.py, _consume_remote_budget).
THEOREM BudgetHolds == HSpec => []HourlyBudget
  <1>1. HInit => IInv /\ BudgetInv
    <2>1. HInit => BudgetInv
      BY DEF HInit, Init, BudgetInv, B!BudgetInit
    <2> QED
      BY <2>1, InitIInv DEF HInit
  <1>2. IInv /\ BudgetInv /\ [HNext]_<<vars, historyVars>> => (IInv /\ BudgetInv)'
    <2>1. [HNext]_<<vars, historyVars>> => [Next]_vars
      BY DEF HNext
    <2> QED
      BY <2>1, NextIInv, NextBudget
  <1>3. IInv /\ BudgetInv => HourlyBudget
    BY DEF IInv, TypeOK, BudgetInv, HourlyBudget
  <1> QED
    BY <1>1, <1>2, <1>3, PTL DEF HSpec

\* Only the passing of time moves the clock, an hour at a time.
LEMMA ClockMoves ==
    ASSUME IInv, [Next]_vars
    PROVE  now' = now \/ Counter!Tick
  <1>1. now \in Hour /\ now' \in Hour
    BY NextIInv DEF IInv, TypeOK
  <1>2. now' \in {now, now + 1}
    BY BudgetSteps DEF Others, Fallback, Lock, Reserve, ProxyDies
  <1> QED
    BY <1>1, <1>2 DEF Counter!Tick

\* A call that is granted is counted in the hour that it read, on top of what the
\* file says of that hour.
LEMMA GrantCounts ==
    ASSUME IInv, BudgetInv, NEW r \in Request, Reserve(r), B!Grants(r),
           posted' = posted + 1
    PROVE  \E hour \in 0..now : Counter!Grant(hour)
  <1>1. /\ seen[r] = file /\ file \in B!File
        /\ stamp[r] \in 0..now
    BY DEF BudgetInv, Reserve, At, IInv, TypeOK
  <1>2. /\ now' = now
        /\ file' = [B!Current(r) EXCEPT !.used = @ + 1]
        /\ file # B!Corrupt /\ B!Current(r).used < MaxPerHour
    BY <1>1 DEF Reserve, B!ReplaceAndUnlock, B!Grants
  <1>3. B!Current(r) = [hour |-> stamp[r], used |-> Counter!CountedIn(stamp[r])]
    BY <1>1 DEF B!Current, Counter!CountedIn
  <1>4. Counter!Grant(stamp[r])
    BY <1>2, <1>3 DEF Counter!Grant, Counter!Broken
  <1> QED
    BY <1>1, <1>4

LEMMA StepCounts ==
    ASSUME IInv, BudgetInv, [HNext]_<<vars, historyVars>>
    PROVE  [Counter!Next]_(Counter!vars)
  <1>1. CASE UNCHANGED <<vars, historyVars>>
    BY <1>1 DEF vars, historyVars, Counter!vars
  <1>2. CASE HNext
    <2>1. /\ [Next]_vars
          /\ posted' = IF now' # now THEN 0 ELSE posted + (IF Granted THEN 1 ELSE 0)
      BY <1>2 DEF HNext
    <2>2. CASE Granted
      <3>1. PICK r \in Request : Reserve(r) /\ B!Grants(r)
        BY <2>2 DEF Granted, Grants
      <3>2. posted' = posted + 1
        BY <2>1, <2>2, <3>1 DEF Reserve
      <3> QED
        BY <3>1, <3>2, GrantCounts DEF Counter!Next
    <2>3. CASE ~Granted
      <3>1. file' = file
        BY <2>1, <2>3, HolderKept DEF Granted
      <3>2. CASE now' = now
        BY <2>1, <2>3, <3>1, <3>2 DEF BudgetInv, Counter!vars
      <3>3. CASE now' # now
        BY <2>1, <3>1, <3>3, ClockMoves DEF Counter!Next, Counter!TurnOfTheHour, Counter!Tick
      <3> QED
        BY <3>2, <3>3
    <2> QED
      BY <2>2, <2>3
  <1> QED
    BY <1>1, <1>2

\* All processes with their file and their lock implement one counter that grants a
\* call and counts it in a single step (router/backends.py, _consume_remote_budget).
THEOREM ImplementsTheCounter == HSpec => CountsEveryCall
  <1>1. HInit => IInv /\ BudgetInv /\ Counter!Init
    <2>1. HInit => BudgetInv /\ Counter!Init
      BY DEF HInit, Init, BudgetInv, B!BudgetInit, Counter!Init, Counter!Fresh, Counter!Broken
    <2> QED
      BY <2>1, InitIInv DEF HInit
  <1>2. IInv /\ BudgetInv /\ [HNext]_<<vars, historyVars>>
        => (IInv /\ BudgetInv)' /\ [Counter!Next]_(Counter!vars)
    <2>1. [HNext]_<<vars, historyVars>> => [Next]_vars
      BY DEF HNext
    <2> QED
      BY <2>1, NextIInv, NextBudget, StepCounts
  <1> QED
    BY <1>1, <1>2, PTL DEF HSpec, CountsEveryCall, Counter!Spec

-----------------------------------------------------------------------------
(* The gates of a request: what it meets there is what the store answered.  *)

\* Past initialize.
InFlight == {"primary", "posted", "fallback", "locking", "reserving"}

\* A request whose session has been in flight since it began, with no rival.
Undisturbed(r) == ProxyOf[r] \in Gateway /\ steady[r] # Unsteady /\ ~rival[r]

\* The session of an undisturbed request is the newest; what its process is about
\* to publish, and past initialize what it has published, is that session.
GateInv ==
    \A r \in Request :
        /\ steady[r] # Unsteady => steady[r] = Newest
        /\ Undisturbed(r) =>
              /\ \A q \in Request :
                    ProxyOf[q] = ProxyOf[r] /\ pc[q] = "publishing" /\ pc[r] # "idle"
                    => held[q].session = steady[r]
              /\ pc[r] \in InFlight => gate[ProxyOf[r]].session = steady[r]

\* What a step does to a gate: nothing, publish what a request holds, or die.
GateMoves(p) ==
    \/ /\ gate'[p].session = gate[p].session
       /\ \A r \in Request : ProxyOf[r] = p /\ pc'[r] \in InFlight => pc[r] \in InFlight
    \/ \E q \in Request : ProxyOf[q] = p /\ pc[q] = "publishing"
                          /\ gate'[p].session = held[q].session
    \/ \A r \in Request : ProxyOf[r] = p => pc'[r] = "idle"

RequestsMove ==
    /\ \A q \in Request : pc'[q] = "publishing" =>
          \/ pc[q] = "publishing" /\ held'[q] = held[q]
          \/ held'[q].session = Newest /\ \A r \in Request : ~Begins(r)
    /\ \A r \in Request : ProxyOf[r] \in Gateway /\ pc'[r] \in InFlight =>
          pc[r] \in InFlight \cup {"publishing"}
    /\ \A p \in Gateway : GateMoves(p)

\* The newest session is the one that get_active_session finds.
LEMMA NewestFound ==
    ASSUME NEW s \in Session \cup {None}, IsNewest(s)
    PROVE  Newest = s
  <1>1. \A t \in Session \cup {None} : IsNewest(t) => t = s
    BY StoreAssumption DEF IsNewest, Open
  <1> QED
    BY <1>1 DEF Newest

\* Steps that no request takes.
LEMMA OthersMove ==
    ASSUME \A r \in Request : pc'[r] = pc[r] /\ held'[r] = held[r], UNCHANGED gate
    PROVE  RequestsMove
  BY DEF RequestsMove, GateMoves

\* A call that is no request moves on.
LEMMA OtherCall ==
    ASSUME TypeOK, NEW c \in Resident \cup OneShot, NEW place, NEW h,
           pc' = [pc EXCEPT ![c] = place],
           held' = held \/ held' = [held EXCEPT ![c] = h],
           UNCHANGED gate
    PROVE  RequestsMove
  BY OthersMove DEF TypeOK

\* A request past initialize goes on or ends.
LEMMA InFlightMoves ==
    ASSUME TypeOK, NEW r \in Request, pc[r] \in InFlight,
           NEW place \in InFlight \cup {"idle"},
           pc' = [pc EXCEPT ![r] = place], UNCHANGED held,
           \A p \in Proxy : gate'[p].session = gate[p].session
    PROVE  RequestsMove
  <1>1. \A q \in Request : pc'[q] = IF q = r THEN place ELSE pc[q]
    BY DEF TypeOK
  <1>2. pc[r] # "idle" /\ place # "publishing"
    BY DEF InFlight
  <1> QED
    BY <1>1, <1>2 DEF RequestsMove, GateMoves, InFlight

LEMMA ChargeKeepsSession ==
    ASSUME TypeOK, NEW r \in Request, Charge(r)
    PROVE  \A p \in Proxy : gate'[p].session = gate[p].session
  BY DEF TypeOK, Charge, Charged

LEMMA ForwardMoves ==
    ASSUME TypeOK, NEW r \in Request, Forward(r)
    PROVE  RequestsMove
  <1>1. CASE Primary(r) \/ Fallback(r)
    <2>1. \A p \in Proxy : gate'[p].session = gate[p].session
      BY <1>1, ChargeKeepsSession DEF Primary, Fallback
    <2> QED
      BY <1>1, <2>1, InFlightMoves DEF Primary, Fallback, At, Goto, InFlight
  <1>2. CASE ~(Primary(r) \/ Fallback(r))
    <2>1. UNCHANGED gate
      BY <1>2 DEF Forward, Passthrough, PrimaryFails, FallbackBlocked, Lock, Reserve, Posted
    <2>2. PICK place \in InFlight \cup {"idle"} :
             pc[r] \in InFlight /\ pc' = [pc EXCEPT ![r] = place] /\ UNCHANGED held
      BY <1>2 DEF Forward, Passthrough, PrimaryFails, FallbackBlocked, Lock, Reserve, Posted,
              At, Goto, InFlight
    <2> QED
      BY <2>1, <2>2, InFlightMoves
  <1> QED
    BY <1>1, <1>2

LEMMA BeginMoves ==
    ASSUME TypeOK, NEW r \in Request, NEW what \in Ops(r), Begin(r, what)
    PROVE  RequestsMove
  <1>1. r \notin Resident /\ what = "request" /\ UNCHANGED gate /\ pc[r] = "idle"
    BY DEF Begin, Ops, At
  <1>2. CASE ProxyOf[r] \notin Gateway
    <2>1. /\ pc' = [pc EXCEPT ![r] = "primary"]
          /\ held' = [held EXCEPT ![r] = Nothing]
      BY <1>1, <1>2 DEF Begin, GoOn, AfterInitialize, Holding
    <2>2. \A q \in Request : pc'[q] = (IF q = r THEN "primary" ELSE pc[q])
                             /\ (q # r => held'[q] = held[q])
      BY <2>1 DEF TypeOK
    <2> QED
      BY <1>1, <1>2, <2>2 DEF RequestsMove, GateMoves, InFlight
  <1>3. CASE ProxyOf[r] \in Gateway
    <2>1. pc' = [pc EXCEPT ![r] = "selecting"] /\ UNCHANGED held
      BY <1>1, <1>3 DEF Begin
    <2>2. \A q \in Request : pc'[q] = IF q = r THEN "selecting" ELSE pc[q]
      BY <2>1 DEF TypeOK
    <2> QED
      BY <1>1, <2>1, <2>2 DEF RequestsMove, GateMoves, InFlight
  <1> QED
    BY <1>2, <1>3

LEMMA SelectMoves ==
    ASSUME TypeOK, NEW r \in Request, Select(r)
    PROVE  RequestsMove
  <1>1. PICK s \in Session \cup {None} :
           /\ IsNewest(s)
           /\ held' = [held EXCEPT ![r] = [session |-> s,
                         paused |-> s # None /\ sessions[s].status = "paused"]]
    BY DEF Select, Holding
  <1>2. pc' = [pc EXCEPT ![r] = "publishing"] /\ UNCHANGED gate /\ pc[r] = "selecting"
    BY DEF Select, Goto, At
  <1>3. /\ \A q \in Request : pc'[q] = IF q = r THEN "publishing" ELSE pc[q]
        /\ \A q \in Request \ {r} : held'[q] = held[q]
        /\ held'[r].session = s
    BY <1>1, <1>2 DEF TypeOK
  <1>4. held'[r].session = Newest /\ \A q \in Request : ~Begins(q)
    BY <1>1, <1>2, <1>3, NewestFound DEF Begins
  <1> QED
    BY <1>2, <1>3, <1>4 DEF RequestsMove, GateMoves, InFlight

LEMMA PublishMoves ==
    ASSUME TypeOK, Referenced, NEW r \in Request, Publish(r)
    PROVE  RequestsMove
  <1> DEFINE place == AfterInitialize(op[r], held[r])
             h == IF op[r] = "stop" THEN held[r] ELSE Nothing
             p == ProxyOf[r]
  <1>1. /\ pc[r] = "publishing"
        /\ pc' = [pc EXCEPT ![r] = place]
        /\ held' = [held EXCEPT ![r] = h]
        /\ gate' = [gate EXCEPT ![p] = [session |-> held[r].session, spent |-> 0]]
    BY DEF Publish, At, GoOn, Holding, Armed
  <1> HIDE DEF place, h
  <1>2. \A q \in Request \ {r} : pc'[q] = pc[q] /\ held'[q] = held[q]
    BY <1>1 DEF TypeOK
  <1>3. /\ gate'[p].session = held[r].session
        /\ \A o \in Proxy \ {p} : gate'[o] = gate[o]
    BY <1>1 DEF TypeOK
  <1>4. pc'[r] # "publishing"
    <2>1. op[r] \in {"start", "stop", "status", "request"}
      BY <1>1 DEF TypeOK, Referenced, CallKnows
    <2>2. place # "publishing"
      BY <2>1 DEF place, AfterInitialize
    <2> QED
      BY <1>1, <2>2 DEF TypeOK
  <1> QED
    BY <1>1, <1>2, <1>3, <1>4 DEF RequestsMove, GateMoves

LEMMA ProxyDiesMoves ==
    ASSUME TypeOK, NEW p \in Proxy, ProxyDies(p)
    PROVE  RequestsMove
  <1>1. /\ \A r \in Request : ProxyOf[r] = p => pc'[r] = "idle"
        /\ \A r \in Request : ProxyOf[r] # p => pc'[r] = pc[r] /\ held'[r] = held[r]
        /\ \A o \in Proxy \ {p} : gate'[o] = gate[o]
    BY DEF ProxyDies, Lost, TypeOK
  <1> QED
    BY <1>1 DEF RequestsMove, GateMoves, InFlight

LEMMA OthersLost ==
    ASSUME TypeOK, NEW dead, Lost(dead), UNCHANGED gate,
           \A r \in Request : r \in dead => pc[r] = "selecting"
    PROVE  RequestsMove
  <1>1. \A r \in Request : \/ pc'[r] = pc[r] /\ held'[r] = held[r]
                           \/ pc'[r] = "idle" /\ pc[r] = "selecting"
    BY DEF Lost, TypeOK
  <1>2. \A p \in Proxy : gate'[p].session = gate[p].session
    OBVIOUS
  <1> QED
    BY <1>1, <1>2 DEF RequestsMove, GateMoves, InFlight

LEMMA LifecycleMoves ==
    ASSUME TypeOK, NEW c \in Resident \cup OneShot, Lifecycle(c)
    PROVE  RequestsMove
  <1>1. CASE Create(c)
    <2>1. PICK s \in Session : held' = [held EXCEPT ![c] = [session |-> s, paused |-> FALSE]]
      BY <1>1 DEF Create, Holding
    <2> QED
      BY <1>1, <2>1, OtherCall DEF Create, Goto
  <1>2. CASE Refused(c)
    BY <1>2, OtherCall DEF Refused, Goto
  <1>3. CASE Created(c)
    BY <1>3, OtherCall DEF Created, Holding, Goto
  <1>4. CASE Stop(c)
    BY <1>4, OtherCall DEF Stop, Goto
  <1>5. CASE Stopped(c)
    BY <1>5, OtherCall DEF Stopped, Holding, Goto
  <1> QED
    BY <1>1, <1>2, <1>3, <1>4, <1>5 DEF Lifecycle

LEMMA InitializeMoves ==
    ASSUME TypeOK, NEW c \in Resident \cup OneShot, Initialize(c)
    PROVE  RequestsMove
  <1>1. c \notin Request
    OBVIOUS
  <1>2. CASE \E what \in Ops(c) : Begin(c, what)
    <2>1. PICK what \in Ops(c) : Begin(c, what)
      BY <1>2
    <2>2. UNCHANGED gate
      BY <2>1 DEF Begin
    <2>3. \/ \E place, h : /\ pc' = [pc EXCEPT ![c] = place]
                          /\ held' = [held EXCEPT ![c] = h]
          \/ \E place : pc' = [pc EXCEPT ![c] = place] /\ held' = held
      BY <2>1 DEF Begin, GoOn, Holding
    <2> QED
      BY <2>2, <2>3, OtherCall
  <1>3. CASE Select(c)
    <2>1. PICK h : held' = [held EXCEPT ![c] = h]
      BY <1>3 DEF Select, Holding
    <2> QED
      BY <1>3, <2>1, OtherCall DEF Select, Goto
  <1>4. CASE Publish(c)
    <2>1. UNCHANGED gate
      BY <1>1, <1>4 DEF Publish
    <2> QED
      BY <1>4, <2>1, OtherCall DEF Publish, GoOn, Holding
  <1> QED
    BY <1>2, <1>3, <1>4 DEF Initialize

LEMMA AllMove == ASSUME IInv, Next PROVE RequestsMove
  <1>1. TypeOK /\ Referenced
    BY DEF IInv
  <1>2. ASSUME NEW c \in Call, Initialize(c) PROVE RequestsMove
    <2>1. CASE c \in Request
      BY <1>1, <1>2, <2>1, BeginMoves, SelectMoves, PublishMoves DEF Initialize
    <2> QED
      BY <1>1, <1>2, <2>1, InitializeMoves
  <1>3. ASSUME NEW constrained \in BOOLEAN, NEW otherReasons \in BOOLEAN,
               Evaluate(constrained, otherReasons)
        PROVE  RequestsMove
    BY <1>3, OthersMove DEF Evaluate
  <1>4. ASSUME TimePasses PROVE RequestsMove
    BY <1>4, OthersMove DEF TimePasses
  <1>5. ASSUME EngineDies PROVE RequestsMove
    BY <1>1, <1>5, OthersLost DEF EngineDies
  <1>6. ASSUME NEW c \in Call, CallDies(c) PROVE RequestsMove
    BY <1>1, <1>6, OthersLost DEF CallDies, At
  <1> QED
    BY <1>1, <1>2, <1>3, <1>4, <1>5, <1>6, LifecycleMoves, ForwardMoves, ProxyDiesMoves DEF Next

LEMMA NextGates ==
    ASSUME IInv, GateInv, [HNext]_<<vars, historyVars>>
    PROVE  GateInv'
  <1>1. CASE UNCHANGED <<vars, historyVars>>
    <2>1. Newest' = Newest
      BY <1>1 DEF vars, Newest, IsNewest, Open
    <2> QED
      BY <1>1, <2>1 DEF vars, historyVars, calls, GateInv, Undisturbed
  <1>2. CASE HNext
    <2>1. RequestsMove
      BY <1>2, AllMove DEF HNext
    <2> SUFFICES ASSUME NEW r \in Request
                 PROVE  /\ steady'[r] # Unsteady => steady'[r] = Newest'
                        /\ Undisturbed(r)' =>
                              /\ \A q \in Request :
                                    ProxyOf[q] = ProxyOf[r] /\ pc'[q] = "publishing" /\ pc'[r] # "idle"
                                    => held'[q].session = steady'[r]
                              /\ pc'[r] \in InFlight => gate'[ProxyOf[r]].session = steady'[r]
      BY DEF GateInv
    <2>2. /\ steady'[r] = IF pc'[r] = "idle" THEN Unsteady
                          ELSE IF Begins(r) THEN Newest'
                          ELSE IF steady[r] = Newest' THEN steady[r] ELSE Unsteady
          /\ rival'[r] = IF pc'[r] = "idle" THEN FALSE
                         ELSE IF Begins(r) THEN Rivals(r) # {} ELSE rival[r]
      BY <1>2 DEF HNext
    <2>3. steady'[r] # Unsteady => steady'[r] = Newest' /\ pc'[r] # "idle"
      BY <2>2
    <2>4. ASSUME Undisturbed(r)', ~Begins(r)
          PROVE  steady'[r] = steady[r] /\ Undisturbed(r) /\ pc[r] # "idle"
      BY <2>2, <2>3, <2>4 DEF Undisturbed, Begins
    <2>5. ASSUME Undisturbed(r)', NEW q \in Request, ProxyOf[q] = ProxyOf[r],
                 pc'[q] = "publishing"
          PROVE  held'[q].session = steady'[r]
      <3>1. CASE Begins(r)
        <4>1. pc[q] = "publishing" /\ pc[r] = "idle"
          BY <2>1, <2>5, <3>1 DEF RequestsMove, Begins
        <4>2. q \in Rivals(r)
          BY <2>5, <4>1 DEF Rivals
        <4> QED
          BY <2>2, <2>5, <3>1, <4>2 DEF Undisturbed, Begins
      <3>2. CASE ~Begins(r)
        <4>1. steady'[r] = steady[r] /\ Undisturbed(r) /\ pc[r] # "idle"
          BY <2>4, <2>5, <3>2
        <4>2. steady[r] = Newest
          BY <4>1 DEF GateInv, Undisturbed
        <4>3. CASE pc[q] = "publishing" /\ held'[q] = held[q]
          BY <2>5, <4>1, <4>3 DEF GateInv
        <4>4. CASE held'[q].session = Newest
          BY <4>1, <4>2, <4>4
        <4> QED
          BY <2>1, <2>5, <4>3, <4>4 DEF RequestsMove
      <3> QED
        BY <3>1, <3>2
    <2>6. ASSUME Undisturbed(r)', pc'[r] \in InFlight
          PROVE  gate'[ProxyOf[r]].session = steady'[r]
      <3>1. ProxyOf[r] \in Gateway /\ pc[r] \in InFlight \cup {"publishing"}
        BY <2>1, <2>6 DEF RequestsMove, Undisturbed
      <3>2. ~Begins(r) /\ pc'[r] # "idle"
        BY <2>6, <3>1 DEF Begins, InFlight
      <3>3. steady'[r] = steady[r] /\ Undisturbed(r) /\ pc[r] # "idle"
        BY <2>4, <2>6, <3>2
      <3>4. GateMoves(ProxyOf[r])
        BY <2>1, <3>1 DEF RequestsMove
      <3> QED
        BY <2>6, <3>2, <3>3, <3>4 DEF GateMoves, GateInv
    <2> QED
      BY <2>3, <2>5, <2>6
  <1> QED
    BY <1>1, <1>2

\* The gates a request of an enriching proxy meets are those of the session that has
\* been in flight since it began, whatever other requests publish meanwhile, unless
\* one of them had read the store before (engine.py, _resume_deep_run_on_restart).
THEOREM GatesAreCurrent == HSpec => []GatesSeeTheSession
  <1>1. HInit => IInv /\ GateInv
    BY InitIInv DEF HInit, GateInv, Undisturbed
  <1>2. IInv /\ GateInv /\ [HNext]_<<vars, historyVars>> => (IInv /\ GateInv)'
    <2>1. [HNext]_<<vars, historyVars>> => [Next]_vars
      BY DEF HNext
    <2> QED
      BY <2>1, NextIInv, NextGates
  <1>3. GateInv => GatesSeeTheSession
    BY DEF GateInv, Undisturbed, InFlight, GatesSeeTheSession
  <1> QED
    BY <1>1, <1>2, <1>3, PTL DEF HSpec

=============================================================================
