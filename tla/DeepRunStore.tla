----------------------------- MODULE DeepRunStore -----------------------------
(***************************************************************************)
(* The table deep_run_sessions in SQLite (store/deep_run.py), shared by    *)
(* every process of a repository: one operator per statement.  Sessions    *)
(* are numbered by started_at, which is read just before the INSERT.       *)
(***************************************************************************)
EXTENDS Clock

CONSTANTS
    MaxSessions,  \* bound: sessions ever started
    Windows,      \* the ends_at a session may be started with
    Policies      \* its locality and cost cap, in calls of the estimated cost

ASSUME StoreAssumption ==
    /\ MaxSessions \in Nat
    /\ Windows \subseteq Nat
    /\ Policies \subseteq [localOnly : BOOLEAN, cap : Nat]

VARIABLE sessions

Session == 1..MaxSessions
None == 0

\* "over" stands for "ended" and "killed", which nothing tells apart.
Statuses == {"active", "paused", "over"}

\* The columns the program reads again, spend_usd apart: nothing that runs
\* flushes the spend, so it stays the 0 the row was inserted with.
Row == [status : Statuses, ends : Windows, policy : Policies]
Unborn == [status |-> "unborn"]

Active == {s \in Session : sessions[s].status = "active"}
Open == {s \in Session : sessions[s].status \in {"active", "paused"}}
Over(s) == sessions[s].status = "over"

SessionsInit == sessions = [s \in Session |-> Unborn]

IsNewestOfAll(s) ==       \* mutant: no WHERE status IN ('active', 'paused')
    LET born == {t \in Session : sessions[t].status # "unborn"}
    IN  \/ born = {} /\ s = None
        \/ s \in born /\ \A t \in born : t <= s

\* get_active_session finds s: a paused session is in flight, too.
IsNewest(s) ==
    \/ Open = {} /\ s = None
    \/ s \in Open /\ \A t \in Open : t <= s

\* create_session refuses a second active row, in one BEGIN IMMEDIATE.
MayInsert == Active = {}

Inserted(s, ends, policy) ==
    [sessions EXCEPT ![s] = [status |-> "active", ends |-> ends, policy |-> policy]]

AnyStatus(s, status) == TRUE     \* mutant: the index does not cover an UPDATE

\* The unique partial index on status = 'active', on an UPDATE of row s.
IndexAdmits(s, status) == status = "active" => Active \subseteq {s}

\* update_session_status, which does not ask what the status was.
WithStatus(s, status) == [sessions EXCEPT ![s].status = status]

\* close_expired_sessions
Closed ==
    [s \in Session |-> IF s \in Open /\ sessions[s].ends <= now
                       THEN [sessions[s] EXCEPT !.status = "over"]
                       ELSE sessions[s]]

==============================================================================
