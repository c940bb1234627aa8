----------------------------- MODULE RemoteBudget -----------------------------
(***************************************************************************)
(* The hourly budget of fallback calls (router/backends.py): a JSON file   *)
(* that every proxy process of a repository reads and replaces under an    *)
(* flock.  The hour is read before the lock is asked for.                  *)
(***************************************************************************)
EXTENDS Clock

CONSTANTS
    Caller,      \* whoever asks for a fallback call
    MaxPerHour   \* remote_budget_per_hour

VARIABLES
    file,    \* remote_budget.json
    lock,    \* who holds the flock
    stamp,   \* the hour a caller read on entry
    seen     \* what a caller has read of the file

budgetVars == <<file, lock, stamp, seen>>

\* A file is there or not yet; a truncated one can be left by an older version.
NoFile == [hour |-> -1, used |-> 0]
Corrupt == [hour |-> -2, used |-> 0]
File == [hour : {-2, -1} \cup Hour, used : 0..MaxPerHour]

BudgetInit ==
    /\ file \in {NoFile, Corrupt}
    /\ lock = "nobody"
    /\ stamp = [c \in Caller |-> 0]
    /\ seen = [c \in Caller |-> NoFile]

\* _consume_remote_budget, up to the request for the lock.
Ask(c) == stamp' = [stamp EXCEPT ![c] = now] /\ UNCHANGED <<file, lock, seen>>

LockIgnored(c) == TRUE       \* mutant: read and replace with no lock
LockGranted(c) == lock = "nobody"

LockAndRead(c) ==
    /\ LockGranted(c)
    /\ lock' = c
    /\ seen' = [seen EXCEPT ![c] = file]
    /\ UNCHANGED <<file, stamp>>

\* The state it goes on from: a file of another hour, or none, counts as 0.
Current(c) == IF seen[c].hour = stamp[c]
              THEN seen[c]
              ELSE [hour |-> stamp[c], used |-> 0]

GrantsOneMore(c) == seen[c] # Corrupt /\ Current(c).used <= MaxPerHour  \* mutant
GrantsFromZero(c) == Current(c).used < MaxPerHour      \* mutant: resets what it cannot read
Grants(c) == seen[c] # Corrupt /\ Current(c).used < MaxPerHour

\* The file is replaced at once, or left alone, and the lock released.
ReplaceAndUnlock(c) ==
    /\ file' = IF Grants(c) THEN [Current(c) EXCEPT !.used = @ + 1] ELSE file
    /\ lock' = IF lock = c THEN "nobody" ELSE lock
    /\ stamp' = [stamp EXCEPT ![c] = 0]
    /\ seen' = [seen EXCEPT ![c] = NoFile]

\* The callers of a process that dies: the kernel releases the lock.
Forget(callers) ==
    /\ lock' = IF lock \in callers THEN "nobody" ELSE lock
    /\ stamp' = [c \in Caller |-> IF c \in callers THEN 0 ELSE stamp[c]]
    /\ seen' = [c \in Caller |-> IF c \in callers THEN NoFile ELSE seen[c]]
    /\ UNCHANGED file

==============================================================================
