----------------------------- MODULE RateLimiter -----------------------------
(***************************************************************************)
(* The database-backed rate limiter of tools/cow/semaphore.py.  Every      *)
(* caller runs RateLimiter.enforce: SELECT ... FOR UPDATE the row of the   *)
(* rate id, look at the clock, then insert the row (first use), update it  *)
(* (interval elapsed) or sleep inside the transaction and start over.      *)
(*                                                                         *)
(* RowLocks tells the two engines apart.  On Postgres FOR UPDATE locks an  *)
(* existing row until the transaction ends.  SQLite, the engine of         *)
(* FALLBACK_SQL_ENGINE, ignores FOR UPDATE, and its driver opens no        *)
(* transaction for a SELECT, so nothing is locked between read and write.  *)
(*                                                                         *)
(* Tasks are the callers that go through AsyncRateLimiter in one process   *)
(* and so share its semaphore; the others are sync callers or processes.   *)
(*                                                                         *)
(* Time is counted in units of the 0.5 s back-off.  A commit may fail with *)
(* an OperationalError whether or not the server applied it.               *)
(***************************************************************************)
EXTENDS Integers, Sequences

CONSTANTS
    Callers,      \* threads, tasks or processes that share one rate id
    Tasks,        \* the callers behind one AsyncRateLimiter semaphore
    Interval,     \* RateLimiter.interval
    Timeout,      \* timeout_seconds
    Skew,         \* how far each caller's clock runs ahead of real time
    MaxSkew,      \* bound on the skews
    RowLocks,     \* TRUE on Postgres, FALSE on SQLite
    Prompt,       \* TRUE: time passes only when no caller can take a step
    MaxTime,      \* bound: time at which an idle system stops
    MaxRequests,  \* bound: requests per caller
    MaxErrors,    \* bound: OperationalErrors in all
    NoRow,        \* the table holds no row for this rate id
    NoCaller      \* nobody holds a lock

ASSUME BoundsAssumption ==
    /\ Interval \in Nat /\ Timeout \in Nat /\ MaxSkew \in Nat
    /\ MaxTime \in Nat /\ MaxRequests \in Nat /\ MaxErrors \in Nat
    /\ RowLocks \in BOOLEAN /\ Prompt \in BOOLEAN

ASSUME SkewAssumption == Skew \in [Callers -> 0..MaxSkew]

ASSUME CallersAssumption ==
    Tasks \subseteq Callers /\ NoCaller \notin Callers /\ NoRow \notin Int

VARIABLES
    now,       \* real time
    row,       \* RateLimit.last_called_at as committed, or NoRow
    lock,      \* holder of the Postgres row lock
    sem,       \* holder of AsyncRateLimiter._semaphore
    pc,        \* where each caller is in enforce
    start,     \* start_time of the running enforce
    seen,      \* the row as this caller's SELECT returned it
    stamp,     \* the utcnow() this caller is about to write
    until,     \* end of time.sleep
    requests,  \* requests made so far
    errors,    \* OperationalErrors so far
    grants     \* history: the allowed calls in the order of their commits

vars == <<now, row, lock, sem, pc, start, seen, stamp, until, requests,
          errors, grants>>

Ended == {"idle", "granted", "conflict", "timeout"}
Running == {"select", "read", "insert", "update", "asleep", "backoff"}
Grant == [by : Callers, at : Int]

TypeOK ==
    /\ now \in Nat
    /\ row \in Int \cup {NoRow}
    /\ lock \in Callers \cup {NoCaller}
    /\ sem \in Callers \cup {NoCaller}
    /\ pc \in [Callers -> Ended \cup Running \cup {"queued"}]
    /\ start \in [Callers -> Nat]
    /\ seen \in [Callers -> Int \cup {NoRow}]
    /\ stamp \in [Callers -> Int]
    /\ until \in [Callers -> Int]
    /\ requests \in [Callers -> Nat]
    /\ errors \in Nat
    /\ grants \in Seq(Grant)

Init ==
    /\ now = 0
    /\ row = NoRow
    /\ lock = NoCaller
    /\ sem = NoCaller
    /\ pc = [c \in Callers |-> "idle"]
    /\ start = [c \in Callers |-> 0]
    /\ seen = [c \in Callers |-> NoRow]
    /\ stamp = [c \in Callers |-> 0]
    /\ until = [c \in Callers |-> 0]
    /\ requests = [c \in Callers |-> 0]
    /\ errors = 0
    /\ grants = <<>>

-----------------------------------------------------------------------------
Goto(c, place) == pc' = [pc EXCEPT ![c] = place]

\* utcnow() on this caller's machine.
Clock(c) == now + Skew[c]

\* The transaction of c is over: its row lock, if it had one, is free.
ReleaseLock(c) == lock' = IF lock = c THEN NoCaller ELSE lock

\* enforce returns or raises, and the "async with" of its wrapper is left.
Leave(c, outcome) ==
    /\ Goto(c, outcome)
    /\ sem' = IF sem = c THEN NoCaller ELSE sem
    /\ start' = [start EXCEPT ![c] = 0]

\* Locals that nothing reads any more are reset to their initial values.
Forget(local, c, none) == [local EXCEPT ![c] = none]

\* A call of the decorated function.
Request(c) ==
    /\ pc[c] \in Ended
    /\ requests[c] < MaxRequests
    /\ requests' = [requests EXCEPT ![c] = @ + 1]
    /\ \/ c \in Tasks /\ Goto(c, "queued") /\ UNCHANGED start
       \/ c \notin Tasks /\ Goto(c, "select") /\ start' = [start EXCEPT ![c] = now]
    /\ UNCHANGED <<now, row, lock, sem, seen, stamp, until, errors, grants>>

\* An async task gets the semaphore and starts enforce in a thread.
EnterSemaphore(c) ==
    /\ pc[c] = "queued"
    /\ sem = NoCaller
    /\ sem' = c
    /\ Goto(c, "select")
    /\ start' = [start EXCEPT ![c] = now]
    /\ UNCHANGED <<now, row, lock, seen, stamp, until, requests, errors,
                   grants>>

\* Mutant: the SELECT without with_for_update().
MutSelect(c) ==
    /\ pc[c] = "select"
    /\ seen' = [seen EXCEPT ![c] = row]
    /\ Goto(c, "read")
    /\ UNCHANGED <<now, row, lock, sem, start, stamp, until, requests, errors,
                   grants>>

\* FOR UPDATE waits for the lock of an existing row; a missing row locks
\* nothing.
CanSelect(c) == (RowLocks /\ row # NoRow) => lock = NoCaller

Select(c) ==
    /\ pc[c] = "select"
    /\ CanSelect(c)
    /\ seen' = [seen EXCEPT ![c] = row]
    /\ lock' = IF RowLocks /\ row # NoRow THEN c ELSE lock
    /\ Goto(c, "read")
    /\ UNCHANGED <<now, row, sem, start, stamp, until, requests, errors,
                   grants>>

\* No row: RateLimit(id=...) takes its own utcnow() as last_called_at.
FirstUse(c) ==
    /\ pc[c] = "read"
    /\ seen[c] = NoRow
    /\ stamp' = [stamp EXCEPT ![c] = Clock(c)]
    /\ Goto(c, "insert")
    /\ UNCHANGED <<now, row, lock, sem, start, seen, until, requests, errors,
                   grants>>

\* Mutant: the interval is compared with one unit of tolerance.
MutAllow(c) ==
    /\ pc[c] = "read"
    /\ seen[c] # NoRow
    /\ Clock(c) - seen[c] >= Interval - 1
    /\ stamp' = [stamp EXCEPT ![c] = Clock(c)]
    /\ seen' = Forget(seen, c, NoRow)
    /\ Goto(c, "update")
    /\ UNCHANGED <<now, row, lock, sem, start, until, requests, errors,
                   grants>>

\* elapsed >= interval: the row will be set to the clock just read.
Allow(c) ==
    /\ pc[c] = "read"
    /\ seen[c] # NoRow
    /\ Clock(c) - seen[c] >= Interval
    /\ stamp' = [stamp EXCEPT ![c] = Clock(c)]
    /\ seen' = Forget(seen, c, NoRow)
    /\ Goto(c, "update")
    /\ UNCHANGED <<now, row, lock, sem, start, until, requests, errors,
                   grants>>

\* Too early: sleep for the rest of the interval with the transaction open.
Sleep(c) ==
    /\ pc[c] = "read"
    /\ seen[c] # NoRow
    /\ Clock(c) - seen[c] < Interval
    /\ until' = [until EXCEPT ![c] = now + Interval - (Clock(c) - seen[c])]
    /\ seen' = Forget(seen, c, NoRow)
    /\ Goto(c, "asleep")
    /\ UNCHANGED <<now, row, lock, sem, start, stamp, requests, errors,
                   grants>>

\* Mutant: the loop starts again without ending the transaction.
MutWake(c) ==
    /\ pc[c] = "asleep"
    /\ now >= until[c]
    /\ until' = Forget(until, c, 0)
    /\ Goto(c, "select")
    /\ UNCHANGED <<now, row, lock, sem, start, seen, stamp, requests, errors,
                   grants>>

\* The sleep is over, the transaction ends, the loop starts again.
Wake(c) ==
    /\ pc[c] = "asleep"
    /\ now >= until[c]
    /\ ReleaseLock(c)
    /\ until' = Forget(until, c, 0)
    /\ Goto(c, "select")
    /\ UNCHANGED <<now, row, sem, start, seen, stamp, requests, errors,
                   grants>>

GrantOf(c) == [by |-> c, at |-> stamp[c] - Skew[c]]

\* The INSERT is flushed and committed, or hits the primary key of a row
\* that another first user committed meanwhile: IntegrityError, which
\* enforce does not catch.
CommitInsert(c) ==
    /\ pc[c] = "insert"
    /\ \/ /\ row = NoRow
          /\ row' = stamp[c]
          /\ grants' = Append(grants, GrantOf(c))
          /\ Leave(c, "granted")
       \/ /\ row # NoRow
          /\ Leave(c, "conflict")
          /\ UNCHANGED <<row, grants>>
    /\ stamp' = Forget(stamp, c, 0)
    /\ UNCHANGED <<now, lock, seen, until, requests, errors>>

CommitUpdate(c) ==
    /\ pc[c] = "update"
    /\ row' = stamp[c]
    /\ grants' = Append(grants, GrantOf(c))
    /\ ReleaseLock(c)
    /\ stamp' = Forget(stamp, c, 0)
    /\ Leave(c, "granted")
    /\ UNCHANGED <<now, seen, until, requests, errors>>

\* An OperationalError while selecting or committing.  The transaction is
\* over; the server may have applied the write it could not confirm.  Only
\* here does enforce look at its timeout.
DbError(c, fate) ==
    /\ \/ pc[c] \in {"select", "insert", "update"}
       \/ pc[c] = "asleep" /\ now >= until[c]
    /\ fate = "applied" =>
           pc[c] = "update" \/ (pc[c] = "insert" /\ row = NoRow)
    /\ errors < MaxErrors
    /\ errors' = errors + 1
    /\ row' = IF fate = "applied" THEN stamp[c] ELSE row
    /\ ReleaseLock(c)
    /\ \/ /\ now - start[c] > Timeout
          /\ Leave(c, "timeout")
          /\ until' = Forget(until, c, 0)
       \/ /\ now - start[c] <= Timeout
          /\ Goto(c, "backoff")
          /\ until' = [until EXCEPT ![c] = now + 1]
          /\ UNCHANGED <<sem, start>>
    /\ stamp' = Forget(stamp, c, 0)
    /\ UNCHANGED <<now, seen, requests, grants>>

\* time.sleep(0.5) is over.
Retry(c) ==
    /\ pc[c] = "backoff"
    /\ now >= until[c]
    /\ until' = Forget(until, c, 0)
    /\ Goto(c, "select")
    /\ UNCHANGED <<now, row, lock, sem, start, seen, stamp, requests, errors,
                   grants>>

Step(c) ==
    \/ EnterSemaphore(c) \/ Select(c) \/ FirstUse(c) \/ Allow(c) \/ Sleep(c)
    \/ Wake(c) \/ CommitInsert(c) \/ CommitUpdate(c) \/ Retry(c)

Asleep(c) == pc[c] \in {"asleep", "backoff"} /\ now < until[c]

\* A step of c is enabled.
Runnable(c) ==
    \/ pc[c] \in {"read", "insert", "update"}
    \/ pc[c] = "select" /\ CanSelect(c)
    \/ pc[c] = "queued" /\ sem = NoCaller
    \/ pc[c] \in {"asleep", "backoff"} /\ now >= until[c]

Tick ==
    /\ now < MaxTime \/ \E c \in Callers : Asleep(c)
    /\ Prompt => \A c \in Callers : ~Runnable(c)
    /\ now' = now + 1
    /\ UNCHANGED <<row, lock, sem, pc, start, seen, stamp, until, requests,
                   errors, grants>>

Next ==
    \/ \E c \in Callers :
        \/ Request(c)
        \/ Step(c)
        \/ \E fate \in {"applied", "lost"} : DbError(c, fate)
    \/ Tick

Spec == Init /\ [][Next]_vars

\* The operating system runs every thread, clocks advance and Postgres hands
\* a free row lock to a waiter; nothing obliges a caller to make a request or
\* the database to fail.
Fairness ==
    /\ \A c \in Callers : WF_vars(Step(c))
    /\ WF_vars(Tick)

FairSpec == Spec /\ Fairness

-----------------------------------------------------------------------------
StampOf(g) == g.at + Skew[g.by]

Stamps == [i \in DOMAIN grants |-> StampOf(grants[i])]

Abstract == INSTANCE Pacing WITH last <- row, granted <- Stamps

(***************************************************************************)
(* What the limiter is for: two allowed calls are at least Interval apart  *)
(* in real time, less what the callers' clocks disagree (enforce compares  *)
(* its own utcnow() with the one another machine wrote).                   *)
(***************************************************************************)
GrantSpacing ==
    \A i, j \in DOMAIN grants :
        i < j => grants[j].at - grants[i].at >= Interval - MaxSkew

(***************************************************************************)
(* last_called_at only moves forward, by a whole interval each time, even  *)
(* when a commit whose answer was lost is retried.                         *)
(***************************************************************************)
RowAdvances ==
    [][row # NoRow => (row' # NoRow /\ row' - row >= Interval)]_row

(***************************************************************************)
(* The callers, their locks, sleeps and retries implement Pacing: each     *)
(* move of last_called_at is a whole interval, and nobody is allowed       *)
(* without such a move of his own, whatever answers of the database are    *)
(* lost.                                                                   *)
(***************************************************************************)
ImplementsPacing == Abstract!Spec

(***************************************************************************)
(* Every request ends, by permission or by an exception: nobody sleeps     *)
(* with the row lock for ever and no waiter is overtaken for ever by the   *)
(* finitely many requests of the others.                                   *)
(***************************************************************************)
EveryRequestEnds ==
    \A c \in Callers : pc[c] \in Running \cup {"queued"} ~> pc[c] \in Ended

=============================================================================
