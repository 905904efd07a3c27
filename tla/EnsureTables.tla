---------------------------- MODULE EnsureTables ----------------------------
(***************************************************************************)
(* Creating the tables before their first use: EnsureTableManager and      *)
(* DBManager (tools/db/db_manager.py).  Threads call ensure_tables_sync,   *)
(* tasks call ensure_tables_async, whose creation runs in a thread too.    *)
(* Each kind has a lock of its own.  DBManager's singleton has none: its   *)
(* lookup, registration and initialisation interleave with those of other  *)
(* threads, so a thread may replace the instance another registered, or    *)
(* initialise one a second time and forget which tables it had created.    *)
(*                                                                         *)
(* The database is the environment: create_all first looks whether the     *)
(* table exists, and a CREATE of one that exists by then is an error.  A   *)
(* look or a CREATE may also fail, with or without effect, because the     *)
(* connection does.                                                        *)
(***************************************************************************)
EXTENDS Naturals

CONSTANTS
    SyncCallers,   \* threads
    AsyncCallers,  \* tasks
    Nobody,        \* holder of a free lock
    MaxCalls,      \* bound: calls of one caller
    MaxErrors      \* bound: statements that fail with the connection

Callers == SyncCallers \cup AsyncCallers

ASSUME EnsureAssumption ==
    /\ SyncCallers \cap AsyncCallers = {}
    /\ Nobody \notin Callers
    /\ MaxCalls \in Nat \ {0} /\ MaxErrors \in Nat

VARIABLES
    active,       \* callers that use the tables at all
    pc,
    calls,        \* calls begun by each caller
    threadLock,   \* _lock_thread
    asyncLock,    \* _lock_async
    ensured,      \* _ensured[db_url]
    instance,     \* _instances[args_hash]; 0: none yet
    made,         \* DBManager objects allocated
    mine,         \* the instance a caller works with
    initialized,  \* instances with _initialized
    marked,       \* instances whose cache_table_initialized has the table
    exists,       \* database: the table
    seen,         \* the caller's look at the database
    creates,      \* CREATE statements executed
    errors

manager == <<instance, made, mine, initialized, marked>>
locks == <<threadLock, asyncLock>>
db == <<exists, creates, errors>>
ensureVars == <<active, pc, calls, threadLock, asyncLock, ensured, instance,
                made, mine, initialized, marked, exists, seen, creates,
                errors>>

\* Places inside the lock.
Critical == {"recheck", "lookup", "register", "get", "init", "setup", "check",
             "inspect", "create", "mark", "ensure", "release", "raise"}
Places == {"call", "lock", "ready", "failed"} \cup Critical

EnsureTypeOK ==
    /\ active \subseteq Callers
    /\ pc \in [Callers -> Places]
    /\ calls \in [Callers -> 0..MaxCalls]
    /\ threadLock \in SyncCallers \cup {Nobody}
    /\ asyncLock \in AsyncCallers \cup {Nobody}
    /\ ensured \in BOOLEAN
    /\ instance \in Nat /\ made \in Nat
    /\ mine \in [Callers -> Nat]
    /\ initialized \subseteq Nat /\ marked \subseteq initialized
    /\ exists \in BOOLEAN
    /\ seen \in [Callers -> BOOLEAN]
    /\ creates \in Nat /\ errors \in 0..MaxErrors

EnsureInit ==
    /\ active \in SUBSET Callers
    /\ pc = [c \in Callers |-> "call"]
    /\ calls = [c \in Callers |-> 0]
    /\ threadLock = Nobody /\ asyncLock = Nobody
    /\ ensured = FALSE
    /\ instance = 0 /\ made = 0
    /\ mine = [c \in Callers |-> 0]
    /\ initialized = {} /\ marked = {}
    /\ exists = FALSE
    /\ seen = [c \in Callers |-> FALSE]
    /\ creates = 0 /\ errors = 0

-----------------------------------------------------------------------------
Goto(c, place) == pc' = [pc EXCEPT ![c] = place]
At(c, place) == pc[c] = place

\* Mutant: the tables are taken for ready while their lock is held.
MutCall(c) ==
    /\ c \in active /\ At(c, "call")
    /\ calls[c] < MaxCalls /\ calls' = [calls EXCEPT ![c] = @ + 1]
    /\ Goto(c, IF ensured \/ threadLock # Nobody THEN "ready" ELSE "lock")
    /\ UNCHANGED <<active, locks, ensured, manager, db, seen>>

\* The first, unlocked look at _ensured.
Call(c) ==
    /\ c \in active /\ At(c, "call")
    /\ calls[c] < MaxCalls /\ calls' = [calls EXCEPT ![c] = @ + 1]
    /\ Goto(c, IF ensured THEN "ready" ELSE "lock")
    /\ UNCHANGED <<active, locks, ensured, manager, db, seen>>

\* Mutant: the lock is not waited for.
MutAcquire(c) ==
    /\ At(c, "lock")
    /\ \/ c \in SyncCallers /\ threadLock' = c /\ UNCHANGED asyncLock
       \/ c \in AsyncCallers /\ asyncLock' = c /\ UNCHANGED threadLock
    /\ Goto(c, "recheck")
    /\ UNCHANGED <<active, calls, ensured, manager, db, seen>>

Acquire(c) ==
    /\ At(c, "lock")
    /\ \/ /\ c \in SyncCallers /\ threadLock = Nobody
          /\ threadLock' = c /\ UNCHANGED asyncLock
       \/ /\ c \in AsyncCallers /\ asyncLock = Nobody
          /\ asyncLock' = c /\ UNCHANGED threadLock
    /\ Goto(c, "recheck")
    /\ UNCHANGED <<active, calls, ensured, manager, db, seen>>

\* The second look, under the lock.
Recheck(c) ==
    /\ At(c, "recheck")
    /\ Goto(c, IF ensured THEN "release" ELSE "lookup")
    /\ UNCHANGED <<active, calls, locks, ensured, manager, db, seen>>

\* DBManager.__new__: is an instance registered?
Lookup(c) ==
    /\ At(c, "lookup")
    /\ Goto(c, IF instance = 0 THEN "register" ELSE "get")
    /\ UNCHANGED <<active, calls, locks, ensured, manager, db, seen>>

Register(c) ==
    /\ At(c, "register")
    /\ made' = made + 1
    /\ instance' = made + 1
    /\ Goto(c, "get")
    /\ UNCHANGED <<active, calls, locks, ensured, mine, initialized, marked,
                   db, seen>>

\* __new__ returns what is registered by now.
Get(c) ==
    /\ At(c, "get")
    /\ mine' = [mine EXCEPT ![c] = instance]
    /\ Goto(c, "init")
    /\ UNCHANGED <<active, calls, locks, ensured, instance, made, initialized,
                   marked, db, seen>>

\* DBManager.__init__ returns at once if it has run already.
InitManager(c) ==
    /\ At(c, "init")
    /\ Goto(c, IF mine[c] \in initialized THEN "check" ELSE "setup")
    /\ UNCHANGED <<active, calls, locks, ensured, manager, db, seen>>

\* A new engine, an empty cache_table_initialized.
Setup(c) ==
    /\ At(c, "setup")
    /\ initialized' = initialized \cup {mine[c]}
    /\ marked' = marked \ {mine[c]}
    /\ Goto(c, "check")
    /\ UNCHANGED <<active, calls, locks, ensured, instance, made, mine, db,
                   seen>>

\* create_tables: is the table marked in this instance?
Check(c) ==
    /\ At(c, "check")
    /\ Goto(c, IF mine[c] \in marked THEN "ensure" ELSE "inspect")
    /\ UNCHANGED <<active, calls, locks, ensured, manager, db, seen>>

\* create_all looks whether the table exists.
Inspect(c) ==
    /\ At(c, "inspect")
    /\ seen' = [seen EXCEPT ![c] = exists]
    /\ Goto(c, IF exists THEN "mark" ELSE "create")
    /\ UNCHANGED <<active, calls, locks, ensured, manager, db>>

\* create_all sends CREATE TABLE and the transaction commits.
Create(c) ==
    /\ At(c, "create")
    /\ creates' = creates + 1
    /\ exists' = TRUE
    /\ Goto(c, IF exists THEN "raise" ELSE "mark")
    /\ UNCHANGED <<active, calls, locks, ensured, manager, seen, errors>>

\* The connection fails during the look, or around CREATE or its commit: the
\* table may be there when the error arrives.
ConnectionFails(c) ==
    /\ errors < MaxErrors /\ errors' = errors + 1
    /\ \/ At(c, "inspect") /\ UNCHANGED <<exists, creates>>
       \/ At(c, "create") /\ UNCHANGED <<exists, creates>>
       \/ At(c, "create") /\ exists' = TRUE /\ creates' = creates + 1
    /\ Goto(c, "raise")
    /\ UNCHANGED <<active, calls, locks, ensured, manager, seen>>

Mark(c) ==
    /\ At(c, "mark")
    /\ marked' = marked \cup {mine[c]}
    /\ Goto(c, "ensure")
    /\ UNCHANGED <<active, calls, locks, ensured, instance, made, mine,
                   initialized, db, seen>>

\* mark_ensured.
Ensure(c) ==
    /\ At(c, "ensure")
    /\ ensured' = TRUE
    /\ Goto(c, "release")
    /\ UNCHANGED <<active, calls, locks, manager, db, seen>>

Unlock(c) ==
    \/ c \in SyncCallers /\ threadLock' = Nobody /\ UNCHANGED asyncLock
    \/ c \in AsyncCallers /\ asyncLock' = Nobody /\ UNCHANGED threadLock

Release(c) ==
    /\ At(c, "release")
    /\ Unlock(c)
    /\ Goto(c, "ready")
    /\ UNCHANGED <<active, calls, ensured, manager, db, seen>>

\* Mutant: an exception leaves the lock taken.
MutRaise(c) ==
    /\ At(c, "raise")
    /\ Goto(c, "failed")
    /\ UNCHANGED <<active, calls, locks, ensured, manager, db, seen>>

\* The database error passes through the with statement to the caller.
Raise(c) ==
    /\ At(c, "raise")
    /\ Unlock(c)
    /\ Goto(c, "failed")
    /\ UNCHANGED <<active, calls, ensured, manager, db, seen>>

\* A caller whose call failed may make another.
CallAgain(c) ==
    /\ At(c, "failed") /\ calls[c] < MaxCalls
    /\ Goto(c, "call")
    /\ UNCHANGED <<active, calls, locks, ensured, manager, db, seen>>

EnsureStep(c) ==
    \/ Call(c) \/ Acquire(c) \/ Recheck(c) \/ Lookup(c) \/ Register(c)
    \/ Get(c) \/ InitManager(c) \/ Setup(c) \/ Check(c) \/ Inspect(c)
    \/ Create(c) \/ ConnectionFails(c) \/ Mark(c) \/ Ensure(c) \/ Release(c)
    \/ Raise(c) \/ CallAgain(c)

EnsureNext == \E c \in Callers : EnsureStep(c)

EnsureSpec ==
    /\ EnsureInit /\ [][EnsureNext]_ensureVars
    /\ \A c \in Callers : WF_ensureVars(EnsureStep(c))

-----------------------------------------------------------------------------
(***************************************************************************)
(* A call that returns finds the tables there, whatever became of marks    *)
(* and instances on the way.                                               *)
(***************************************************************************)
TablesBeforeUse ==
    (\E c \in Callers : pc[c] = "ready") \/ ensured \/ marked # {} => exists

(***************************************************************************)
(* Each lock keeps callers of its kind from creating at the same time.     *)
(***************************************************************************)
OneCreatorPerKind ==
    \A c, d \in Callers :
        /\ pc[c] \in Critical /\ pc[d] \in Critical
        /\ c \in SyncCallers <=> d \in SyncCallers
        => c = d

(***************************************************************************)
(* Callers of one kind create the tables once, also when the answer to     *)
(* that CREATE is lost, and none of their calls fails unless the           *)
(* connection does.                                                        *)
(***************************************************************************)
OneKindCreatesOnce ==
    active \subseteq SyncCallers \/ active \subseteq AsyncCallers =>
        /\ creates <= 1
        /\ errors = 0 => \A c \in Callers : pc[c] \notin {"raise", "failed"}

(***************************************************************************)
(* Every call returns or raises: no failure inside the lock, and no look   *)
(* at _ensured before it, keeps a caller waiting for ever.                 *)
(***************************************************************************)
EveryCallEnds ==
    \A c \in Callers : c \in active ~> pc[c] \in {"ready", "failed"}

=============================================================================
