------------------------------ MODULE DbCache ------------------------------
(***************************************************************************)
(* A function under @db_cache (tools/caches/db_cache.py), called with one  *)
(* set of arguments by the threads and tasks of EnsureTables, over the     *)
(* tables those create; clear_cache runs beside them.                      *)
(*                                                                         *)
(* A row is named by its created_at; what the function computed does not   *)
(* matter here.  A task's save runs in a thread of its own after the call  *)
(* returned.  The clock counts fractions of a second, while                *)
(* valid_until_timestamp is in whole seconds.                              *)
(***************************************************************************)
EXTENDS EnsureTables

CONSTANTS
    MaxAges,    \* values of max_age to explore; Forever: none
    Forever,
    Second,     \* clock ticks in a second
    MaxTime     \* bound: clock

ASSUME CacheAssumption ==
    /\ MaxAges \subseteq Nat \cup {Forever} /\ Forever \notin Nat
    /\ Second \in Nat \ {0}
    /\ MaxTime \in Nat

VARIABLES
    now,
    maxAge, keep,  \* arguments of the decorator
    enabled,       \* ENABLE_CACHE
    typed,         \* the return type is a pydantic model
    phase,         \* where a caller is once the tables are there
    saving,        \* saves of tasks that are still to run
    entries,       \* rows of function_cache
    saved          \* history: every row ever committed

options == <<maxAge, keep, enabled, typed>>
table == <<entries, saved>>
cacheVars == <<now, maxAge, keep, enabled, typed, phase, saving, entries, saved>>
vars == <<ensureVars, cacheVars>>

Init ==
    /\ EnsureInit
    /\ now = 0
    /\ maxAge \in MaxAges /\ keep \in BOOLEAN
    /\ enabled \in BOOLEAN /\ typed \in BOOLEAN
    /\ phase = [c \in Callers |-> "ensure"]
    /\ saving = 0
    /\ entries = {} /\ saved = {}

-----------------------------------------------------------------------------
Enter(c, place) == phase' = [phase EXCEPT ![c] = place]

\* The wrapper makes sure of the tables.
EnsureTable(c) == enabled /\ EnsureStep(c) /\ UNCHANGED cacheVars

\* With ENABLE_CACHE unset the wrapper only calls the function.
Bypass(c) ==
    /\ ~enabled /\ c \in active
    /\ phase[c] = "ensure"
    /\ \E place \in {"returned", "raised"} : Enter(c, place)
    /\ UNCHANGED <<ensureVars, now, options, saving, table>>

\* Rows _fetch_cached may return.
Live == {e \in entries : maxAge = Forever \/ e.created + maxAge >= now}

\* A hit returns the latest of them.
Hit(c) ==
    /\ pc[c] = "ready" /\ phase[c] = "ensure"
    /\ Live # {}
    /\ Enter(c, "returned")
    /\ UNCHANGED <<ensureVars, now, options, saving, table>>

\* There is none, or the latest does not validate as the return type: the
\* function is called.
Miss(c) ==
    /\ pc[c] = "ready" /\ phase[c] = "ensure"
    /\ Live = {} \/ typed
    /\ Enter(c, "compute")
    /\ UNCHANGED <<ensureVars, now, options, saving, table>>

\* A query or the function raises.
CallRaises(c) ==
    /\ \/ pc[c] = "ready" /\ phase[c] = "ensure"
       \/ phase[c] = "compute"
    /\ Enter(c, "raised")
    /\ UNCHANGED <<ensureVars, now, options, saving, table>>

\* The function returns.  A thread saves the result first, a task leaves
\* that to a thread of its own; None is not saved if cache_none says so.
Computed(c) ==
    /\ phase[c] = "compute"
    /\ \/ c \in SyncCallers /\ Enter(c, "save") /\ UNCHANGED saving
       \/ /\ c \in AsyncCallers /\ Enter(c, "returned")
          /\ saving' = saving + 1
       \/ Enter(c, "returned") /\ UNCHANGED saving
    /\ UNCHANGED <<ensureVars, now, options, table>>

\* Mutant: valid_until_timestamp is cut to seconds before max_age is added.
MutRow == [created |-> now,
           until |-> IF maxAge = Forever THEN Forever
                     ELSE (now \div Second) + (maxAge \div Second)]

Row == [created |-> now,
        until |-> IF maxAge = Forever THEN Forever
                  ELSE (now + maxAge) \div Second]

\* _save_cached commits the row, or logs the error and goes on.
Store ==
    \/ entries' = entries \cup {Row} /\ saved' = saved \cup {Row}
    \/ UNCHANGED table

Save(c) ==
    /\ phase[c] = "save"
    /\ Store
    /\ Enter(c, "returned")
    /\ UNCHANGED <<ensureVars, now, options, saving>>

SaveOfTask ==
    /\ saving > 0 /\ saving' = saving - 1
    /\ Store
    /\ UNCHANGED <<ensureVars, now, options, phase>>

\* The caller calls the function again.
NextCall(c) ==
    /\ phase[c] \in {"returned", "raised"} /\ pc[c] = "ready"
    /\ calls[c] < MaxCalls
    /\ Enter(c, "ensure")
    /\ Goto(c, "call")
    /\ UNCHANGED <<active, calls, locks, ensured, manager, db, seen, now,
                   options, saving, table>>

\* clear_cache.
Clear ==
    /\ exists
    /\ entries' = {e \in entries : \/ keep \/ e.until = Forever
                                   \/ e.until >= now \div Second}
    /\ UNCHANGED <<ensureVars, now, options, phase, saving, saved>>

Tick ==
    /\ now < MaxTime
    /\ now' = now + 1
    /\ UNCHANGED <<ensureVars, options, phase, saving, table>>

CallerStep(c) ==
    \/ EnsureTable(c) \/ Bypass(c) \/ Hit(c) \/ Miss(c) \/ CallRaises(c)
    \/ Computed(c) \/ Save(c) \/ NextCall(c)

Next ==
    \/ \E c \in Callers : CallerStep(c)
    \/ SaveOfTask \/ Clear \/ Tick

Spec == Init /\ [][Next]_vars

-----------------------------------------------------------------------------
(***************************************************************************)
(* Every row that was saved and is not older than max_age is still served: *)
(* clear_cache, with its timestamps in whole seconds, takes none of them,  *)
(* and none at all of those to keep.                                       *)
(***************************************************************************)
SavedIsServed ==
    \A e \in saved :
        keep \/ maxAge = Forever \/ e.created + maxAge >= now => e \in entries

=============================================================================
