-------------------------- MODULE DbCache_proofs ---------------------------
(***************************************************************************)
(* Proofs about EnsureTables, for any number of threads, tasks and calls,  *)
(* and about the cache over it, DbCache, for any max_age, clock and number *)
(* of saves.                                                               *)
(***************************************************************************)
EXTENDS DbCache, TLAPS

\* Places at which the caller's instance has been initialised.
HasManager == {"check", "inspect", "create", "mark", "ensure"}

ManagerReady == \A c \in Callers : pc[c] \in HasManager => mine[c] \in initialized

\* Everything that says the tables are there is right.
Reliable ==
    /\ ensured => exists
    /\ marked # {} => exists
    /\ \A c \in Callers :
           pc[c] \in {"mark", "ensure", "release", "ready"} => exists

\* Whoever is inside its kind's lock holds it.
Locked ==
    \A c \in Callers : pc[c] \in Critical =>
        /\ c \in SyncCallers => threadLock = c
        /\ c \in AsyncCallers => asyncLock = c

Idle == \A c \in Callers : c \notin active => pc[c] = "call"

OneKind == active \subseteq SyncCallers \/ active \subseteq AsyncCallers

\* With callers of one kind, whoever is about to create is right to.
CreatesOnce ==
    OneKind =>
        /\ creates = IF exists THEN 1 ELSE 0
        /\ \A c \in Callers : pc[c] = "create" => ~exists
        /\ errors = 0 => \A c \in Callers : pc[c] \notin {"raise", "failed"}

IInv ==
    /\ EnsureTypeOK /\ ManagerReady /\ Reliable /\ Locked /\ Idle /\ CreatesOnce

-----------------------------------------------------------------------------

\* The start.
LEMMA Initially == EnsureInit => IInv
<1> SUFFICES ASSUME EnsureInit PROVE IInv
  OBVIOUS
<1>1. EnsureTypeOK
  <2>1. seen \in [Callers -> BOOLEAN]
    BY Zenon DEF EnsureInit
  <2>2. pc \in [Callers -> Places] /\ calls \in [Callers -> 0..MaxCalls]
    BY EnsureAssumption DEF EnsureInit, Places
  <2>3. mine \in [Callers -> Nat]
    BY DEF EnsureInit
  <2>4. errors \in 0..MaxErrors /\ creates \in Nat
    BY EnsureAssumption DEF EnsureInit
  <2> QED
    BY <2>1, <2>2, <2>3, <2>4 DEF EnsureInit, EnsureTypeOK
<1>2. ManagerReady /\ Reliable /\ Locked /\ Idle
  BY DEF EnsureInit, ManagerReady, HasManager, Reliable, Locked, Critical, Idle
<1>3. CreatesOnce
  BY DEF EnsureInit, CreatesOnce
<1> QED
  BY <1>1, <1>2, <1>3 DEF IInv

\* Types.
LEMMA TypeKept ==
  ASSUME EnsureTypeOK, ManagerReady, NEW c \in Callers, EnsureStep(c)
  PROVE  EnsureTypeOK'
<1> USE EnsureAssumption DEF Goto, At, manager, locks, db, EnsureTypeOK, Callers, Places,
      Critical, ManagerReady, HasManager
<1>1. CASE Call(c)
  BY <1>1 DEF Call
<1>2. CASE Acquire(c)
  BY <1>2 DEF Acquire
<1>3. CASE Register(c)
  BY <1>3 DEF Register
<1>4. CASE Get(c)
  BY <1>4 DEF Get
<1>5. CASE Setup(c)
  BY <1>5 DEF Setup
<1>6. CASE Create(c)
  BY <1>6 DEF Create
<1>7. CASE Mark(c)
  BY <1>7 DEF Mark
<1>8. CASE Recheck(c) \/ Lookup(c)
  BY <1>8 DEF Recheck, Lookup
<1>9. CASE InitManager(c) \/ Check(c)
  BY <1>9 DEF InitManager, Check
<1>10. CASE Inspect(c) \/ Ensure(c)
  BY <1>10 DEF Inspect, Ensure
<1>11. CASE Release(c) \/ Raise(c)
  BY <1>11 DEF Release, Raise, Unlock
<1>12. CASE CallAgain(c)
  BY <1>12 DEF CallAgain
<1>13. CASE ConnectionFails(c)
  <2>1. errors' \in 0..MaxErrors /\ creates' \in Nat
    BY <1>13 DEF ConnectionFails
  <2>4. exists' \in BOOLEAN
    BY <1>13, Zenon DEF ConnectionFails
  <2>2. pc' \in [Callers -> Places]
    BY <1>13 DEF ConnectionFails
  <2>3. UNCHANGED <<active, calls, locks, ensured, manager, seen>>
    BY <1>13 DEF ConnectionFails
  <2> QED
    BY <2>1, <2>2, <2>3, <2>4
<1> QED
  BY <1>1, <1>2, <1>3, <1>4, <1>5, <1>6, <1>7, <1>8, <1>9, <1>10, <1>11, <1>12,
     <1>13 DEF EnsureStep

\* Managers are initialised before they are used and stay so.
LEMMA ManagerKept ==
  ASSUME EnsureTypeOK, ManagerReady, NEW c \in Callers, EnsureStep(c)
  PROVE  ManagerReady'
<1> USE EnsureAssumption DEF Goto, At, manager, locks, db, EnsureTypeOK, Callers, ManagerReady,
      HasManager
<1>1. CASE Get(c)
  BY <1>1 DEF Get
<1>2. CASE InitManager(c)
  BY <1>2 DEF InitManager
<1>3. CASE Setup(c)
  BY <1>3 DEF Setup
<1>4. CASE Call(c) \/ Acquire(c) \/ Recheck(c) \/ Lookup(c) \/ Register(c)
  BY <1>4 DEF Call, Acquire, Recheck, Lookup, Register
<1>5. CASE Check(c) \/ Inspect(c) \/ Create(c) \/ ConnectionFails(c) \/ Mark(c) \/ Ensure(c)
  BY <1>5 DEF Check, Inspect, Create, ConnectionFails, Mark, Ensure
<1>6. CASE Release(c) \/ Raise(c) \/ CallAgain(c)
  BY <1>6 DEF Release, Raise, CallAgain, Unlock
<1> QED
  BY <1>1, <1>2, <1>3, <1>4, <1>5, <1>6 DEF EnsureStep

\* Marks follow creation.
LEMMA ReliableKept ==
  ASSUME EnsureTypeOK, Reliable, NEW c \in Callers, EnsureStep(c)
  PROVE  Reliable'
<1> USE EnsureAssumption DEF Goto, At, manager, locks, db, EnsureTypeOK, Callers, Reliable
<1>1. CASE Setup(c)
  BY <1>1 DEF Setup
<1>2. CASE Inspect(c)
  BY <1>2 DEF Inspect
<1>3. CASE Create(c) \/ ConnectionFails(c)
  BY <1>3 DEF Create, ConnectionFails
<1>4. CASE Mark(c)
  BY <1>4 DEF Mark
<1>5. CASE Ensure(c)
  BY <1>5 DEF Ensure
<1>6. CASE Call(c) \/ Acquire(c) \/ Recheck(c) \/ Lookup(c)
  BY <1>6 DEF Call, Acquire, Recheck, Lookup
<1>7. CASE Register(c) \/ Get(c) \/ InitManager(c) \/ Check(c)
  BY <1>7 DEF Register, Get, InitManager, Check
<1>8. CASE Release(c) \/ Raise(c) \/ CallAgain(c)
  BY <1>8 DEF Release, Raise, CallAgain, Unlock
<1> QED
  BY <1>1, <1>2, <1>3, <1>4, <1>5, <1>6, <1>7, <1>8 DEF EnsureStep

\* The locks exclude.
LEMMA LockedKept ==
  ASSUME EnsureTypeOK, Locked, NEW c \in Callers, EnsureStep(c)
  PROVE  Locked'
<1> USE EnsureAssumption DEF Goto, At, manager, locks, db, EnsureTypeOK, Callers, Locked,
      Critical
<1>1. CASE Acquire(c)
  BY <1>1 DEF Acquire
<1>2. CASE Release(c)
  BY <1>2 DEF Release, Unlock
<1>3. CASE Raise(c)
  BY <1>3 DEF Raise, Unlock
<1>4. CASE Call(c) \/ Recheck(c) \/ Lookup(c) \/ Register(c) \/ Get(c)
  BY <1>4 DEF Call, Recheck, Lookup, Register, Get
<1>5. CASE InitManager(c) \/ Setup(c) \/ Check(c) \/ Inspect(c) \/ Create(c) \/
          ConnectionFails(c)
  BY <1>5 DEF InitManager, Setup, Check, Inspect, Create, ConnectionFails
<1>6. CASE Mark(c) \/ Ensure(c) \/ CallAgain(c)
  BY <1>6 DEF Mark, Ensure, CallAgain
<1> QED
  BY <1>1, <1>2, <1>3, <1>4, <1>5, <1>6 DEF EnsureStep

\* Only those that use the tables call.
LEMMA IdleKept ==
  ASSUME EnsureTypeOK, Idle, NEW c \in Callers, EnsureStep(c)
  PROVE  Idle'
<1> USE EnsureAssumption DEF Goto, At, manager, locks, db, EnsureTypeOK, Callers, Idle
<1>1. CASE Call(c) \/ Acquire(c) \/ Recheck(c) \/ Lookup(c) \/ Register(c) \/
          Get(c) \/ InitManager(c) \/ Setup(c)
  BY <1>1 DEF Call, Acquire, Recheck, Lookup, Register, Get, InitManager,
      Setup
<1>2. CASE Check(c) \/ Inspect(c) \/ Create(c) \/ Mark(c) \/ Ensure(c) \/
          Release(c) \/ Raise(c) \/ CallAgain(c) \/ ConnectionFails(c)
  BY <1>2 DEF Check, Inspect, Create, Mark, Ensure, Release, Raise, CallAgain,
      ConnectionFails, Unlock
<1> QED
  BY <1>1, <1>2 DEF EnsureStep

\* With one kind of caller nobody else creates between a look and a CREATE.
LEMMA OnceKept ==
  ASSUME IInv, NEW c \in Callers, EnsureStep(c)
  PROVE  CreatesOnce'
<1> USE EnsureAssumption DEF Goto, At, manager, locks, db, EnsureTypeOK, Callers, IInv,
      CreatesOnce, OneKind, Locked, Idle, Critical, Reliable
<1>1. CASE Inspect(c)
  BY <1>1 DEF Inspect
<1>2. CASE Create(c) \/ ConnectionFails(c)
  BY <1>2 DEF Create, ConnectionFails
<1>3. CASE Call(c) \/ Acquire(c) \/ Recheck(c) \/ Lookup(c)
  BY <1>3 DEF Call, Acquire, Recheck, Lookup
<1>4. CASE Register(c) \/ Get(c) \/ InitManager(c) \/ Setup(c)
  BY <1>4 DEF Register, Get, InitManager, Setup
<1>5. CASE Check(c) \/ Mark(c) \/ Ensure(c) \/ Release(c)
  BY <1>5 DEF Check, Mark, Ensure, Release, Unlock
<1>6. CASE Raise(c) \/ CallAgain(c)
  BY <1>6 DEF Raise, CallAgain, Unlock
<1> QED
  BY <1>1, <1>2, <1>3, <1>4, <1>5, <1>6 DEF EnsureStep

LEMMA Stuttering == ASSUME IInv, UNCHANGED ensureVars PROVE IInv'
  BY DEF IInv, EnsureTypeOK, ManagerReady, Reliable, Locked, Idle, OneKind,
     CreatesOnce, ensureVars

LEMMA Inductive == IInv /\ [EnsureNext]_ensureVars => IInv'
<1> SUFFICES ASSUME IInv, [EnsureNext]_ensureVars PROVE IInv'
  OBVIOUS
<1>1. ASSUME NEW c \in Callers, EnsureStep(c) PROVE IInv'
  BY <1>1, TypeKept, ManagerKept, ReliableKept, LockedKept, IdleKept, OnceKept
     DEF IInv
<1>2. CASE UNCHANGED ensureVars
  BY <1>2, Stuttering
<1> QED
  BY <1>1, <1>2 DEF EnsureNext

LEMMA Invariance == EnsureSpec => []IInv
  BY Initially, Inductive, PTL DEF EnsureSpec

-----------------------------------------------------------------------------
(***************************************************************************)
(* The state of the callers, the locks and DBManager keeps its types.      *)
(***************************************************************************)
THEOREM TypeCorrect == EnsureSpec => []EnsureTypeOK
<1>1. IInv => EnsureTypeOK
  BY DEF IInv
<1> QED
  BY <1>1, Invariance, PTL

(***************************************************************************)
(* Whenever a call of EnsureTableManager returns, the tables exist.        *)
(***************************************************************************)
THEOREM TablesSafe == EnsureSpec => []TablesBeforeUse
<1>1. IInv => TablesBeforeUse
  BY DEF IInv, Reliable, TablesBeforeUse
<1> QED
  BY <1>1, Invariance, PTL

(***************************************************************************)
(* Two callers of one kind are never inside the lock together.             *)
(***************************************************************************)
THEOREM MutualExclusion == EnsureSpec => []OneCreatorPerKind
<1>1. IInv => OneCreatorPerKind
  BY EnsureAssumption DEF IInv, Locked, OneCreatorPerKind, Callers
<1> QED
  BY <1>1, Invariance, PTL

(***************************************************************************)
(* Threads alone, or tasks alone, create the tables once, and none of      *)
(* their calls fails unless the connection does.                           *)
(***************************************************************************)
THEOREM OneKindSafe == EnsureSpec => []OneKindCreatesOnce
<1>1. IInv => OneKindCreatesOnce
  BY DEF IInv, EnsureTypeOK, CreatesOnce, OneKind, OneKindCreatesOnce
<1> QED
  BY <1>1, Invariance, PTL

-----------------------------------------------------------------------------
\* What the tables' invariant leaves to say of the cache: the types of its
\* own state, when a row is due, and what needs the tables.
CacheTypeOK ==
    /\ now \in Nat
    /\ maxAge \in Nat \cup {Forever}
    /\ keep \in BOOLEAN
    /\ phase \in [Callers -> {"ensure", "compute", "save", "returned", "raised"}]
    /\ saving \in Nat

\* A row is due at the whole second before its max_age is over.
RowsDue ==
    \A e \in saved :
        /\ e.created \in Nat
        /\ e.until = IF maxAge = Forever THEN Forever
                     ELSE (e.created + maxAge) \div Second

(***************************************************************************)
(* A look-up that found nothing, a save that is under way or still to run, *)
(* and every row have the tables under them.                               *)
(***************************************************************************)
TablesUnderCache ==
    /\ \A c \in Callers : phase[c] \in {"compute", "save"} => exists
    /\ saving > 0 \/ saved # {} => exists

CacheInv == IInv /\ CacheTypeOK /\ RowsDue /\ TablesUnderCache /\ SavedIsServed

\* Cutting to whole seconds keeps the order.
LEMMA DivMonotone ==
  ASSUME NEW a \in Nat, NEW b \in Nat, NEW d \in Nat \ {0}, a <= b
  PROVE  a \div d <= b \div d
  OBVIOUS

LEMMA CacheInitially == Init => CacheInv
<1> SUFFICES ASSUME Init PROVE CacheInv
  OBVIOUS
<1>1. IInv
  BY Initially DEF Init
<1>2. CacheTypeOK
  BY CacheAssumption DEF Init, CacheTypeOK
<1> QED
  BY <1>1, <1>2 DEF Init, CacheInv, RowsDue, TablesUnderCache, SavedIsServed

\* The tables' invariant holds under the cache, which only adds that a caller
\* that is through may call again.
LEMMA TablesKept ==
  ASSUME IInv, [Next]_vars
  PROVE  IInv'
<1>1. ASSUME NEW c \in Callers, EnsureTable(c) PROVE IInv'
  BY <1>1, Inductive DEF EnsureTable, EnsureNext
<1>2. ASSUME NEW c \in Callers, NextCall(c) PROVE IInv'
  <2> USE EnsureAssumption DEF Goto, manager, locks, db, EnsureTypeOK, Callers,
      Places, Critical, HasManager, IInv
  <2>1. EnsureTypeOK' /\ ManagerReady'
    BY <1>2 DEF NextCall, ManagerReady
  <2>2. Reliable' /\ Locked' /\ Idle'
    BY <1>2 DEF NextCall, Reliable, Locked, Idle
  <2>3. CreatesOnce'
    BY <1>2 DEF NextCall, CreatesOnce, OneKind
  <2> QED
    BY <2>1, <2>2, <2>3
<1>3. ASSUME NEW c \in Callers,
             Bypass(c) \/ Hit(c) \/ Miss(c) \/ CallRaises(c) \/ Computed(c) \/ Save(c)
      PROVE  UNCHANGED ensureVars
  BY <1>3 DEF Bypass, Hit, Miss, CallRaises, Computed, Save
<1>4. SaveOfTask \/ Clear \/ Tick \/ UNCHANGED vars => UNCHANGED ensureVars
  BY DEF SaveOfTask, Clear, Tick, vars
<1> QED
  BY <1>1, <1>2, <1>3, <1>4, Stuttering DEF Next, CallerStep

\* Rows come with the second they are due, and only clear_cache takes them.
LEMMA Committed ==
  ASSUME CacheInv, Store, UNCHANGED <<now, options>>
  PROVE  RowsDue' /\ SavedIsServed'
<1> USE DEF CacheInv, CacheTypeOK, RowsDue, SavedIsServed, Store, table, options
<1>1. Row.created = now /\ Row.until = IF maxAge = Forever THEN Forever
                                       ELSE (now + maxAge) \div Second
  BY DEF Row
<1> QED
  BY <1>1

LEMMA CacheKept ==
  ASSUME CacheInv, [Next]_vars
  PROVE  CacheTypeOK' /\ RowsDue' /\ TablesUnderCache' /\ SavedIsServed'
<1> USE DEF options, table
<1>1. \A c \in Callers : pc[c] = "ready" => exists
  BY DEF CacheInv, IInv, Reliable
<1>2. ASSUME NEW c \in Callers, EnsureTable(c)
      PROVE  CacheTypeOK' /\ RowsDue' /\ TablesUnderCache' /\ SavedIsServed'
  <2>1. exists => exists'
    BY <1>2 DEF EnsureTable, EnsureStep, Call, Acquire, Recheck, Lookup,
       Register, Get, InitManager, Setup, Check, Inspect, Create, Mark, Ensure,
       ConnectionFails, Release, Raise, CallAgain, db
  <2>2. UNCHANGED cacheVars
    BY <1>2 DEF EnsureTable
  <2> QED
    BY <2>1, <2>2 DEF cacheVars, CacheInv, CacheTypeOK, RowsDue,
       TablesUnderCache, SavedIsServed
<1>3. ASSUME NEW c \in Callers,
             \/ Bypass(c) \/ Hit(c) \/ Miss(c) \/ CallRaises(c) \/ Computed(c)
             \/ NextCall(c)
      PROVE  CacheTypeOK' /\ RowsDue' /\ TablesUnderCache' /\ SavedIsServed'
  <2>1. UNCHANGED <<now, maxAge, keep, entries, saved, exists>>
    BY <1>3 DEF Bypass, Hit, Miss, CallRaises, Computed, NextCall, ensureVars, db
  <2>2. CacheTypeOK'
    BY <1>3, <2>1 DEF Bypass, Hit, Miss, CallRaises, Computed, NextCall, Enter,
       CacheInv, CacheTypeOK
  <2>3. TablesUnderCache'
    BY <1>1, <1>3, <2>1 DEF Bypass, Hit, Miss, CallRaises, Computed, NextCall,
       Enter, CacheInv, CacheTypeOK, TablesUnderCache
  <2> QED
    BY <2>1, <2>2, <2>3 DEF CacheInv, RowsDue, SavedIsServed
<1>4. ASSUME NEW c \in Callers, Save(c)
      PROVE  CacheTypeOK' /\ RowsDue' /\ TablesUnderCache' /\ SavedIsServed'
  <2>1. CacheTypeOK' /\ TablesUnderCache'
    BY <1>4 DEF Save, Enter, ensureVars, CacheInv, CacheTypeOK, TablesUnderCache
  <2> QED
    BY <1>4, <2>1, Committed DEF Save
<1>5. CASE SaveOfTask
  <2>1. CacheTypeOK' /\ TablesUnderCache'
    BY <1>5 DEF SaveOfTask, ensureVars, CacheInv, CacheTypeOK, TablesUnderCache
  <2> QED
    BY <1>5, <2>1, Committed DEF SaveOfTask
<1>6. CASE Clear
  <2>1. CacheTypeOK' /\ RowsDue' /\ TablesUnderCache'
    BY <1>6 DEF Clear, ensureVars, CacheInv, CacheTypeOK, RowsDue, TablesUnderCache
  <2>2. ASSUME NEW e \in saved, e \in entries, maxAge # Forever,
               e.created + maxAge >= now
        PROVE  e.until >= now \div Second
    <3>1. e.created \in Nat /\ maxAge \in Nat /\ now \in Nat
      BY <2>2 DEF CacheInv, CacheTypeOK, RowsDue
    <3>2. now \div Second <= (e.created + maxAge) \div Second
      BY <2>2, <3>1, DivMonotone, CacheAssumption
    <3> QED
      BY <2>2, <3>1, <3>2, CacheAssumption DEF CacheInv, RowsDue
  <2>3. SavedIsServed'
    BY <1>6, <2>2 DEF Clear, CacheInv, RowsDue, SavedIsServed
  <2> QED
    BY <2>1, <2>3
<1>7. CASE Tick
  <2>1. CacheTypeOK' /\ RowsDue' /\ TablesUnderCache'
    BY <1>7 DEF Tick, ensureVars, CacheInv, CacheTypeOK, RowsDue, TablesUnderCache
  <2>2. SavedIsServed'
    BY <1>7, CacheAssumption DEF Tick, CacheInv, CacheTypeOK, RowsDue, SavedIsServed
  <2> QED
    BY <2>1, <2>2
<1>8. CASE UNCHANGED vars
  BY <1>8 DEF vars, cacheVars, ensureVars, CacheInv, CacheTypeOK, RowsDue,
     TablesUnderCache, SavedIsServed
<1> QED
  BY <1>2, <1>3, <1>4, <1>5, <1>6, <1>7, <1>8 DEF Next, CallerStep

LEMMA CacheInvariance == Spec => []CacheInv
<1>1. CacheInv /\ [Next]_vars => CacheInv'
  BY TablesKept, CacheKept DEF CacheInv
<1> QED
  BY <1>1, CacheInitially, PTL DEF Spec

-----------------------------------------------------------------------------
(***************************************************************************)
(* Under the cache, where callers come again and again and tasks save in   *)
(* threads of their own, no look-up and no save meets a missing table.     *)
(***************************************************************************)
THEOREM NoTableMissing == Spec => [](TablesBeforeUse /\ TablesUnderCache)
<1>1. CacheInv => TablesBeforeUse /\ TablesUnderCache
  BY DEF CacheInv, IInv, Reliable, TablesBeforeUse
<1> QED
  BY <1>1, CacheInvariance, PTL

(***************************************************************************)
(* Under the cache, too, callers of one kind create the tables once.       *)
(***************************************************************************)
THEOREM CreatedOnceUnderCache == Spec => []OneKindCreatesOnce
<1>1. CacheInv => OneKindCreatesOnce
  BY DEF CacheInv, IInv, EnsureTypeOK, CreatesOnce, OneKind, OneKindCreatesOnce
<1> QED
  BY <1>1, CacheInvariance, PTL

(***************************************************************************)
(* clear_cache takes no row that _fetch_cached may still return.           *)
(***************************************************************************)
THEOREM ClearKeepsTheLive == Spec => []SavedIsServed
<1>1. CacheInv => SavedIsServed
  BY DEF CacheInv
<1> QED
  BY <1>1, CacheInvariance, PTL

=============================================================================
