------------------------- MODULE RateLimiter_proofs -------------------------
(***************************************************************************)
(* What holds of RateLimiter for every set of callers, every interval,     *)
(* every assignment of clock skews within MaxSkew and every number of      *)
(* requests and database errors.  Spacing needs the row lock, so it is     *)
(* proved for RowLocks = TRUE (Postgres); without it TLC has a             *)
(* counterexample.                                                         *)
(***************************************************************************)
EXTENDS RateLimiter, TLAPS

\* The caller whose SELECT returned a row holds its lock, so what it read is
\* still what is stored; a caller about to update is a whole interval late.
LockInv ==
    \A c \in Callers :
        /\ pc[c] = "read" /\ seen[c] # NoRow =>
               lock = c /\ seen[c] = row
        /\ pc[c] = "update" =>
               lock = c /\ row # NoRow /\ stamp[c] - row >= Interval

\* Stamps of allowed calls are at most what the row says and a whole
\* interval apart, each on the clock of the caller that wrote it.
StampInv ==
    /\ row = NoRow => grants = <<>>
    /\ \A i \in DOMAIN grants : row # NoRow => StampOf(grants[i]) <= row
    /\ \A i, j \in DOMAIN grants :
           i < j => StampOf(grants[j]) - StampOf(grants[i]) >= Interval

IInv == TypeOK /\ LockInv /\ StampInv

(***************************************************************************)
(* The state of the limiter keeps its types through every interleaving.    *)
(***************************************************************************)
THEOREM TypeCorrect == Spec => []TypeOK
<1> USE BoundsAssumption, SkewAssumption, CallersAssumption
<1>1. Init => TypeOK
  BY DEF Init, TypeOK, Ended, Running
<1>2. TypeOK /\ [Next]_vars => TypeOK'
  <2> SUFFICES ASSUME TypeOK, [Next]_vars PROVE TypeOK'
    OBVIOUS
  <2> USE DEF Goto, Forget
  <2>1. ASSUME NEW c \in Callers, Request(c) PROVE TypeOK'
    <3>1. requests \in [Callers -> Nat]
      BY DEF TypeOK
    <3>2. requests' \in [Callers -> Nat]
      <4>1. requests' = [requests EXCEPT ![c] = requests[c] + 1]
        BY <2>1 DEF Request
      <4>2. requests[c] + 1 \in Nat
        BY <3>1
      <4>3. QED
        BY <3>1, <4>1, <4>2
    <3>3. start' \in [Callers -> Nat]
      BY <2>1, SMTT(60) DEF Request, TypeOK
    <3>4. pc' \in [Callers -> Ended \cup Running \cup {"queued"}]
      BY <2>1 DEF Request, TypeOK, Running
    <3>5. QED
      BY <2>1, <3>2, <3>3, <3>4 DEF Request, TypeOK
  <2>2. ASSUME NEW c \in Callers, EnterSemaphore(c) PROVE TypeOK'
    BY <2>2 DEF EnterSemaphore,
       TypeOK, Ended, Running
  <2>3. ASSUME NEW c \in Callers, Select(c) PROVE TypeOK'
    BY <2>3 DEF Select,
       TypeOK, Ended, Running
  <2>4. ASSUME NEW c \in Callers, FirstUse(c) PROVE TypeOK'
    BY <2>4 DEF FirstUse, Clock,
       TypeOK, Ended, Running
  <2>5. ASSUME NEW c \in Callers, Allow(c) PROVE TypeOK'
    BY <2>5 DEF Allow, Clock,
       TypeOK, Ended, Running
  <2>6. ASSUME NEW c \in Callers, Sleep(c) PROVE TypeOK'
    BY <2>6, SMTT(60) DEF Sleep, Clock,
       TypeOK, Ended, Running
  <2>7. ASSUME NEW c \in Callers, Wake(c) PROVE TypeOK'
    BY <2>7 DEF Wake, ReleaseLock,
       TypeOK, Ended, Running
  <2>8. ASSUME NEW c \in Callers, CommitInsert(c) PROVE TypeOK'
    <3>1. GrantOf(c) \in Grant
      BY DEF GrantOf, Grant, TypeOK
    <3>2. CASE row = NoRow
      BY <2>8, <3>1, <3>2 DEF CommitInsert, Leave, TypeOK, Ended, Running
    <3>3. CASE row # NoRow
      <4>1. sem' \in Callers \cup {NoCaller}
        BY <2>8, <3>3 DEF CommitInsert, Leave, TypeOK
      <4>2. pc' \in [Callers -> Ended \cup Running \cup {"queued"}]
        BY <2>8, <3>3 DEF CommitInsert, Leave, TypeOK, Ended
      <4>3. start' \in [Callers -> Nat] /\ stamp' \in [Callers -> Int]
        BY <2>8, <3>3, SMTT(60) DEF CommitInsert, Leave, TypeOK
      <4>4. QED
        BY <2>8, <3>3, <4>1, <4>2, <4>3 DEF CommitInsert, TypeOK
    <3>4. QED
      BY <3>2, <3>3
  <2>9. ASSUME NEW c \in Callers, CommitUpdate(c) PROVE TypeOK'
    <3>1. GrantOf(c) \in Grant
      BY DEF GrantOf, Grant, TypeOK
    <3>2. QED
      BY <2>9, <3>1, SMTT(60) DEF CommitUpdate, Leave, ReleaseLock, TypeOK, Ended, Running
  <2>10. ASSUME NEW c \in Callers, NEW fate \in {"applied", "lost"}, DbError(c, fate)
         PROVE TypeOK'
    <3>1. now + 1 \in Int /\ errors + 1 \in Nat
      BY DEF TypeOK
    <3>2. row' \in Int \cup {NoRow} /\ errors' \in Nat
      BY <2>10, <3>1 DEF DbError, TypeOK
    <3>3. lock' \in Callers \cup {NoCaller} /\ sem' \in Callers \cup {NoCaller}
      <4>1. /\ lock' \in {lock, NoCaller}
            /\ sem' \in {sem, NoCaller}
        BY <2>10 DEF DbError, Leave, ReleaseLock
      <4>2. QED
        BY <4>1 DEF TypeOK
    <3>4. pc' \in [Callers -> Ended \cup Running \cup {"queued"}]
      <4>1. \/ pc' = [pc EXCEPT ![c] = "timeout"]
            \/ pc' = [pc EXCEPT ![c] = "backoff"]
        BY <2>10 DEF DbError, Leave
      <4>2. QED
        BY <4>1 DEF TypeOK, Ended, Running
    <3>5. until' \in [Callers -> Int] /\ stamp' \in [Callers -> Int]
      <4>1. /\ until' \in {[until EXCEPT ![c] = 0], [until EXCEPT ![c] = now + 1]}
            /\ stamp' = [stamp EXCEPT ![c] = 0]
        BY <2>10 DEF DbError
      <4>2. until \in [Callers -> Int] /\ stamp \in [Callers -> Int]
        BY DEF TypeOK
      <4>3. QED
        BY <3>1, <4>1, <4>2
    <3>6. start' \in [Callers -> Nat]
      <4>1. start' = start \/ start' = [start EXCEPT ![c] = 0]
        BY <2>10 DEF DbError, Leave
      <4>2. start \in [Callers -> Nat]
        BY DEF TypeOK
      <4>3. QED
        BY <4>1, <4>2
    <3>7. QED
      BY <2>10, <3>2, <3>3, <3>4, <3>5, <3>6 DEF DbError, TypeOK
  <2>11. ASSUME NEW c \in Callers, Retry(c) PROVE TypeOK'
    BY <2>11 DEF Retry,
       TypeOK, Ended, Running
  <2>12. CASE Tick
    BY <2>12 DEF Tick,
       TypeOK, Ended, Running
  <2>13. CASE UNCHANGED vars
    BY <2>13 DEF vars,
       TypeOK, Ended, Running
  <2>14. QED
    BY <2>1, <2>2, <2>3, <2>4, <2>5, <2>6, <2>7, <2>8, <2>9, <2>10, <2>11,
       <2>12, <2>13 DEF Next, Step
<1>3. QED
  BY <1>1, <1>2, PTL DEF Spec

-----------------------------------------------------------------------------
\* A new grant that is a whole interval after what the row said keeps the
\* stamps ordered under the new row.
LEMMA GrantKeepsStamps ==
    ASSUME TypeOK, StampInv, NEW c \in Callers,
           row = NoRow \/ stamp[c] - row >= Interval,
           row' = stamp[c],
           grants' = Append(grants, GrantOf(c))
    PROVE  StampInv'
<1> USE BoundsAssumption, SkewAssumption, CallersAssumption
<1> DEFINE n == Len(grants)
<1>0. grants \in Seq(Grant) /\ GrantOf(c) \in Grant
  BY DEF TypeOK, GrantOf, Grant
<1>1. /\ n \in Nat
      /\ DOMAIN grants = 1..n
      /\ DOMAIN grants' = 1..(n + 1)
      /\ \A i \in 1..n : grants'[i] = grants[i] /\ grants[i] \in Grant
      /\ grants'[n + 1] = GrantOf(c)
  BY <1>0
<1>2. stamp[c] \in Int /\ Skew[c] \in Int
  BY DEF TypeOK
<1>3. StampOf(GrantOf(c)) = stamp[c]
  BY <1>2 DEF StampOf, GrantOf
<1>4. row' # NoRow
  BY <1>2
<1>5. \A i \in 1..n : StampOf(grants[i]) \in Int
  BY <1>1 DEF StampOf, Grant
<1>6. \A i \in 1..n : stamp[c] - StampOf(grants[i]) >= Interval
  <2> TAKE i \in 1..n
  <2>1. row # NoRow
    BY <1>1 DEF StampInv
  <2>2. row \in Int /\ StampOf(grants[i]) <= row
    BY <1>1, <2>1 DEF StampInv, TypeOK
  <2>3. QED
    BY <1>2, <1>5, <2>1, <2>2
<1>7. \A i \in DOMAIN grants' : StampOf(grants'[i]) <= row'
  BY <1>1, <1>2, <1>3, <1>5, <1>6
<1>8. \A i, j \in DOMAIN grants' :
          i < j => StampOf(grants'[j]) - StampOf(grants'[i]) >= Interval
  <2> TAKE i, j \in DOMAIN grants'
  <2> HAVE i < j
  <2>1. CASE j = n + 1
    BY <1>1, <1>3, <1>6, <2>1
  <2>2. CASE j # n + 1
    BY <1>1, <2>2 DEF StampInv
  <2>3. QED
    BY <2>1, <2>2
<1>9. QED
  BY <1>4, <1>7, <1>8 DEF StampInv, StampOf

\* The row may be written without a grant: a commit that was applied although
\* its answer was lost.
LEMMA LostAnswerKeepsStamps ==
    ASSUME TypeOK, StampInv, NEW c \in Callers,
           row = NoRow \/ stamp[c] - row >= Interval,
           row' = stamp[c],
           grants' = grants
    PROVE  StampInv'
<1> USE BoundsAssumption, SkewAssumption, CallersAssumption
<1>1. stamp[c] \in Int /\ (row # NoRow => row \in Int)
  BY DEF TypeOK
<1>2. \A i \in DOMAIN grants : StampOf(grants[i]) \in Int
  <2>1. \A i \in DOMAIN grants : grants[i] \in Grant
    BY DEF TypeOK
  <2>2. \A g \in Grant : StampOf(g) \in Int
    BY DEF StampOf, Grant
  <2>3. QED
    BY <2>1, <2>2
<1>3. \A i \in DOMAIN grants : StampOf(grants[i]) <= stamp[c]
  BY <1>1, <1>2 DEF StampInv
<1>4. QED
  BY <1>1, <1>3 DEF StampInv, StampOf

(***************************************************************************)
(* With row locks, every step keeps what LockInv and StampInv say.         *)
(***************************************************************************)
LEMMA StepKeepsIInv ==
    ASSUME RowLocks, IInv, TypeOK', [Next]_vars
    PROVE  LockInv' /\ StampInv'
<1> USE BoundsAssumption, SkewAssumption, CallersAssumption
<1>a. ASSUME UNCHANGED <<row, grants>> PROVE StampInv'
  BY <1>a DEF IInv, StampInv, StampOf
<1> USE DEF Goto, Forget
<1>1. ASSUME NEW c \in Callers, Request(c) PROVE LockInv' /\ StampInv'
  BY <1>1, <1>a DEF IInv, Request, LockInv, TypeOK
<1>2. ASSUME NEW c \in Callers, EnterSemaphore(c) PROVE LockInv' /\ StampInv'
  BY <1>2, <1>a DEF IInv, EnterSemaphore, LockInv, TypeOK
<1>3. ASSUME NEW c \in Callers, Select(c) PROVE LockInv' /\ StampInv'
  BY <1>3, <1>a, SMTT(60) DEF IInv, Select, CanSelect, LockInv, TypeOK
<1>4. ASSUME NEW c \in Callers, FirstUse(c) PROVE LockInv' /\ StampInv'
  BY <1>4, <1>a DEF IInv, FirstUse, LockInv, TypeOK
<1>5. ASSUME NEW c \in Callers, Allow(c) PROVE LockInv' /\ StampInv'
  BY <1>5, <1>a DEF IInv, Allow, LockInv, TypeOK
<1>6. ASSUME NEW c \in Callers, Sleep(c) PROVE LockInv' /\ StampInv'
  BY <1>6, <1>a DEF IInv, Sleep, LockInv, TypeOK
<1>7. ASSUME NEW c \in Callers, Wake(c) PROVE LockInv' /\ StampInv'
  BY <1>7, <1>a DEF IInv, Wake, ReleaseLock, LockInv, TypeOK
<1>8. ASSUME NEW c \in Callers, CommitInsert(c) PROVE LockInv' /\ StampInv'
  <2>1. CASE row = NoRow
    <3>1. LockInv'
      BY <1>8, <2>1 DEF IInv, CommitInsert, Leave, LockInv, TypeOK
    <3>2. StampInv'
      BY <1>8, <2>1, GrantKeepsStamps DEF IInv, CommitInsert
    <3>3. QED
      BY <3>1, <3>2
  <2>2. CASE row # NoRow
    BY <1>8, <2>2, <1>a DEF IInv, CommitInsert, Leave, LockInv, TypeOK
  <2>3. QED
    BY <2>1, <2>2
<1>9. ASSUME NEW c \in Callers, CommitUpdate(c) PROVE LockInv' /\ StampInv'
  <2>1. lock = c /\ row # NoRow /\ stamp[c] - row >= Interval
    BY <1>9 DEF IInv, CommitUpdate, LockInv
  <2>2. LockInv'
    BY <1>9, <2>1 DEF IInv, CommitUpdate, Leave, ReleaseLock, LockInv, TypeOK
  <2>3. StampInv'
    BY <1>9, <2>1, GrantKeepsStamps DEF IInv, CommitUpdate
  <2>4. QED
    BY <2>2, <2>3
<1>10. ASSUME NEW c \in Callers, NEW fate \in {"applied", "lost"}, DbError(c, fate)
       PROVE  LockInv' /\ StampInv'
  <2>0. grants' = grants
    BY <1>10 DEF DbError
  <2>1. CASE fate = "applied"
    <3>1. row = NoRow \/ (lock = c /\ stamp[c] - row >= Interval)
      BY <1>10, <2>1 DEF IInv, DbError, LockInv
    <3>2. row' = stamp[c]
      BY <1>10, <2>1 DEF DbError
    <3>3. LockInv'
      BY <1>10, <2>1, <3>1, SMTT(60) DEF IInv, DbError, Leave, ReleaseLock, LockInv, TypeOK
    <3>4. StampInv'
      BY <2>0, <3>1, <3>2, LostAnswerKeepsStamps DEF IInv
    <3>5. QED
      BY <3>3, <3>4
  <2>2. CASE fate = "lost"
    BY <1>10, <2>2, <1>a, SMTT(60) DEF IInv, DbError, Leave, ReleaseLock, LockInv, TypeOK
  <2>3. QED
    BY <2>1, <2>2
<1>11. ASSUME NEW c \in Callers, Retry(c) PROVE LockInv' /\ StampInv'
  BY <1>11, <1>a DEF IInv, Retry, LockInv, TypeOK
<1>12. CASE Tick
  BY <1>12, <1>a DEF IInv, Tick, LockInv
<1>13. CASE UNCHANGED vars
  BY <1>13, <1>a DEF IInv, vars, LockInv
<1>14. QED
  BY <1>1, <1>2, <1>3, <1>4, <1>5, <1>6, <1>7, <1>8, <1>9, <1>10, <1>11,
     <1>12, <1>13 DEF Next, Step

(***************************************************************************)
(* The inductive invariant holds of every behaviour on Postgres.           *)
(***************************************************************************)
LEMMA Invariance == ASSUME RowLocks PROVE Spec => []IInv
<1>1. Init => LockInv /\ StampInv
  BY DEF Init, LockInv, StampInv
<1>2. IInv /\ TypeOK' /\ [Next]_vars => LockInv' /\ StampInv'
  BY StepKeepsIInv
<1>3. QED
  BY <1>1, <1>2, TypeCorrect, PTL DEF Spec, IInv

(***************************************************************************)
(* GrantSpacing: on Postgres two allowed calls are never closer than the   *)
(* interval less the clock skew, however many callers race, sleep, lose    *)
(* answers and retry.                                                      *)
(***************************************************************************)
THEOREM SpacingSafe == ASSUME RowLocks PROVE Spec => []GrantSpacing
<1>1. IInv => GrantSpacing
  <2> SUFFICES ASSUME IInv, NEW i \in DOMAIN grants, NEW j \in DOMAIN grants,
                      i < j
               PROVE  grants[j].at - grants[i].at >= Interval - MaxSkew
    BY DEF GrantSpacing
  <2>1. StampOf(grants[j]) - StampOf(grants[i]) >= Interval
    BY DEF IInv, StampInv
  <2>2. /\ grants[i].at \in Int /\ grants[j].at \in Int
        /\ grants[i].by \in Callers /\ grants[j].by \in Callers
    <3>1. grants[i] \in Grant /\ grants[j] \in Grant
      BY DEF IInv, TypeOK
    <3>2. QED
      BY <3>1 DEF Grant
  <2>3. /\ Skew[grants[i].by] \in 0..MaxSkew
        /\ Skew[grants[j].by] \in 0..MaxSkew
    BY <2>2, SkewAssumption
  <2>4. QED
    BY <2>1, <2>2, <2>3, BoundsAssumption DEF StampOf
<1>2. QED
  BY <1>1, Invariance, PTL

(***************************************************************************)
(* RowAdvances: on Postgres last_called_at moves forward by at least the   *)
(* interval whenever it changes.                                           *)
(***************************************************************************)
THEOREM RowOnlyAdvances == ASSUME RowLocks PROVE Spec => RowAdvances
<1> USE BoundsAssumption, CallersAssumption
<1>1. IInv /\ [Next]_vars =>
          [row # NoRow => (row' # NoRow /\ row' - row >= Interval)]_row
  <2> SUFFICES ASSUME IInv, [Next]_vars, row' # row, row # NoRow
               PROVE  row' # NoRow /\ row' - row >= Interval
    OBVIOUS
  <2>1. PICK c \in Callers :
            \/ CommitInsert(c)
            \/ CommitUpdate(c)
            \/ \E fate \in {"applied", "lost"} : DbError(c, fate)
    BY DEF Next, Step, vars, Request, EnterSemaphore, Select, FirstUse, Allow,
           Sleep, Wake, Retry, Tick
  <2>2. pc[c] = "update" /\ row' = stamp[c]
    BY <2>1 DEF CommitInsert, CommitUpdate, DbError
  <2>3. QED
    BY <2>2 DEF IInv, LockInv, TypeOK
<1>2. QED
  BY <1>1, Invariance, PTL DEF Spec, RowAdvances

(***************************************************************************)
(* ImplementsPacing: on Postgres every behaviour of the callers is one of  *)
(* Pacing.  The commits of a grant map to Allowed, a commit that was       *)
(* applied although its answer was lost maps to AnswerLost, and all other  *)
(* steps leave the row and the grants alone.                               *)
(***************************************************************************)
LEMMA GrantIsAllowed ==
    ASSUME TypeOK, NEW c \in Callers,
           row = NoRow \/ stamp[c] - row >= Interval,
           row' = stamp[c],
           grants' = Append(grants, GrantOf(c))
    PROVE  Abstract!Allowed
<1> USE BoundsAssumption, SkewAssumption, CallersAssumption
<1> DEFINE n == Len(grants)
<1>0. grants \in Seq(Grant) /\ GrantOf(c) \in Grant
  BY DEF TypeOK, GrantOf, Grant
<1>1. /\ n \in Nat
      /\ DOMAIN grants = 1..n
      /\ DOMAIN grants' = 1..(n + 1)
      /\ \A i \in 1..n : grants'[i] = grants[i] /\ grants[i] \in Grant
      /\ grants'[n + 1] = GrantOf(c)
  BY <1>0
<1>2. stamp[c] \in Int /\ Skew[c] \in Int
  BY DEF TypeOK
<1>3. StampOf(GrantOf(c)) = stamp[c]
  BY <1>2 DEF StampOf, GrantOf
<1>4. /\ Stamps \in Seq(Int)
      /\ Len(Stamps) = n
      /\ \A i \in 1..n : Stamps[i] = StampOf(grants[i])
  <2>1. \A i \in 1..n : StampOf(grants[i]) \in Int
    BY <1>1 DEF StampOf, Grant
  <2>2. QED
    BY <1>1, <2>1 DEF Stamps
<1>5. Stamps' = [i \in 1..(n + 1) |->
                   IF i <= n THEN StampOf(grants[i]) ELSE stamp[c]]
  <2>1. Stamps' = [i \in DOMAIN grants' |-> StampOf(grants'[i])]
    BY DEF Stamps, StampOf
  <2>2. \A i \in 1..(n + 1) :
            StampOf(grants'[i]) =
                IF i <= n THEN StampOf(grants[i]) ELSE stamp[c]
    BY <1>1, <1>3
  <2>3. QED
    BY <1>1, <2>1, <2>2
<1>6. Stamps' = Append(Stamps, row')
  BY <1>1, <1>2, <1>4, <1>5
<1>7. row' # NoRow /\ (row # NoRow => row' - row >= Interval)
  BY <1>2
<1>8. QED
  BY <1>6, <1>7 DEF Abstract!Allowed, Abstract!Advance

THEOREM PacingImplemented == ASSUME RowLocks PROVE Spec => ImplementsPacing
<1> USE BoundsAssumption, CallersAssumption
<1>1. Init => Abstract!Init
  BY DEF Init, Abstract!Init, Stamps
<1>2. IInv /\ [Next]_vars => [Abstract!Next]_<<row, Stamps>>
  <2> SUFFICES ASSUME IInv, [Next]_vars,
                      ~ UNCHANGED <<row, grants>>
               PROVE  Abstract!Next
    BY DEF Stamps, StampOf
  <2>1. PICK c \in Callers :
            \/ CommitInsert(c)
            \/ CommitUpdate(c)
            \/ \E fate \in {"applied", "lost"} : DbError(c, fate)
    BY DEF Next, Step, vars, Request, EnterSemaphore, Select, FirstUse, Allow,
           Sleep, Wake, Retry, Tick
  <2>2. CASE CommitInsert(c)
    <3>1. /\ row = NoRow
          /\ row' = stamp[c]
          /\ grants' = Append(grants, GrantOf(c))
      BY <2>2 DEF CommitInsert
    <3>2. QED
      BY <3>1, GrantIsAllowed DEF IInv, Abstract!Next
  <2>3. CASE CommitUpdate(c)
    <3>1. /\ stamp[c] - row >= Interval
          /\ row' = stamp[c]
          /\ grants' = Append(grants, GrantOf(c))
      BY <2>3 DEF CommitUpdate, IInv, LockInv
    <3>2. QED
      BY <3>1, GrantIsAllowed DEF IInv, Abstract!Next
  <2>4. ASSUME NEW fate \in {"applied", "lost"}, DbError(c, fate)
        PROVE  Abstract!Next
    <3>1. grants' = grants /\ row' # row
      BY <2>4 DEF DbError
    <3>2. /\ row' = stamp[c]
          /\ row = NoRow \/ stamp[c] - row >= Interval
      BY <2>4, <3>1 DEF DbError, IInv, LockInv
    <3>3. stamp[c] \in Int
      BY DEF IInv, TypeOK
    <3>4. Stamps' = Stamps
      BY <3>1 DEF Stamps, StampOf
    <3>5. QED
      BY <3>2, <3>3, <3>4
      DEF Abstract!Next, Abstract!AnswerLost, Abstract!Advance
  <2>5. QED
    BY <2>1, <2>2, <2>3, <2>4
<1>3. QED
  BY <1>1, <1>2, Invariance, PTL
  DEF Spec, ImplementsPacing, Abstract!Spec

=============================================================================
