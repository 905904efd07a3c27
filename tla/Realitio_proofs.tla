--------------------------- MODULE Realitio_proofs ---------------------------
(***************************************************************************)
(* Proofs about Realitio, for any markets, bonds, funds and settings, and  *)
(* any numbers of answers and of failures.                                 *)
(***************************************************************************)
EXTENDS Realitio, FiniteSetTheorems, SequenceTheorems, WellFoundedInduction,
        TLAPS

Claiming == {"fetch", "claim", "withdraw"}

OutsideOK ==
    /\ history \in [Markets -> Seq(Answer)]
    /\ final \subseteq Markets /\ claimed \subseteq Markets
    /\ balance \in Nat
    /\ condition \in [Markets -> {"none", "prepared", "resolved"}]
    /\ indexed \in [Markets -> Nat]
    /\ old \in BOOLEAN /\ stranded \in BOOLEAN

\* What is unwrapped is there: nobody else touches the wallets meanwhile.
FundsOK ==
    /\ setting \in Settings
    /\ eoa \in Nat /\ safe \in Nat /\ eoaWrapped \in Nat /\ safeWrapped \in Nat
    /\ pc = "unwrap" => eoa < Required /\ eoaWrapped >= Need

WorkOK ==
    /\ pc \in Places
    /\ todo \subseteq Markets /\ (pc # "idle" => todo # {})
    /\ listed \subseteq Markets /\ errors \in Nat

TypeOK == OutsideOK /\ FundsOK /\ WorkOK

\* Bonds never fall, and the operator's is always the same.
BondsRise ==
    \A m \in Markets :
        /\ \A i, j \in 1..Len(history[m]) : i <= j => history[m][i].bond <= history[m][j].bond
        /\ \A i \in 1..Len(history[m]) :
               history[m][i].by = "operator" => history[m][i].bond = Bond

Bonds == BondsRise /\ OneBondEach

\* What is claimed is final and known to the subgraph, as far as it is read.
ClaimsFinal ==
    /\ \A m \in Markets : indexed[m] <= Len(history[m])
    /\ pc \in Claiming => \A m \in todo : m \in final /\ indexed[m] > 0
    /\ pc = "claim" => /\ Len(view) \in 1..Len(history[Current])
                       /\ view \in Sorted(Current, Len(view))

\* A share on Realitio is about to be withdrawn or has been left behind.
Withdrawn == setting.autoWithdraw => balance = 0 \/ stranded \/ pc = "withdraw"

IInv == TypeOK /\ Bonds /\ ClaimsFinal /\ Withdrawn

-----------------------------------------------------------------------------
\* A set of naturals has a least element.
LEMMA LeastNatural ==
  ASSUME NEW T, T \subseteq Nat, T # {}
  PROVE  \E x \in T : \A y \in T : x <= y
<1> DEFINE R == {ss \in Nat \X Nat : ss[1] < ss[2]}
<1>1. IsWellFoundedOn(R, Nat)
  BY NatLessThanWellFounded, Zenon DEF OpToRel
<1>2. \E x \in T : \A y \in T : <<y, x>> \notin R
  BY <1>1, WFMin, Zenon
<1>3. \A x, y \in Nat : y < x => <<y, x>> \in R
  OBVIOUS
<1>4. PICK x \in T : \A y \in T : <<y, x>> \notin R
  BY <1>2
<1>5. \A y \in T : ~(y < x)
  BY <1>3, <1>4, Zenon
<1> QED
  BY <1>5

\* A list that is not empty has a market at work.
LEMMA CurrentListed ==
  ASSUME todo \subseteq Markets, todo # {}
  PROVE  Current \in todo
<1>1. \A m \in Markets : Position(m) \in Nat
  <2>1. DOMAIN Listing \subseteq Nat
    BY RealitioAssumption, LenProperties
  <2>2. \A m \in Markets : Position(m) \in DOMAIN Listing
    BY DEF Markets, Range, Position
  <2> QED
    BY <2>1, <2>2
<1> DEFINE T == {Position(m) : m \in todo}
<1>2. T \subseteq Nat /\ T # {}
  BY <1>1
<1>3. PICK x \in T : \A y \in T : x <= y
  BY <1>2, LeastNatural
<1>4. PICK m \in todo : \A n \in todo : Position(m) <= Position(n)
  BY <1>3
<1> QED
  BY <1>4, Zenon DEF Current

\* Numbers sorted without a tie, from a list of the first n, are these in
\* order.
LEMMA SortedUntied ==
  ASSUME NEW n \in Nat, NEW s \in [1..n -> 1..n],
         \A i, j \in 1..n : i # j => s[i] # s[j],
         \A i, j \in 1..n : i < j => ~(s[j] < s[i])
  PROVE  \A k \in 1..n : s[k] = k
<1> DEFINE Wrong == {k \in 1..n : s[k] # k}
<1>1. ASSUME Wrong # {} PROVE FALSE
  <2>0. Wrong \subseteq Nat
    OBVIOUS
  <2>1. PICK k \in Wrong : \A j \in Wrong : k <= j
    <3> HIDE DEF Wrong
    <3> QED
      BY <1>1, <2>0, LeastNatural
  <2>2. \A j \in 1..(k - 1) : s[j] = j
    BY <2>1
  <2>3. s[k] \in 1..n /\ s[k] # k /\ k \in 1..n
    BY <2>1
  <2>4. s[k] > k
    <3>1. ASSUME s[k] < k PROVE FALSE
      <4>1. s[k] \in 1..(k - 1) /\ s[k] # k
        BY <2>3, <3>1
      <4>2. s[s[k]] = s[k]
        BY <2>2, <4>1
      <4> QED
        BY <2>3, <4>1, <4>2
    <3> QED
      BY <2>3, <3>1
  <2>5. \E j \in 1..n : s[j] = k
    <3>1. s \in Injection(1..n, 1..n)
      BY DEF Injection, IsInjective
    <3>2. IsFiniteSet(1..n)
      BY FS_Interval
    <3>3. s \in Surjection(1..n, 1..n)
      BY <3>1, <3>2, FS_Injection
    <3> QED
      BY <2>3, <3>3 DEF Surjection
  <2>6. PICK j \in 1..n : s[j] = k
    BY <2>5
  <2>7. CASE j < k
    BY <2>2, <2>3, <2>6, <2>7
  <2>8. CASE j = k
    BY <2>3, <2>6, <2>8
  <2>9. CASE j > k
    <3>1. s[j] < s[k]
      BY <2>3, <2>4, <2>6
    <3> QED
      BY <2>3, <2>9, <3>1
  <2> QED
    BY <2>3, <2>7, <2>8, <2>9
<1> QED
  BY <1>1

-----------------------------------------------------------------------------
\* The last bond is at least any other.
LEMMA LastIsHighest ==
  ASSUME TypeOK, NEW m \in Markets
  PROVE  /\ Len(history[m]) \in Nat /\ LastBond(m) \in Nat
         /\ \A i \in 1..Len(history[m]) : history[m][i] \in Answer
         /\ history[m] # <<>> => Len(history[m]) # 0
         /\ BondsRise => \A i \in 1..Len(history[m]) : history[m][i].bond <= LastBond(m)
<1>1. /\ history[m] \in Seq(Answer) /\ Len(history[m]) \in Nat
      /\ history[m] # <<>> => Len(history[m]) # 0
      /\ history[m] = <<>> => Len(history[m]) = 0
  BY EmptySeq DEF TypeOK, OutsideOK
<1>2. \A i \in 1..Len(history[m]) : history[m][i] \in Answer
  BY <1>1, ElementOfSeq
<1>3. history[m] # <<>> =>
          /\ Len(history[m]) \in 1..Len(history[m])
          /\ LastBond(m) = history[m][Len(history[m])].bond
  BY <1>1 DEF LastBond, Last
<1>4. LastBond(m) \in Nat
  BY <1>2, <1>3 DEF LastBond, Answer
<1>5. ASSUME BondsRise, NEW i \in 1..Len(history[m])
      PROVE  history[m][i].bond <= LastBond(m)
  <2>1. history[m] # <<>> /\ i <= Len(history[m])
    BY <1>1
  <2> QED
    BY <1>3, <1>5, <2>1 DEF BondsRise
<1> QED
  BY <1>1, <1>2, <1>4, <1>5

\* An answer more.
LEMMA AnswerAdded ==
  ASSUME TypeOK, NEW m \in Markets, NEW by \in {"operator", "other"},
         NEW answer \in {"outcome", "invalid"}, NEW bond \in Nat,
         AddAnswer(m, by, answer, bond)
  PROVE  /\ history' \in [Markets -> Seq(Answer)]
         /\ \A n \in Markets : n # m => history'[n] = history[n]
         /\ Len(history'[m]) = Len(history[m]) + 1
         /\ \A i \in 1..Len(history[m]) : history'[m][i] = history[m][i]
         /\ history'[m][Len(history[m]) + 1].by = by
         /\ history'[m][Len(history[m]) + 1].bond = bond
<1>1. PICK tied \in BOOLEAN :
          history' = [history EXCEPT ![m] =
              Append(@, [by |-> by, answer |-> answer, bond |-> bond, tied |-> tied])]
  BY DEF AddAnswer
<1> DEFINE a == [by |-> by, answer |-> answer, bond |-> bond, tied |-> tied]
<1>2. a \in Answer /\ a.by = by /\ a.bond = bond
  BY DEF Answer
<1> HIDE DEF a
<1>3. history' = [history EXCEPT ![m] = Append(@, a)]
  BY <1>1 DEF a
<1>4. /\ history \in [Markets -> Seq(Answer)] /\ history[m] \in Seq(Answer)
      /\ history'[m] = Append(history[m], a)
      /\ \A n \in Markets : n # m => history'[n] = history[n]
  BY <1>3 DEF TypeOK, OutsideOK
<1>5. /\ history'[m] \in Seq(Answer) /\ Len(history'[m]) = Len(history[m]) + 1
      /\ \A i \in 1..Len(history[m]) : history'[m][i] = history[m][i]
      /\ history'[m][Len(history[m]) + 1] = a
  BY <1>2, <1>4, AppendProperties
<1>6. history' \in [Markets -> Seq(Answer)]
  BY <1>3, <1>4, <1>5
<1> QED
  BY <1>2, <1>4, <1>5, <1>6

\* Realitio's rule that bonds double leaves the operator one of its bonds.
LEMMA BondsAdded ==
  ASSUME TypeOK, Bonds, NEW m \in Markets, NEW by \in {"operator", "other"},
         NEW answer \in {"outcome", "invalid"}, NEW bond \in Nat,
         by = "operator" => bond = Bond,
         Accepts(m, bond), AddAnswer(m, by, answer, bond)
  PROVE  Bonds'
<1> DEFINE n == Len(history[m])
<1>1. /\ n \in Nat /\ Len(history'[m]) = n + 1
      /\ \A i \in 1..n : history'[m][i] = history[m][i]
      /\ history'[m][n + 1].by = by /\ history'[m][n + 1].bond = bond
      /\ \A k \in Markets : k # m => history'[k] = history[k]
  BY AnswerAdded, LastIsHighest
<1>2. /\ LastBond(m) \in Nat /\ bond >= 2 * LastBond(m) /\ bond > 0
      /\ \A i \in 1..n : history[m][i].bond \in Nat /\ history[m][i].bond <= LastBond(m)
  BY LastIsHighest DEF Accepts, Bonds, Answer
<1>3. \A i \in 1..n : history[m][i].bond <= bond
  BY <1>2
<1>4. by = "operator" => \A i \in 1..n : history[m][i].by # "operator"
  <2>1. Bond \in Nat \ {0}
    BY RealitioAssumption
  <2>2. ASSUME by = "operator", NEW i \in 1..n, history[m][i].by = "operator" PROVE FALSE
    <3>1. history[m][i].bond = Bond /\ Bond <= LastBond(m)
      BY <1>2, <2>2 DEF Bonds, BondsRise
    <3> QED
      BY <1>2, <2>1, <2>2, <3>1
  <2> QED
    BY <2>2
<1> HIDE DEF n
<1>5. ASSUME NEW i \in 1..(n + 1), NEW j \in 1..(n + 1), i <= j
      PROVE  history'[m][i].bond <= history'[m][j].bond
  <2>1. CASE j = n + 1 /\ i = n + 1
    BY <1>1, <2>1
  <2>2. CASE j = n + 1 /\ i # n + 1
    <3>1. i \in 1..n
      BY <1>1, <2>2
    <3> QED
      BY <1>1, <1>3, <2>2, <3>1
  <2>3. CASE j # n + 1
    <3>1. i \in 1..n /\ j \in 1..n
      BY <1>1, <1>5, <2>3
    <3> QED
      BY <1>1, <1>5, <3>1 DEF Bonds, BondsRise, n
  <2> QED
    BY <2>1, <2>2, <2>3
<1>6. ASSUME NEW i \in 1..(n + 1), history'[m][i].by = "operator"
      PROVE  /\ history'[m][i].bond = Bond
             /\ by = "operator" => i = n + 1
             /\ i # n + 1 => i \in 1..n /\ history[m][i].by = "operator"
  <2>1. CASE i = n + 1
    BY <1>1, <1>6, <2>1
  <2>2. CASE i # n + 1
    <3>1. i \in 1..n
      BY <1>1, <2>2
    <3> QED
      BY <1>1, <1>4, <1>6, <2>2, <3>1 DEF Bonds, BondsRise, n
  <2> QED
    BY <2>1, <2>2
<1>7. BondsRise'
  BY <1>1, <1>5, <1>6 DEF Bonds, BondsRise
<1>8. DOMAIN history'[m] = 1..(n + 1) /\ DOMAIN history[m] = 1..n
  <2>1. history'[m] \in Seq(Answer) /\ history[m] \in Seq(Answer)
    BY AnswerAdded DEF TypeOK, OutsideOK
  <2> QED
    BY <1>1, <2>1, LenProperties DEF n
<1>9. ASSUME NEW i \in 1..(n + 1), NEW j \in 1..(n + 1),
             history'[m][i].by = "operator", history'[m][j].by = "operator"
      PROVE  i = j
  <2>1. i = n + 1 => by = "operator"
    BY <1>1, <1>9
  <2>2. j = n + 1 => by = "operator"
    BY <1>1, <1>9
  <2>3. CASE i = n + 1 \/ j = n + 1
    BY <1>6, <1>9, <2>1, <2>2, <2>3
  <2>4. CASE i # n + 1 /\ j # n + 1
    BY <1>6, <1>8, <1>9, <2>4 DEF Bonds, OneBondEach
  <2> QED
    BY <2>3, <2>4
<1>10. OneBondEach'
  BY <1>1, <1>8, <1>9 DEF Bonds, OneBondEach
<1> QED
  BY <1>7, <1>10 DEF Bonds
-----------------------------------------------------------------------------
\* The initial states.
LEMMA Initially ==
  Init => IInv
<1> SUFFICES ASSUME Init PROVE IInv
  OBVIOUS
<1>1. TypeOK
  <2>1. Native \in Nat /\ SafeNative \in Nat /\ Wrapped \in Nat
    BY RealitioAssumption
  <2>2. FundsOK
    BY <2>1 DEF Init, FundsOK
  <2>3. /\ history \in [Markets -> Seq(Answer)]
        /\ condition \in [Markets -> {"none", "prepared", "resolved"}]
        /\ indexed \in [Markets -> Nat]
    <3>1. <<>> \in Seq(Answer)
      BY EmptySeq
    <3> QED
      BY <3>1 DEF Init
  <2> QED
    BY <2>2, <2>3, Zenon DEF Init, TypeOK, OutsideOK, WorkOK, Places
<1>2. Bonds
  BY DEF Init, Bonds, BondsRise, OneBondEach
<1>3. ClaimsFinal
  BY DEF Init, ClaimsFinal, Claiming
<1>4. Withdrawn
  BY DEF Init, Withdrawn
<1> QED
  BY <1>1, <1>2, <1>3, <1>4 DEF IInv

\* Starting, going on and giving up keep the list a list of markets.
LEMMA ListsKept ==
  ASSUME WorkOK, NEW list \in SUBSET Markets, NEW place \in Places \ {"idle"},
         errors' \in Nat
  PROVE  /\ \A function : Start(function, place, list) => WorkOK'
         /\ Advance(place, list) => WorkOK'
<1>1. ASSUME NEW function, Start(function, place, list) PROVE WorkOK'
  BY <1>1 DEF WorkOK, Start
<1>2. ASSUME Advance(place, list) PROVE WorkOK'
  BY <1>2 DEF WorkOK, Advance, Places
<1> QED
  BY <1>1, <1>2

LEMMA GivenUp ==
  ASSUME WorkOK, Abort, errors' \in Nat
  PROVE  WorkOK'
BY DEF WorkOK, Abort, Places

\* Whichever step is taken, the list at work stays one.
LEMMA WorkKept ==
  ASSUME TypeOK, Next
  PROVE  WorkOK'
<1>1. /\ pc # "idle" => Current \in Markets /\ listed \cup {Current} \subseteq Markets
      /\ listed \subseteq Markets /\ final \subseteq Markets
  BY CurrentListed DEF TypeOK, WorkOK, OutsideOK
<1>2. WorkOK /\ (errors' = errors \/ Failure => errors' \in Nat)
  BY DEF TypeOK, WorkOK, Failure
<1>3. Failure /\ Abort => WorkOK'
  BY <1>2, GivenUp
<1>4. ASSUME ClaimRaises, pc # "idle", errors' = errors \/ Failure
      PROVE  WorkOK'
  <2>1. errors' \in Nat
    BY <1>2, <1>4
  <2>2. "fetch" \in Places \ {"idle"}
    BY DEF Places
  <2> QED
    BY <1>1, <1>2, <1>4, <2>1, <2>2, ListsKept, GivenUp DEF ClaimRaises
<1>5. ASSUME todo' = todo, listed' = listed, pc' \in Places, pc # "idle", errors' = errors
      PROVE  WorkOK'
  BY <1>2, <1>5 DEF WorkOK
<1>6. ASSUME NEW list \in SUBSET Markets, NEW place \in Places \ {"idle"},
             pc # "idle", Advance(place, list), errors' = errors
      PROVE  WorkOK'
  BY <1>2, <1>6, ListsKept
<1>7. Abort /\ errors' = errors => WorkOK'
  BY <1>2, GivenUp
<1>8. {"topup", "fetch", "check"} \subseteq Places \ {"idle"}
  BY DEF Places
<1>9. CASE Starts
  <2>1. {m \in Markets : indexed[m] = 0} \in SUBSET Markets
    OBVIOUS
  <2>2. CASE StartFinalize
    BY <1>2, <1>8, <2>1, <2>2, ListsKept DEF StartFinalize
  <2>3. CASE StartResolve
    BY <1>1, <1>2, <1>8, <2>3, ListsKept DEF StartResolve
  <2>4. CASE StartClaim
    BY <1>1, <1>2, <1>8, <2>4, ListsKept DEF StartClaim
  <2> QED
    BY <1>9, <2>2, <2>3, <2>4 DEF Starts
<1>10. CASE Finalizes
  <2>1. CASE EnoughNative
    BY <1>5, <2>1 DEF EnoughNative, work, Places
  <2>2. CASE Unwrap
    BY <1>3, <1>5, <2>2 DEF Unwrap, Then, work, Places
  <2>3. CASE FromSafe
    BY <1>3, <1>5, <2>3 DEF FromSafe, Then, work, Places
  <2>4. CASE OutOfFunds
    BY <1>7, <2>4 DEF OutOfFunds
  <2>5. CASE Skip
    BY <1>1, <1>6, <1>8, <2>5 DEF Skip, Answerable
  <2>6. ASSUME NEW answer, Submit(answer) PROVE WorkOK'
    BY <1>1, <1>3, <1>6, <1>8, <2>6 DEF Submit, Answerable, Then
  <2>7. CASE SubmitReverts \/ NoSuchOutcome
    BY <1>7, <2>7 DEF SubmitReverts, NoSuchOutcome, Answerable
  <2> QED
    BY <1>10, <2>1, <2>2, <2>3, <2>4, <2>5, <2>6, <2>7
       DEF Finalizes, SubmitInvalid, SubmitOutcome
<1>11. CASE Resolves
  <2>1. CASE Check
    BY <1>5, <2>1 DEF Check, work, Places
  <2>2. CASE Prepare
    BY <1>3, <1>5, <2>2 DEF Prepare, Then, work, Places
  <2>3. CASE PrepareReverts
    BY <1>7, <2>3 DEF PrepareReverts
  <2>4. CASE Report
    BY <1>1, <1>3, <1>6, <1>8, <2>4 DEF Report, Then
  <2>5. CASE ReportSwallowed
    BY <1>1, <1>6, <1>8, <2>5 DEF ReportSwallowed
  <2> QED
    BY <1>11, <2>1, <2>2, <2>3, <2>4, <2>5 DEF Resolves
<1>12. CASE Claims
  <2>1. CASE Fetch
    BY <1>5, <2>1 DEF Fetch, work, Places
  <2>2. CASE FetchRaises
    BY <1>4, <2>2 DEF FetchRaises
  <2>3. CASE Claim
    BY <1>4, <1>5, <2>3 DEF Claim, work, Places
  <2>4. CASE ClaimFails
    BY <1>4, <2>4 DEF ClaimFails
  <2>5. CASE Withdraw
    BY <1>1, <1>6, <1>8, <2>5 DEF Withdraw
  <2>6. CASE WithdrawFails
    BY <1>4, <2>6 DEF WithdrawFails
  <2> QED
    BY <1>12, <2>1, <2>2, <2>3, <2>4, <2>5, <2>6 DEF Claims
<1>13. CASE Fails
  BY <1>3, <1>13 DEF Fails
<1>14. CASE Passing \/ \E m \in Contested : Others(m)
  <2>1. pc' = pc /\ todo' = todo /\ listed' = listed /\ errors' = errors
    <3>1. CASE Passing
      BY <3>1 DEF Passing, Age, TimeUp, Index, run, work
    <3>2. CASE \E m \in Contested : Others(m)
      BY <3>2 DEF Others, OtherAnswers, OtherPrepares, OtherReports, OtherClaims, run, work
    <3> QED
      BY <1>14, <3>1, <3>2
  <2> QED
    BY <1>2, <2>1 DEF WorkOK
<1> QED
  BY <1>9, <1>10, <1>11, <1>12, <1>13, <1>14 DEF Next, Operator

\* Nothing is paid that is not there.
LEMMA FundsKept ==
  ASSUME TypeOK, Next
  PROVE  FundsOK'
<1>1. /\ Bond \in Nat /\ Reserve \in Nat /\ Required \in Nat /\ setting \in Settings
      /\ eoa \in Nat /\ safe \in Nat /\ eoaWrapped \in Nat /\ safeWrapped \in Nat
      /\ Need = Required - eoa
  BY RealitioAssumption DEF TypeOK, FundsOK, Required, Need
<1>2. Required' = Required /\ (eoa' = eoa => Need' = Need)
  BY DEF Required, Need
<1>3. ASSUME UNCHANGED <<setting, wallet>>, pc' # "unwrap" \/ pc' = pc
      PROVE  FundsOK'
  BY <1>2, <1>3 DEF TypeOK, FundsOK, wallet
<1>4. Abort => pc' # "unwrap"
  BY DEF Abort
<1>5. ASSUME NEW place, NEW list, Advance(place, list), place # "unwrap"
      PROVE  pc' # "unwrap"
  BY <1>5 DEF Advance
<1>6. ClaimRaises => pc' # "unwrap"
  BY <1>4, <1>5 DEF ClaimRaises
<1>7. CASE Starts
  BY <1>3, <1>7 DEF Starts, StartFinalize, StartResolve, StartClaim, Start, outside
<1>8. CASE Finalizes
  <2>1. CASE EnoughNative
    BY <1>3, <2>1 DEF EnoughNative, outside
  <2>2. CASE Unwrap
    <3>1. eoa < Required /\ eoaWrapped >= Need
      BY <2>2 DEF Unwrap, TypeOK, FundsOK
    <3>2. pc' # "unwrap"
      BY <1>4, <2>2 DEF Unwrap, Then
    <3>3. /\ eoa' = Required /\ eoaWrapped' = eoaWrapped - Need
          /\ safe' = safe /\ safeWrapped' = safeWrapped /\ setting' = setting
      BY <2>2 DEF Unwrap
    <3> QED
      BY <1>1, <3>1, <3>2, <3>3 DEF FundsOK
  <2>3. CASE FromSafe
    <3>1. /\ eoa < Required /\ safeWrapped >= Need
          /\ eoa' = eoa /\ safe' = safe /\ setting' = setting
          /\ eoaWrapped' = eoaWrapped + Need /\ safeWrapped' = safeWrapped - Need
      BY <2>3 DEF FromSafe
    <3> QED
      BY <1>1, <1>2, <3>1 DEF FundsOK
  <2>4. CASE OutOfFunds
    BY <1>3, <1>4, <2>4 DEF OutOfFunds, outside
  <2>5. CASE Skip
    BY <1>3, <1>5, <2>5 DEF Skip, Answerable, outside
  <2>6. ASSUME NEW answer, Submit(answer) PROVE FundsOK'
    <3>1. pc' # "unwrap"
      BY <1>4, <1>5, <2>6 DEF Submit, Answerable, Then
    <3>2. /\ setting' = setting /\ eoaWrapped' = eoaWrapped /\ safeWrapped' = safeWrapped
          /\ eoa' \in {eoa, eoa - Bond} /\ safe' \in {safe, safe - Bond}
          /\ eoa' # eoa => eoa >= Bond
          /\ safe' # safe => safe >= Bond
      BY <2>6 DEF Submit, Answerable, Payer, Offer
    <3> QED
      BY <1>1, <3>1, <3>2 DEF FundsOK
  <2>7. CASE SubmitReverts \/ NoSuchOutcome
    BY <1>3, <1>4, <2>7 DEF SubmitReverts, NoSuchOutcome, Answerable, outside
  <2> QED
    BY <1>8, <2>1, <2>2, <2>3, <2>4, <2>5, <2>6, <2>7
       DEF Finalizes, SubmitInvalid, SubmitOutcome
<1>9. CASE Resolves
  <2>1. CASE Check \/ PrepareReverts \/ ReportSwallowed
    BY <1>3, <1>4, <1>5, <2>1 DEF Check, PrepareReverts, ReportSwallowed, outside
  <2>2. CASE Prepare \/ Report
    BY <1>3, <1>4, <1>5, <2>2 DEF Prepare, Report, Then
  <2> QED
    BY <1>9, <2>1, <2>2 DEF Resolves
<1>10. CASE Claims
  <2>1. CASE Fetch \/ FetchRaises \/ ClaimFails
    BY <1>3, <1>6, <2>1 DEF Fetch, FetchRaises, ClaimFails, outside
  <2>2. CASE Claim \/ Withdraw \/ WithdrawFails
    BY <1>3, <1>5, <1>6, <2>2 DEF Claim, Withdraw, WithdrawFails
  <2> QED
    BY <1>10, <2>1, <2>2 DEF Claims
<1>11. CASE Fails
  BY <1>3, <1>4, <1>11 DEF Fails, outside
<1>12. CASE Passing
  BY <1>3, <1>12 DEF Passing, Age, TimeUp, Index, run
<1>13. CASE \E m \in Contested : Others(m)
  BY <1>3, <1>13 DEF Others, OtherAnswers, OtherPrepares, OtherReports, OtherClaims, run
<1> QED
  BY <1>7, <1>8, <1>9, <1>10, <1>11, <1>12, <1>13 DEF Next, Operator
-----------------------------------------------------------------------------
\* Answers are added one by one, to questions that are not final.
AnswerGiven ==
    \E m \in Markets, by \in {"operator", "other"}, answer \in {"outcome", "invalid"},
       bond \in Nat :
        /\ by = "operator" => bond = Bond
        /\ Accepts(m, bond) /\ AddAnswer(m, by, answer, bond)
        /\ UNCHANGED <<final, indexed>>

LEMMA HistoryGrows ==
  ASSUME TypeOK, Next
  PROVE  UNCHANGED history \/ AnswerGiven
<1>1. pc # "idle" => Current \in Markets
  BY CurrentListed DEF TypeOK, WorkOK
<1>2. Bond \in Nat /\ Contested \subseteq Markets
  BY RealitioAssumption
<1>3. CASE Starts
  BY <1>3 DEF Starts, StartFinalize, StartResolve, StartClaim, outside, contracts
<1>4. CASE Finalizes
  <2>1. ASSUME NEW answer \in {"outcome", "invalid"}, Submit(answer) PROVE AnswerGiven
    BY <1>1, <1>2, <2>1 DEF Submit, Answerable, Offer, AnswerGiven
  <2>2. CASE SubmitInvalid \/ SubmitOutcome
    BY <2>1, <2>2 DEF SubmitInvalid, SubmitOutcome
  <2>3. CASE ~(SubmitInvalid \/ SubmitOutcome)
    BY <1>4, <2>3 DEF Finalizes, EnoughNative, Unwrap, FromSafe, OutOfFunds, Skip,
                      SubmitReverts, NoSuchOutcome, Answerable, outside, contracts
  <2> QED
    BY <2>2, <2>3
<1>5. CASE Resolves
  BY <1>5 DEF Resolves, Check, Prepare, PrepareReverts, Report, ReportSwallowed,
              outside, contracts
<1>6. CASE Claims
  BY <1>6 DEF Claims, Fetch, FetchRaises, Claim, ClaimFails, Withdraw, WithdrawFails,
              outside, contracts
<1>7. CASE Fails
  BY <1>7 DEF Fails, outside, contracts
<1>8. CASE Passing
  BY <1>8 DEF Passing, Age, TimeUp, Index, contracts
<1>9. CASE \E m \in Contested : Others(m)
  <2>1. PICK m \in Markets : Others(m)
    BY <1>2, <1>9
  <2>2. CASE OtherAnswers(m)
    <3> DEFINE bond == IF history[m] = <<>> THEN 1 ELSE 2 * LastBond(m)
    <3>1. bond \in Nat
      BY LastIsHighest
    <3>2. /\ Accepts(m, bond) /\ AddAnswer(m, "other", "outcome", bond)
          /\ UNCHANGED <<final, indexed>>
      BY <2>2 DEF OtherAnswers
    <3> HIDE DEF bond
    <3> QED
      BY <3>1, <3>2 DEF AnswerGiven
  <2>3. CASE ~OtherAnswers(m)
    BY <2>1, <2>3 DEF Others, OtherPrepares, OtherReports, OtherClaims
  <2> QED
    BY <2>2, <2>3
<1> QED
  BY <1>3, <1>4, <1>5, <1>6, <1>7, <1>8, <1>9 DEF Next, Operator

\* A final answer stays the last one.
LEMMA HistoriesKept ==
  ASSUME TypeOK, Next
  PROVE  /\ history' \in [Markets -> Seq(Answer)]
         /\ \A m \in Markets : /\ Len(history[m]) \in Nat /\ Len(history'[m]) \in Nat
                               /\ Len(history[m]) <= Len(history'[m])
         /\ \A m \in final : history'[m] = history[m]
<1>1. \A m \in Markets : Len(history[m]) \in Nat
  BY LastIsHighest
<1>2. final \subseteq Markets /\ history \in [Markets -> Seq(Answer)]
  BY DEF TypeOK, OutsideOK
<1>3. CASE UNCHANGED history
  BY <1>1, <1>2, <1>3
<1>4. CASE AnswerGiven
  <2>1. PICK m \in Markets, by \in {"operator", "other"},
             answer \in {"outcome", "invalid"}, bond \in Nat :
            Accepts(m, bond) /\ AddAnswer(m, by, answer, bond)
    BY <1>4 DEF AnswerGiven
  <2>2. /\ history' \in [Markets -> Seq(Answer)]
        /\ \A n \in Markets : n # m => history'[n] = history[n]
        /\ Len(history'[m]) = Len(history[m]) + 1
    BY <2>1, AnswerAdded
  <2>3. m \notin final
    BY <2>1 DEF Accepts
  <2>4. ASSUME NEW n \in Markets
        PROVE  /\ Len(history'[n]) \in Nat
               /\ Len(history[n]) <= Len(history'[n])
    <3>1. CASE n = m
      BY <1>1, <2>2, <3>1
    <3>2. CASE n # m
      <4>1. history'[n] = history[n] /\ Len(history[n]) \in Nat
        BY <1>1, <2>2, <3>2
      <4> QED
        BY <4>1
    <3> QED
      BY <3>1, <3>2
  <2>5. \A n \in final : history'[n] = history[n]
    BY <1>2, <2>2, <2>3
  <2> QED
    BY <1>1, <2>2, <2>4, <2>5
<1> QED
  BY <1>3, <1>4, HistoryGrows

LEMMA BondsKept ==
  ASSUME TypeOK, Bonds, Next
  PROVE  Bonds'
<1>1. CASE UNCHANGED history
  BY <1>1 DEF Bonds, BondsRise, OneBondEach
<1>2. CASE AnswerGiven
  BY <1>2, BondsAdded DEF AnswerGiven
<1> QED
  BY <1>1, <1>2, HistoryGrows
-----------------------------------------------------------------------------
\* What is final stays final, and the subgraph forgets no answer.
LEMMA OutsideKept ==
  ASSUME TypeOK, Next, \A m \in Markets : indexed[m] <= Len(history[m])
  PROVE  /\ OutsideOK'
         /\ final \subseteq final'
         /\ \A m \in Markets : /\ indexed[m] \in Nat /\ indexed'[m] \in Nat
                               /\ indexed[m] <= indexed'[m]
                               /\ indexed'[m] <= Len(history'[m])
<1>1. /\ pc # "idle" => Current \in Markets
      /\ Contested \subseteq Markets
  BY CurrentListed, RealitioAssumption DEF TypeOK, WorkOK
<1>2. OutsideOK /\ \A m \in Markets : Share(m) \in Nat
  BY DEF TypeOK, Share
<1>3. /\ history' \in [Markets -> Seq(Answer)]
      /\ \A m \in Markets : /\ Len(history[m]) \in Nat /\ Len(history'[m]) \in Nat
                            /\ Len(history[m]) <= Len(history'[m])
  BY HistoriesKept
\* All steps but a few leave what the operator does not hold alone.
<1>4. ASSUME UNCHANGED <<final, claimed, balance, condition, indexed, old, stranded>>
      PROVE  OutsideOK'
  BY <1>2, <1>3, <1>4 DEF OutsideOK
<1>5. OutsideOK'
  <2>1. CASE Starts
    BY <1>4, <2>1 DEF Starts, StartFinalize, StartResolve, StartClaim, outside, contracts
  <2>2. CASE Finalizes
    BY <1>4, <2>2 DEF Finalizes, EnoughNative, Unwrap, FromSafe, OutOfFunds, Skip,
                      SubmitInvalid, SubmitOutcome, Submit, SubmitReverts,
                      NoSuchOutcome, Answerable, outside,
                      contracts
  <2>3. CASE Check \/ PrepareReverts \/ ReportSwallowed
    BY <1>4, <2>3 DEF Check, PrepareReverts, ReportSwallowed, outside, contracts
  <2>4. CASE Prepare \/ Report \/ \E m \in Contested : OtherPrepares(m) \/ OtherReports(m)
    <3>1. /\ condition' \in [Markets -> {"none", "prepared", "resolved"}]
          /\ UNCHANGED <<final, claimed, balance, indexed, old, stranded>>
      BY <1>1, <1>2, <2>4 DEF Prepare, Report, OtherPrepares, OtherReports, OutsideOK
    <3> QED
      BY <1>2, <1>3, <3>1 DEF OutsideOK
  <2>5. CASE Fetch \/ FetchRaises \/ ClaimFails
    BY <1>4, <2>5 DEF Fetch, FetchRaises, ClaimFails, outside, contracts
  <2>6. CASE Claim \/ \E m \in Contested : OtherClaims(m)
    <3>1. claimed' \subseteq Markets /\ balance' \in Nat
      BY <1>1, <1>2, <2>6 DEF Claim, OtherClaims, OutsideOK
    <3>2. UNCHANGED <<final, condition, indexed, old>>
      BY <2>6 DEF Claim, OtherClaims
    <3>3. stranded' \in BOOLEAN
      BY <1>2, <2>6, Zenon DEF Claim, OtherClaims, OutsideOK
    <3> QED
      BY <1>2, <1>3, <3>1, <3>2, <3>3 DEF OutsideOK
  <2>7. CASE Withdraw \/ WithdrawFails
    <3>1. balance' \in Nat
      BY <1>2, <2>7 DEF Withdraw, WithdrawFails, OutsideOK
    <3>2. UNCHANGED <<final, claimed, condition, indexed, old>>
      BY <2>7 DEF Withdraw, WithdrawFails, contracts
    <3>3. stranded' \in BOOLEAN
      BY <1>2, <2>7, Zenon DEF Withdraw, WithdrawFails, OutsideOK
    <3> QED
      BY <1>2, <1>3, <3>1, <3>2, <3>3 DEF OutsideOK
  <2>8. CASE Fails
    BY <1>4, <2>8 DEF Fails, outside, contracts
  <2>9. CASE Passing
    <3>1. CASE Age
      BY <1>2, <1>3, <3>1 DEF Age, OutsideOK, contracts
    <3>2. ASSUME NEW m \in Markets, TimeUp(m) PROVE OutsideOK'
      BY <1>2, <1>3, <3>2 DEF TimeUp, OutsideOK
    <3>3. ASSUME NEW m \in Markets, Index(m) PROVE OutsideOK'
      <4>1. /\ indexed' \in [Markets -> Nat]
            /\ UNCHANGED <<final, claimed, balance, condition, old, stranded>>
        BY <1>2, <3>3 DEF Index, OutsideOK, contracts
      <4> QED
        BY <1>2, <1>3, <4>1 DEF OutsideOK
    <3> QED
      BY <2>9, <3>1, <3>2, <3>3 DEF Passing
  <2>10. CASE \E m \in Contested : OtherAnswers(m)
    BY <1>4, <2>10 DEF OtherAnswers
  <2> QED
    BY <2>1, <2>2, <2>3, <2>4, <2>5, <2>6, <2>7, <2>8, <2>9, <2>10, Zenon
       DEF Next, Operator, Resolves, Claims, Others
<1>6. final' = final \/ \E m \in Markets : TimeUp(m)
  BY DEF Next, Starts, StartFinalize, StartResolve, StartClaim, Operator, Finalizes,
         EnoughNative, Unwrap, FromSafe, OutOfFunds, Skip, SubmitInvalid, SubmitOutcome,
         Submit, SubmitReverts, NoSuchOutcome, Answerable,
         Resolves, Check, Prepare, PrepareReverts, Report,
         ReportSwallowed, Claims, Fetch, FetchRaises, Claim, ClaimFails, Withdraw,
         WithdrawFails, Fails, Passing, Age, Index, Others, OtherAnswers, OtherPrepares,
         OtherReports, OtherClaims, outside, contracts
<1>7. indexed' = indexed \/ \E m \in Markets : Index(m)
  BY DEF Next, Starts, StartFinalize, StartResolve, StartClaim, Operator, Finalizes,
         EnoughNative, Unwrap, FromSafe, OutOfFunds, Skip, SubmitInvalid, SubmitOutcome,
         Submit, SubmitReverts, NoSuchOutcome, Answerable,
         Resolves, Check, Prepare, PrepareReverts, Report,
         ReportSwallowed, Claims, Fetch, FetchRaises, Claim, ClaimFails, Withdraw,
         WithdrawFails, Fails, Passing, Age, TimeUp, Others, OtherAnswers, OtherPrepares,
         OtherReports, OtherClaims, outside, contracts
<1>8. \A m \in Markets : indexed[m] <= indexed'[m] /\ indexed'[m] <= Len(history[m])
  <2>1. CASE indexed' = indexed
    BY <1>2, <1>3, <2>1 DEF OutsideOK
  <2>2. ASSUME NEW m \in Markets, Index(m)
        PROVE  \A n \in Markets : indexed[n] <= indexed'[n] /\ indexed'[n] <= Len(history[n])
    BY <1>2, <1>3, <2>2 DEF OutsideOK, Index
  <2> QED
    BY <1>7, <2>1, <2>2
<1>9. \A m \in Markets : indexed[m] \in Nat /\ indexed'[m] \in Nat
  BY <1>2, <1>5 DEF OutsideOK
<1> QED
  BY <1>3, <1>5, <1>6, <1>8, <1>9 DEF TimeUp
\* A sorted view of the first n answers is a list of them.
LEMMA SortedViews ==
  ASSUME NEW m \in Markets, NEW n \in Nat, NEW s \in Sorted(m, n)
  PROVE  /\ s \in [1..n -> 1..n] /\ Len(s) = n
         /\ \A i, j \in 1..n : i # j => s[i] # s[j]
         /\ \A i, j \in 1..n : i < j /\ s[j] < s[i] => SameTime(m, s[j], s[i])
<1>1. Cardinality(1..n) = n
  BY FS_Interval
<1>2. /\ s \in [1..n -> 1..n]
      /\ \A i, j \in 1..n : i # j => s[i] # s[j]
      /\ \A i, j \in 1..n : i < j /\ s[j] < s[i] => SameTime(m, s[j], s[i])
  BY <1>1 DEF Sorted, SetToSeqs
<1>3. s \in Seq(1..n)
  BY <1>2, IsASeq
<1>4. Len(s) \in Nat /\ DOMAIN s = 1..Len(s)
  BY <1>3, LenProperties
<1>5. Len(s) = n
  BY <1>2, <1>4
<1> QED
  BY <1>2, <1>5

LEMMA ClaimsFinalKept ==
  ASSUME TypeOK, ClaimsFinal, Next, WorkOK'
  PROVE  ClaimsFinal'
<1>1. /\ final \subseteq final' /\ todo \subseteq Markets /\ todo' \subseteq Markets
      /\ \A m \in Markets : /\ indexed[m] \in Nat /\ indexed'[m] \in Nat
                            /\ indexed[m] <= indexed'[m]
                            /\ indexed'[m] <= Len(history'[m])
  BY OutsideKept DEF ClaimsFinal, TypeOK, WorkOK
<1>2. /\ pc # "idle" => Current \in Markets /\ Current \in todo
      /\ todo' = todo => Current' = Current
  BY CurrentListed DEF TypeOK, WorkOK, Current
<1>3. ASSUME todo' \subseteq todo, pc \in Claiming \/ pc' \notin Claiming
      PROVE  pc' \in Claiming => \A m \in todo' : m \in final' /\ indexed'[m] > 0
  <2>1. ASSUME pc' \in Claiming, NEW m \in todo' PROVE m \in final' /\ indexed'[m] > 0
    <3>1. m \in final /\ indexed[m] > 0 /\ m \in Markets
      BY <1>1, <1>3, <2>1 DEF ClaimsFinal
    <3> QED
      BY <1>1, <3>1
  <2> QED
    BY <2>1
<1>4. ASSUME todo' \subseteq todo, pc \in Claiming \/ pc' \notin Claiming, pc' # "claim"
      PROVE  ClaimsFinal'
  BY <1>1, <1>3, <1>4 DEF ClaimsFinal, Claiming
<1>5. Abort => pc' \notin Claiming /\ pc' # "claim" /\ todo' \subseteq todo
  BY DEF Abort, Claiming
<1>6. ASSUME NEW place, NEW list, Advance(place, list)
      PROVE  pc' \in {"idle", place} /\ todo' \subseteq todo
  BY <1>6 DEF Advance
<1>7. ClaimRaises => pc' \in {"idle", "fetch"} /\ todo' \subseteq todo
  BY <1>6 DEF ClaimRaises, Abort
<1>8. CASE Starts
  <2>1. CASE StartFinalize \/ StartResolve
    <3>1. pc' \notin Claiming /\ pc' # "claim"
      BY <2>1 DEF StartFinalize, StartResolve, Start, Claiming
    <3> QED
      BY <1>1, <3>1 DEF ClaimsFinal
  <2>2. CASE StartClaim
    <3>1. /\ pc' = "fetch" /\ indexed' = indexed /\ final' = final
          /\ todo' = {m \in final \ claimed : Ours(m, indexed[m])}
      BY <2>2 DEF StartClaim, Start, outside, contracts
    <3>2. ASSUME NEW m \in todo' PROVE m \in final' /\ indexed'[m] > 0
      <4>1. m \in Markets /\ m \in final /\ Ours(m, indexed[m])
        BY <1>1, <3>1, <3>2
      <4>2. indexed[m] > 0
        BY <1>1, <4>1 DEF Ours
      <4> QED
        BY <3>1, <4>1, <4>2
    <3> QED
      BY <1>1, <3>1, <3>2 DEF ClaimsFinal
  <2> QED
    BY <1>8, <2>1, <2>2 DEF Starts
<1>9. CASE Finalizes
  <2>1. todo' \subseteq todo /\ pc' \notin Claiming
    <3>1. CASE EnoughNative
      BY <3>1 DEF EnoughNative, work, Claiming
    <3>2. CASE Unwrap \/ FromSafe
      BY <1>5, <3>2 DEF Unwrap, FromSafe, Then, work, Claiming
    <3>3. CASE OutOfFunds \/ SubmitReverts \/ NoSuchOutcome
      BY <1>5, <3>3 DEF OutOfFunds, SubmitReverts, NoSuchOutcome, Answerable
    <3>4. CASE Skip
      BY <1>6, <3>4 DEF Skip, Answerable, Claiming
    <3>5. ASSUME NEW answer, Submit(answer) PROVE todo' \subseteq todo /\ pc' \notin Claiming
      BY <1>5, <1>6, <3>5 DEF Submit, Answerable, Then, Claiming
    <3> QED
      BY <1>9, <3>1, <3>2, <3>3, <3>4, <3>5 DEF Finalizes, SubmitInvalid, SubmitOutcome
  <2> QED
    BY <1>4, <2>1 DEF Claiming
<1>10. CASE Resolves
  <2>1. CASE Check
    BY <1>4, <2>1 DEF Check, work, Claiming
  <2>2. CASE Prepare
    BY <1>4, <1>5, <2>2 DEF Prepare, Then, work, Claiming
  <2>3. CASE PrepareReverts
    BY <1>4, <1>5, <2>3 DEF PrepareReverts
  <2>4. CASE Report
    BY <1>4, <1>5, <1>6, <2>4 DEF Report, Then, Claiming
  <2>5. CASE ReportSwallowed
    BY <1>4, <1>6, <2>5 DEF ReportSwallowed, Claiming
  <2> QED
    BY <1>10, <2>1, <2>2, <2>3, <2>4, <2>5 DEF Resolves
<1>11. CASE Claims
  <2>1. CASE Fetch
    <3>1. /\ pc = "fetch" /\ pc' = "claim" /\ view' \in Sorted(Current, indexed[Current])
          /\ todo' = todo /\ indexed' = indexed /\ history' = history
      BY <2>1 DEF Fetch, outside, contracts, work
    <3>2. /\ Current \in Markets /\ Current' = Current /\ indexed[Current] \in Nat
          /\ indexed[Current] > 0 /\ indexed[Current] <= Len(history[Current])
      BY <1>1, <1>2, <3>1 DEF ClaimsFinal, Claiming
    <3>3. Len(view') = indexed[Current]
      BY <3>1, <3>2, SortedViews
    <3>4. /\ Len(view') \in Nat /\ Len(view') > 0 /\ Len(view') <= Len(history'[Current'])
          /\ Len(history[Current]) \in Nat
      BY <3>1, <3>2, <3>3, LastIsHighest
    <3>5. view' \in Sorted(Current, Len(view))'
      BY <3>1, <3>2, <3>3 DEF Sorted, SameTime
    <3>6. pc' \in Claiming => \A m \in todo' : m \in final' /\ indexed'[m] > 0
      BY <1>3, <3>1 DEF Claiming
    <3>7. Len(view') \in 1..Len(history'[Current'])
      BY <3>1, <3>2, <3>4
    <3> QED
      BY <1>1, <3>5, <3>6, <3>7 DEF ClaimsFinal
  <2>2. CASE FetchRaises \/ ClaimFails \/ WithdrawFails
    BY <1>4, <1>7, <2>2 DEF FetchRaises, ClaimFails, WithdrawFails, Claiming
  <2>3. CASE Claim
    BY <1>4, <1>7, <2>3 DEF Claim, Claiming, work
  <2>4. CASE Withdraw
    BY <1>4, <1>6, <2>4 DEF Withdraw, Claiming
  <2> QED
    BY <1>11, <2>1, <2>2, <2>3, <2>4 DEF Claims
<1>12. CASE Fails
  BY <1>4, <1>5, <1>12 DEF Fails
<1>13. CASE Passing \/ \E m \in Contested : Others(m)
  <2>1. pc' = pc /\ todo' = todo /\ view' = view
    <3>1. CASE Passing
      BY <3>1 DEF Passing, Age, TimeUp, Index, run, work
    <3>2. CASE \E m \in Contested : Others(m)
      BY <3>2 DEF Others, OtherAnswers, OtherPrepares, OtherReports, OtherClaims, run, work
    <3> QED
      BY <1>13, <3>1, <3>2
  <2>2. pc' \in Claiming => \A m \in todo' : m \in final' /\ indexed'[m] > 0
    BY <1>3, <2>1
  <2>3. CASE pc = "claim"
    <3>1. /\ Current \in final /\ Current' = Current
          /\ Len(view) \in 1..Len(history[Current]) /\ view \in Sorted(Current, Len(view))
      BY <1>2, <2>1, <2>3 DEF ClaimsFinal, Claiming
    <3>2. history'[Current] = history[Current]
      BY <3>1, HistoriesKept
    <3>3. Len(view') \in 1..Len(history'[Current'])
      BY <2>1, <3>1, <3>2
    <3>4. view' \in Sorted(Current, Len(view))'
      BY <2>1, <3>1, <3>2 DEF Sorted, SameTime
    <3> QED
      BY <1>1, <2>2, <3>3, <3>4 DEF ClaimsFinal
  <2>4. CASE pc # "claim"
    BY <1>4, <2>1, <2>4
  <2> QED
    BY <2>3, <2>4
<1> QED
  BY <1>8, <1>9, <1>10, <1>11, <1>12, <1>13 DEF Next, Operator

\* A share is added only by a claim, whose run withdraws all there is.
LEMMA WithdrawnKept ==
  ASSUME TypeOK, Withdrawn, Next
  PROVE  Withdrawn'
<1>1. \A m \in Markets : Share(m) \in {0, 1}
  BY DEF Share
<1>2. balance \in Nat /\ Contested \subseteq Markets
  BY RealitioAssumption DEF TypeOK, OutsideOK
<1>3. ASSUME UNCHANGED <<setting, balance, stranded>>, pc # "withdraw" \/ pc' = pc
      PROVE  Withdrawn'
  BY <1>3 DEF Withdrawn
<1>4. CASE Starts
  BY <1>3, <1>4 DEF Starts, StartFinalize, StartResolve, StartClaim, Start, outside
<1>5. CASE Finalizes
  BY <1>3, <1>5 DEF Finalizes, EnoughNative, Unwrap, FromSafe, OutOfFunds, Skip,
                    SubmitInvalid, SubmitOutcome, Submit, SubmitReverts,
                    NoSuchOutcome, Answerable, outside
<1>6. CASE Resolves
  BY <1>3, <1>6 DEF Resolves, Check, Prepare, PrepareReverts, Report, ReportSwallowed,
                    outside
<1>7. CASE Claims
  <2>1. CASE Fetch \/ FetchRaises \/ ClaimFails
    BY <1>3, <2>1 DEF Fetch, FetchRaises, ClaimFails, outside
  <2>2. CASE Claim \/ WithdrawFails
    BY <2>2, Zenon DEF Claim, WithdrawFails, Withdrawn
  <2>3. CASE Withdraw
    BY <2>3, Zenon DEF Withdraw, Withdrawn
  <2> QED
    BY <1>7, <2>1, <2>2, <2>3 DEF Claims
<1>8. CASE Fails
  BY <1>3, <1>8 DEF Fails, outside
<1>9. CASE Passing
  BY <1>3, <1>9 DEF Passing, Age, TimeUp, Index, run
<1>10. ASSUME NEW m \in Contested, Others(m) PROVE Withdrawn'
  <2>1. CASE OtherClaims(m)
    <3>1. CASE Share(m) = 0
      <4>1. UNCHANGED <<setting, balance, pc>>
        BY <1>2, <2>1, <3>1 DEF OtherClaims, run
      <4>2. stranded => stranded'
        BY <2>1, Zenon DEF OtherClaims
      <4> QED
        BY <4>1, <4>2 DEF Withdrawn
    <3>2. CASE Share(m) = 1
      <4>1. Share(m) > 0
        BY <3>2
      <4> QED
        BY <2>1, <4>1, Zenon DEF OtherClaims, Withdrawn
    <3> QED
      BY <1>1, <1>2, <3>1, <3>2
  <2>2. CASE ~OtherClaims(m)
    BY <1>3, <1>10, <2>2 DEF Others, OtherAnswers, OtherPrepares, OtherReports, run
  <2> QED
    BY <2>1, <2>2
<1> QED
  BY <1>4, <1>5, <1>6, <1>7, <1>8, <1>9, <1>10 DEF Next, Operator
-----------------------------------------------------------------------------
LEMMA Inductive ==
  IInv /\ [Next]_vars => IInv'
<1> SUFFICES ASSUME IInv, [Next]_vars PROVE IInv'
  OBVIOUS
<1>1. CASE Next
  <2>1. OutsideOK'
    BY <1>1, OutsideKept DEF IInv, ClaimsFinal
  <2>2. FundsOK' /\ WorkOK'
    BY <1>1, FundsKept, WorkKept DEF IInv
  <2>3. Bonds' /\ Withdrawn'
    BY <1>1, BondsKept, WithdrawnKept DEF IInv
  <2>4. ClaimsFinal'
    BY <1>1, <2>2, ClaimsFinalKept DEF IInv
  <2> QED
    BY <2>1, <2>2, <2>3, <2>4 DEF IInv, TypeOK
<1>2. CASE UNCHANGED vars
  <2>1. TypeOK'
    BY <1>2 DEF IInv, TypeOK, OutsideOK, FundsOK, WorkOK, Required, Need, vars, contracts,
                wallet, work
  <2>2. Bonds' /\ Withdrawn'
    BY <1>2 DEF IInv, Bonds, BondsRise, OneBondEach, Withdrawn, vars, contracts
  <2>3. ClaimsFinal'
    BY <1>2 DEF IInv, ClaimsFinal, Claiming, Current, Sorted, SameTime, vars, contracts,
                work
  <2> QED
    BY <2>1, <2>2, <2>3 DEF IInv
<1> QED
  BY <1>1, <1>2

LEMMA Invariance ==
  Spec => []IInv
BY Initially, Inductive, PTL DEF Spec

(***************************************************************************)
(* Every variable has its type, and a wallet never pays or unwraps more    *)
(* than it holds (send_keeping_token_to_eoa_xdai, submitAnswer).           *)
(***************************************************************************)
THEOREM TypeCorrect ==
  Spec => []TypeOK
<1>1. IInv => TypeOK
  BY DEF IInv
<1> QED
  BY <1>1, Invariance, PTL

(***************************************************************************)
(* finalize_markets never puts a second bond of the operator on a          *)
(* question: the bond is always realitio_bond, and Realitio wants each to  *)
(* be twice the one before it.                                             *)
(***************************************************************************)
THEOREM OneBondPerQuestion ==
  Spec => []OneBondEach
<1>1. IInv => OneBondEach
  BY DEF IInv, Bonds
<1> QED
  BY <1>1, Invariance, PTL

(***************************************************************************)
(* With auto_withdraw, claim_bonds_on_realitio_questions leaves nothing on *)
(* Realitio when it ends, but for a share whose run failed after the claim *)
(* or that somebody else claimed.                                          *)
(***************************************************************************)
THEOREM SharesWithdrawn ==
  Spec => []NothingLeftBehind
<1>1. IInv => NothingLeftBehind
  BY DEF IInv, Withdrawn, NothingLeftBehind
<1> QED
  BY <1>1, Invariance, PTL

\* Sorting answers none of which are tied puts them in their order, and the
\* arguments made of them are those that claimWinnings verifies.
LEMMA ClaimsVerified ==
  ASSUME IInv, pc = "claim", Len(view) = Len(history[Current]),
         \A i \in DOMAIN history[Current] : ~history[Current][i].tied
  PROVE  Verified(Current, ClaimArguments)
<1> DEFINE n == Len(history[Current])
<1>1. /\ Current \in todo /\ Current \in Markets /\ n \in Nat
      /\ view \in Sorted(Current, n) /\ n > 0
      /\ DOMAIN history[Current] = 1..n
  <2>1. Current \in todo /\ todo \subseteq Markets
    BY CurrentListed DEF IInv, TypeOK, WorkOK
  <2>2. n \in Nat /\ history[Current] \in Seq(Answer)
    BY <2>1, LastIsHighest DEF IInv, TypeOK, OutsideOK
  <2>3. DOMAIN history[Current] = 1..n
    BY <2>2, LenProperties
  <2>4. n \in 1..n /\ view \in Sorted(Current, n)
    BY DEF IInv, ClaimsFinal
  <2> QED
    BY <2>1, <2>2, <2>3, <2>4
<1>2. /\ view \in [1..n -> 1..n] /\ Len(view) = n
      /\ \A i, j \in 1..n : i # j => view[i] # view[j]
      /\ \A i, j \in 1..n : i < j /\ view[j] < view[i] => SameTime(Current, view[j], view[i])
  BY <1>1, SortedViews
<1>3. ASSUME NEW i \in 1..n, NEW j \in 1..n, i < j PROVE ~(view[j] < view[i])
  <2>1. ASSUME view[j] < view[i] PROVE FALSE
    <3>1. SameTime(Current, view[j], view[i])
      BY <1>2, <1>3, <2>1
    <3>2. view[i] \in 1..n /\ view[j] \in 1..n /\ view[i] \in (view[j] + 1)..view[i]
      BY <1>2, <1>3, <2>1
    <3>3. history[Current][view[i]].tied
      BY <3>1, <3>2 DEF SameTime
    <3> QED
      BY <1>1, <3>2, <3>3
  <2> QED
    BY <2>1
<1> HIDE DEF n
<1>4. \A k \in 1..n : view[k] = k
  BY <1>1, <1>2, <1>3, SortedUntied
<1>5. ASSUME NEW i \in 1..n
      PROVE  /\ ClaimArguments[i].response = n - i + 1
             /\ ClaimArguments[i].hash = n - i
  <2>1. ClaimArguments[i] = [response |-> Reverse(view)[i],
                             hash |-> IF i = n THEN 0 ELSE Reverse(view)[i + 1]]
    BY <1>2 DEF ClaimArguments
  <2>2. \A j \in 1..n : Reverse(view)[j] = n - j + 1
    BY <1>1, <1>2, <1>4 DEF Reverse
  <2>3. i # n => i + 1 \in 1..n
    BY <1>1
  <2> QED
    BY <1>1, <2>1, <2>2, <2>3
<1>6. DOMAIN ClaimArguments = 1..n
  BY <1>2 DEF ClaimArguments
<1>7. ASSUME NEW i \in 1..n
      PROVE  /\ ClaimArguments[i].response = ClaimArguments[i].hash + 1
             /\ ClaimArguments[i].response = IF i = 1 THEN n ELSE ClaimArguments[i - 1].hash
  <2>1. i # 1 => i - 1 \in 1..n
    BY <1>1
  <2>2. i # 1 => ClaimArguments[i - 1].hash = n - (i - 1)
    BY <1>5, <2>1
  <2> QED
    BY <1>1, <1>5, <2>2
<1> QED
  BY <1>6, <1>7 DEF Verified, n

(***************************************************************************)
(* The hashes and entries that claim_bonds_on_realitio_question makes of   *)
(* the sorted responses are accepted by claimWinnings, however many        *)
(* answers there are, unless the subgraph lags, two answers share a        *)
(* timestamp or somebody else claimed first.                               *)
(***************************************************************************)
THEOREM ClaimsAreAccepted ==
  Spec => []ClaimsInOrder
<1>1. ASSUME IInv PROVE ClaimsInOrder
  <2>1. SUFFICES ASSUME pc = "claim", ~(Len(view) < Len(history[Current])),
                        \A i \in DOMAIN history[Current] : ~history[Current][i].tied,
                        Current \notin claimed
                 PROVE  ClaimAccepted(Current)
    BY DEF ClaimsInOrder
  <2>2. Current \in todo /\ todo \subseteq Markets
    BY <1>1, <2>1, CurrentListed DEF IInv, TypeOK, WorkOK
  <2>3. Current \in final /\ Len(view) \in 1..Len(history[Current])
    BY <1>1, <2>1, <2>2 DEF IInv, ClaimsFinal, Claiming
  <2>4. Len(history[Current]) \in Nat
    BY <1>1, <2>2, LastIsHighest DEF IInv
  <2>5. Len(view) = Len(history[Current]) /\ Len(view) > 0
    BY <2>1, <2>3, <2>4
  <2>6. Verified(Current, ClaimArguments)
    BY <1>1, <2>1, <2>5, ClaimsVerified
  <2> QED
    BY <2>1, <2>3, <2>5, <2>6 DEF ClaimAccepted
<1> QED
  BY <1>1, Invariance, PTL

=============================================================================
