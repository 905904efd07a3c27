------------------------- MODULE TraderAgent_proofs -------------------------
(***************************************************************************)
(* Proofs about TraderAgent, for any markets, outcomes and names, any      *)
(* agents and predictions, and any number of runs.                         *)
(***************************************************************************)
EXTENDS TraderAgent, FiniteSetTheorems, SequenceTheorems, WellFoundedInduction,
        TLAPS

Working == {"trade", "sell", "after"}

TypeOK ==
    /\ now \in Nat /\ open \subseteq Markets
    /\ favoured \in [Markets -> Outcomes]
    /\ pos \in [Markets -> Amounts] /\ idxPos \in [Markets -> Amounts]
    /\ bal \in Nat
    /\ betAt \in [Markets -> Nat] /\ idxBet \in [Markets -> Nat]
    /\ pc \in Places
    /\ run \in 0..MaxRuns /\ (pc # "idle" => run # 0)
    /\ todo \subseteq Markets
    /\ market \in Markets \cup {None}
    /\ pc \notin {"idle", "next"} => market \in Markets
    /\ existing \in Amounts
    /\ trades \in Seq(Trade) /\ placed \in Seq(Trade) /\ selling \in Sale
    /\ pc = "sell" => NextIs("sell")
    /\ unstored \subseteq [run : 1..MaxRuns, market : Markets, trade : Trade]
    /\ raisedIn \in [1..MaxRuns -> Markets \cup {None}]
    /\ calm \in BOOLEAN /\ sawBets \in BOOLEAN

\* Trades of runs to come do not exist, and only a run's end has it raise.
RunsInOrder ==
    /\ \A t \in unstored : t.run <= run
    /\ \A r \in 1..MaxRuns :
           r > run \/ (r = run /\ pc # "idle") => raisedIn[r] = None

\* What the market being processed has not stored yet is what it will store.
StoresAll ==
    pc \in Working =>
        \A t \in unstored :
            t.run = run /\ t.market = market => t.trade \in Range(placed)

\* A purchase comes before all sales.
BuyFirst == \A i \in 2..Len(trades) : trades[i].type = "sell"

\* Places at which the agent may still come to buy.
Buying ==
    \/ pc \in {"answer", "position", "build"}
    \/ /\ pc \in {"recheck", "trade"}
       /\ trades # <<>> /\ Head(trades).type = "buy"

IntervalKept ==
    sawBets /\ Buying => betAt[market] = 0 \/ now - betAt[market] > Interval

\* The checked balance covers the amount to bet until the trades are built,
\* and then the purchase; a market that closed is not bought in.
FundsKept ==
    calm =>
        /\ pc \in {"verify", "answer", "position", "build"} =>
               /\ idxPos[market] = pos[market]
               /\ market \in open => bal * 100 >= TotalAmountToBet * 101
        /\ /\ pc = "trade" \/ (pc = "recheck" /\ market \in open)
           /\ trades # <<>> /\ Head(trades).type = "buy"
           => Head(trades).amount * 101 <= bal * 100

IInv ==
    /\ TypeOK /\ AllStored /\ RunsInOrder /\ StoresAll /\ BuyFirst
    /\ IntervalKept /\ FundsKept

-----------------------------------------------------------------------------
\* A set of naturals has a least element.
LEMMA LeastNatural ==
  ASSUME NEW T, T \subseteq Nat, T # {}
  PROVE  \E x \in T : \A y \in T : x <= y
<1> DEFINE R == {ss \in Nat \X Nat : ss[1] < ss[2]}
<1>1. IsWellFoundedOn(R, Nat)
  BY NatLessThanWellFounded, Zenon DEF OpToRel
<1>2. \E x \in T : \A y \in T : <<y, x>> \notin R
  BY <1>1, WFMin, Zenon
<1>3. \A x, y \in Nat : y < x => <<y, x>> \in R
  OBVIOUS
<1>4. PICK x \in T : \A y \in T : <<y, x>> \notin R
  BY <1>2
<1>5. \A y \in T : ~(y < x)
  BY <1>3, <1>4, Zenon
<1> QED
  BY <1>5

\* The order in which SumFunction takes elements away, and its recursion.
Pick(s) == CHOOSE x \in s : TRUE
Partial(f, g, s) == IF s = {} THEN 0 ELSE f[Pick(s)] + g[s \ {Pick(s)}]
Sums(f, g) == g = [s \in SUBSET (DOMAIN f) |-> Partial(f, g, s)]

\* What taking one away leaves.
LEMMA Smaller ==
  ASSUME NEW S, IsFiniteSet(S), NEW s \in SUBSET S
  PROVE  /\ Cardinality(s) \in Nat
         /\ Cardinality(s) = 0 => s = {}
         /\ s # {} => /\ Pick(s) \in s
                      /\ s \ {Pick(s)} \in SUBSET S
                      /\ Cardinality(s \ {Pick(s)}) = Cardinality(s) - 1
<1>1. IsFiniteSet(s)
  BY FS_Subset
<1>2. s # {} => Pick(s) \in s
  BY DEF Pick
<1> QED
  BY <1>1, <1>2, FS_CardinalityType, FS_EmptySet, FS_RemoveElement

\* The recursion has a solution: the partial sums up to any size.
LEMMA SumsExist ==
  ASSUME NEW f, IsFiniteSet(DOMAIN f)
  PROVE  \E g : Sums(f, g)
<1> DEFINE S == SUBSET (DOMAIN f)
           Right(g, n) == /\ g = [s \in S |-> g[s]]
                          /\ \A s \in S : Cardinality(s) <= n => g[s] = Partial(f, g, s)
           Wrong == {n \in Nat : \A g : ~Right(g, n)}
<1> HIDE DEF Right
<1>1. 0 \notin Wrong
  <2> DEFINE g == [s \in S |-> 0]
  <2>1. ASSUME NEW s \in S, Cardinality(s) <= 0 PROVE s = {}
    <3>1. Cardinality(s) \in Nat /\ (Cardinality(s) = 0 => s = {})
      BY Smaller
    <3> QED
      BY <2>1, <3>1
  <2>2. \A s \in S : Cardinality(s) <= 0 => g[s] = Partial(f, g, s)
    BY <2>1 DEF Partial
  <2>3. Right(g, 0)
    BY <2>2 DEF Right
  <2> QED
    BY <2>3
<1>2. ASSUME NEW n \in Nat, n \notin Wrong PROVE n + 1 \notin Wrong
  <2>1. PICK g : Right(g, n)
    BY <1>2
  <2> DEFINE h == [s \in S |-> IF Cardinality(s) <= n THEN g[s] ELSE Partial(f, g, s)]
  <2>2. h = [s \in S |-> h[s]]
    OBVIOUS
  <2>3. ASSUME NEW s \in S, Cardinality(s) <= n + 1 PROVE h[s] = Partial(f, h, s)
    <3>1. CASE s = {}
      BY <2>1, <3>1, FS_EmptySet DEF Right, Partial
    <3>2. CASE s # {}
      <4>1. s \ {Pick(s)} \in S /\ Cardinality(s \ {Pick(s)}) <= n
        BY <2>3, <3>2, Smaller
      <4>2. h[s \ {Pick(s)}] = g[s \ {Pick(s)}]
        BY <4>1
      <4>3. Partial(f, h, s) = Partial(f, g, s)
        BY <4>2 DEF Partial
      <4>4. h[s] = Partial(f, g, s)
        BY <2>1, <2>3 DEF Right
      <4> QED
        BY <4>3, <4>4
    <3> QED
      BY <3>1, <3>2
  <2>4. Right(h, n + 1)
    BY <2>2, <2>3 DEF Right
  <2> QED
    BY <2>4
<1>3. Wrong = {}
  <2>1. ASSUME Wrong # {} PROVE FALSE
    <3>1. PICK n \in Wrong : \A m \in Wrong : n <= m
      BY <2>1, LeastNatural
    <3>2. n - 1 \in Nat /\ n - 1 \notin Wrong
      BY <1>1, <3>1
    <3>3. n - 1 + 1 \notin Wrong
      BY <1>2, <3>2
    <3> QED
      BY <3>1, <3>3
  <2> QED
    BY <2>1
<1>4. PICK g : Right(g, Cardinality(DOMAIN f))
  BY <1>3, FS_CardinalityType
<1>5. \A s \in S : Cardinality(s) <= Cardinality(DOMAIN f)
  BY FS_Subset
<1>6. g = [s \in S |-> Partial(f, g, s)]
  BY <1>4, <1>5 DEF Right
<1> QED
  BY <1>6 DEF Sums

\* SumFunction is its value for the whole domain.
LEMMA SumUnfolds ==
  ASSUME NEW f
  PROVE  SumFunction(f) = (CHOOSE g : Sums(f, g))[DOMAIN f]
BY Zenon DEF SumFunction, SumFunctionOnSet, FoldFunctionOnSet, MapThenFoldSet, Sums, Partial, Pick

\* A sum of naturals is one.
LEMMA SumIsNat ==
  ASSUME NEW f, IsFiniteSet(DOMAIN f), \A x \in DOMAIN f : f[x] \in Nat
  PROVE  SumFunction(f) \in Nat
<1>1. PICK g : Sums(f, g) /\ SumFunction(f) = g[DOMAIN f]
  <2>1. Sums(f, CHOOSE g : Sums(f, g))
    BY SumsExist
  <2> QED
    BY <2>1, SumUnfolds
<1> DEFINE S == SUBSET (DOMAIN f)
           Wrong == {n \in Nat : \E s \in S : Cardinality(s) = n /\ g[s] \notin Nat}
<1>2. ASSUME Wrong # {} PROVE FALSE
  <2>1. PICK n \in Wrong : \A m \in Wrong : n <= m
    BY <1>2, LeastNatural
  <2>2. PICK s \in S : Cardinality(s) = n /\ g[s] \notin Nat
    BY <2>1
  <2>3. g[s] = Partial(f, g, s)
    BY <1>1 DEF Sums
  <2>4. s # {}
    BY <2>2, <2>3 DEF Partial
  <2>5. /\ Pick(s) \in DOMAIN f /\ s \ {Pick(s)} \in S
        /\ Cardinality(s \ {Pick(s)}) = n - 1 /\ n - 1 \in Nat
    BY <2>2, <2>4, Smaller
  <2>6. g[s \ {Pick(s)}] \in Nat
    BY <2>1, <2>5
  <2> QED
    BY <2>2, <2>3, <2>4, <2>5, <2>6 DEF Partial
<1>3. Cardinality(DOMAIN f) \in Nat /\ DOMAIN f \in S
  BY FS_CardinalityType
<1> QED
  BY <1>1, <1>2, <1>3

\* SetToSeq lists a finite set.
LEMMA Listed ==
  ASSUME NEW S, IsFiniteSet(S)
  PROVE  SetToSeq(S) \in Seq(S) /\ Len(SetToSeq(S)) = Cardinality(S)
<1>1. Cardinality(S) \in Nat /\ ExistsBijection(1..Cardinality(S), S)
  BY FS_CardinalityType
<1>2. PICK f \in [1..Cardinality(S) -> S] :
          \A i, j \in 1..Cardinality(S) : f[i] = f[j] => i = j
  BY <1>1 DEF ExistsBijection, Bijection, Injection, IsInjective
<1>3. IsInjective(f)
  BY <1>2 DEF IsInjective
<1>4. SetToSeq(S) \in [1..Cardinality(S) -> S]
  BY <1>2, <1>3, Zenon DEF SetToSeq
<1> QED
  BY <1>1, <1>4

-----------------------------------------------------------------------------
\* What an agent makes of the readings it works with.
LEMMA Amount ==
  ASSUME TypeOK, market \in Markets
  PROVE  /\ Held \in Amounts /\ Values \in Amounts
         /\ TotalAmountToBet \in Nat
<1>1. Held \in Amounts
  BY DEF TypeOK, Held, Zero, Amounts
<1>2. Values \in Amounts
  BY <1>1 DEF Values, Worth, Amounts
<1>3. DOMAIN Values = Outcomes /\ \A o \in Outcomes : Values[o] \in Nat
  BY <1>2 DEF Amounts
<1>4. SumFunction(Values) \in Nat
  BY <1>3, SumIsNat, AgentAssumption
<1> QED
  BY <1>1, <1>2, <1>4, AgentAssumption DEF TotalAmountToBet

\* The rebalancing towards an amount of one outcome: at most one purchase, of
\* what is missing of it, and sales after it.
LEMMA Rebalanced ==
  ASSUME existing \in Amounts, NEW amount,
         direction \in Outcomes => amount \in Nat
  PROVE  LET r == Rebalance(Target(amount))
         IN  /\ r \in Seq(Trade)
             /\ \A i \in 2..Len(r) : r[i].type = "sell"
             /\ r # <<>> /\ Head(r).type = "buy" =>
                    /\ direction \in Outcomes
                    /\ Head(r).amount = amount - existing[direction]
                    /\ amount > existing[direction]
<1> DEFINE target == Target(amount)
           buys == {o \in Outcomes : target[o] > existing[o]}
           sells == {o \in Outcomes : target[o] < existing[o]}
           B(o) == [type |-> "buy", outcome |-> o, amount |-> target[o] - existing[o]]
           S(o) == [type |-> "sell", outcome |-> o, amount |-> existing[o] - target[o]]
           Buys == {B(o) : o \in buys}
           Sells == {S(o) : o \in sells}
           r == SetToSeq(Buys) \o SetToSeq(Sells)
<1>1. target \in Amounts /\ \A o \in Outcomes : o # direction => target[o] = 0
  BY DEF Target, Amounts
<1>2. buys \subseteq {direction}
  BY <1>1 DEF Amounts
<1>3. Buys = {} \/ (Buys = {B(direction)} /\ direction \in buys)
  BY <1>2
<1>4. IsFiniteSet(Buys) /\ Cardinality(Buys) \in {0, 1}
  BY <1>3, FS_EmptySet, FS_Singleton
<1>5. IsFiniteSet(Sells)
  <2> DEFINE f == [o \in sells |-> S(o)]
  <2>1. f \in Surjection(sells, Sells)
    BY DEF Surjection
  <2>2. IsFiniteSet(sells)
    BY FS_Subset, AgentAssumption
  <2> QED
    BY <2>1, <2>2, FS_Surjection
<1>6. Buys \subseteq Trade /\ Sells \subseteq Trade
  BY <1>1 DEF Amounts, Trade
<1>7. /\ SetToSeq(Buys) \in Seq(Buys) /\ SetToSeq(Sells) \in Seq(Sells)
      /\ Len(SetToSeq(Buys)) \in {0, 1}
  BY <1>4, <1>5, Listed
<1>8. ASSUME NEW T, NEW s \in Seq(T), NEW i \in 1..Len(s) PROVE s[i] \in T
  BY <1>8, ElementOfSeq
<1>9. SetToSeq(Buys) \in Seq(Trade) /\ SetToSeq(Sells) \in Seq(Trade)
  BY <1>6, <1>7, SeqMonotonic
<1>10. /\ r \in Seq(Trade)
      /\ Len(r) = Len(SetToSeq(Buys)) + Len(SetToSeq(Sells))
      /\ \A i \in 1..Len(r) : r[i] = IF i <= Len(SetToSeq(Buys)) THEN SetToSeq(Buys)[i]
                                      ELSE SetToSeq(Sells)[i - Len(SetToSeq(Buys))]
  BY <1>9, ConcatProperties
<1>11. ASSUME NEW i \in 1..Len(r), i > Len(SetToSeq(Buys)) PROVE r[i].type = "sell"
  <2>1. i - Len(SetToSeq(Buys)) \in 1..Len(SetToSeq(Sells))
    BY <1>7, <1>10, <1>11, LenProperties
  <2>2. r[i] \in Sells
    <3>1. SetToSeq(Sells)[i - Len(SetToSeq(Buys))] \in Sells
      BY <1>7, <1>8, <2>1, Zenon
    <3>2. r[i] = SetToSeq(Sells)[i - Len(SetToSeq(Buys))]
      <4> HIDE DEF Buys, Sells
      <4> QED
        BY <1>7, <1>10, <1>11
    <3> QED
      BY <3>1, <3>2, Zenon
  <2>3. \A t \in Sells : t.type = "sell"
    OBVIOUS
  <2> QED
    BY <2>2, <2>3, Zenon
<1>12. \A i \in 2..Len(r) : r[i].type = "sell"
  BY <1>7, <1>10, <1>11, LenProperties
<1>13. ASSUME r # <<>>, Head(r).type = "buy"
       PROVE  /\ direction \in Outcomes
              /\ Head(r).amount = amount - existing[direction]
              /\ amount > existing[direction]
  <2>1. Head(r) = r[1] /\ 1 \in 1..Len(r)
    BY <1>10, <1>13, EmptySeq
  <2>2. Len(SetToSeq(Buys)) = 1
    BY <1>7, <1>11, <1>13, <2>1
  <2>3. r[1] \in Buys
    <3>1. 1 \in 1..Len(SetToSeq(Buys))
      BY <2>2
    <3>2. SetToSeq(Buys)[1] \in Buys
      BY <1>7, <1>8, <3>1, Zenon
    <3>3. r[1] = SetToSeq(Buys)[1]
      <4> HIDE DEF Buys, Sells
      <4> QED
        BY <1>10, <2>1, <2>2
    <3> QED
      BY <3>2, <3>3, Zenon
  <2>4. direction \in buys /\ r[1] = B(direction)
    BY <1>3, <2>3
  <2>5. target[direction] = amount
    BY <2>4 DEF Target
  <2> QED
    BY <2>1, <2>4, <2>5
<1> QED
  BY <1>10, <1>12, <1>13 DEF Rebalance

-----------------------------------------------------------------------------
\* The start.
LEMMA Initially == Init => IInv
<1> SUFFICES ASSUME Init PROVE IInv
  OBVIOUS
<1>1. /\ pos \in [Markets -> Amounts] /\ betAt \in [Markets -> Nat]
      /\ idxPos = pos /\ idxBet = betAt /\ bal \in Nat
  BY AgentAssumption DEF Init, Amounts
<1>2. existing \in Amounts /\ selling \in Sale
  BY DEF Init, Zero, Amounts, Nothing, Sale
<1>3. trades \in Seq(Trade) /\ placed \in Seq(Trade) /\ Len(trades) = 0
  BY EmptySeq DEF Init
<1>4. raisedIn \in [1..MaxRuns -> Markets \cup {None}]
  BY DEF Init
<1>5. run \in 0..MaxRuns /\ run = 0 /\ pc = "idle"
  BY AgentAssumption DEF Init
<1>6. /\ now \in Nat /\ open \subseteq Markets /\ todo \subseteq Markets
      /\ market = None /\ unstored = {} /\ calm = FALSE /\ sawBets = FALSE
      /\ favoured \in [Markets -> Outcomes]
  BY DEF Init
<1>7. TypeOK
  BY <1>1, <1>2, <1>3, <1>4, <1>5, <1>6 DEF TypeOK, Places
<1> QED
  BY <1>3, <1>7 DEF Init, IInv, AllStored, RunsInOrder, StoresAll, Working,
     BuyFirst, IntervalKept, Buying, FundsKept

\* The first trade, and what is left after it.
LEMMA FirstTrade ==
  ASSUME TypeOK, trades # <<>>
  PROVE  /\ Head(trades) \in Trade /\ Tail(trades) \in Seq(Trade)
         /\ Len(trades) \in Nat \ {0} /\ Len(Tail(trades)) = Len(trades) - 1
         /\ \A i \in 1..Len(Tail(trades)) : Tail(trades)[i] = trades[i + 1]
         /\ Len(trades) = 1 => Tail(trades) = <<>>
<1>1. trades \in Seq(Trade) /\ Len(trades) \in Nat \ {0}
  BY EmptySeq DEF TypeOK
<1>2. /\ Head(trades) \in Trade /\ Tail(trades) \in Seq(Trade)
      /\ Len(Tail(trades)) = Len(trades) - 1
      /\ \A i \in 1..Len(Tail(trades)) : Tail(trades)[i] = trades[i + 1]
  BY <1>1, HeadTailProperties
<1>3. \A q \in Seq(Trade) : q # <<>> => Len(q) \in Nat \ {0}
  BY EmptySeq
<1>4. Tail(trades) # <<>> => Len(Tail(trades)) \in Nat \ {0}
  BY <1>2, <1>3
<1>5. Len(trades) = 1 => Tail(trades) = <<>>
  BY <1>1, <1>2, <1>4
<1> QED
  BY <1>1, <1>2, <1>5

\* The end of a run leaves nothing but the chain and its history.
LEMMA EndTyped ==
  ASSUME TypeOK, EndRun
  PROVE  /\ pc' = "idle" /\ todo' \subseteq Markets /\ market' = None
         /\ existing' \in Amounts /\ selling' \in Sale
         /\ trades' = <<>> /\ placed' = <<>>
         /\ trades' \in Seq(Trade) /\ placed' \in Seq(Trade)
         /\ calm' = FALSE /\ sawBets' = FALSE
  BY EmptySeq DEF EndRun, NoWork, Goto, Zero, Amounts, Nothing, Sale

LEMMA RaiseTyped ==
  ASSUME TypeOK, Raise
  PROVE  raisedIn' \in [1..MaxRuns -> Markets \cup {None}] /\ EndRun
  BY DEF TypeOK, Raise

\* What the chain executes.
LEMMA Executed ==
  ASSUME TypeOK, market \in Markets, NEW o \in Outcomes,
         NEW tokens \in Int, NEW cost \in Int, Execute(o, tokens, cost)
  PROVE  /\ pos' \in [Markets -> Amounts] /\ bal' \in Nat
         /\ \A m \in Markets, p \in Outcomes :
                pos'[m][p] = IF m = market /\ p = o THEN pos[m][p] + tokens
                                                   ELSE pos[m][p]
<1>1. pos \in [Markets -> Amounts] /\ bal \in Nat
  BY DEF TypeOK
<1> QED
  BY <1>1 DEF Execute, Amounts

\* A trade whose call returned.
LEMMA ReturnTyped ==
  ASSUME TypeOK, TradeReturns, NextIs("buy") \/ NextIs("sell"),
         UNCHANGED run
  PROVE  /\ trades' \in Seq(Trade) /\ placed' \in Seq(Trade)
         /\ selling' \in Sale
         /\ pc' \in {"after", "trade"}
         /\ unstored' \subseteq [run : 1..MaxRuns, market : Markets, trade : Trade]
         /\ UNCHANGED <<todo, market, existing, raisedIn, calm, sawBets>>
<1>1. /\ trades # <<>> /\ run \in 1..MaxRuns /\ market \in Markets
      /\ Head(trades) \in Trade /\ Tail(trades) \in Seq(Trade)
  BY FirstTrade DEF TypeOK, NextIs
<1>2. placed' \in Seq(Trade)
  BY <1>1, AppendProperties DEF TypeOK, TradeReturns
<1> QED
  BY <1>1, <1>2 DEF TypeOK, TradeReturns, Goto, HereAndNow, Nothing, Sale

-----------------------------------------------------------------------------
\* Types.
LEMMA TypeKept == TypeOK /\ [Next]_vars => TypeOK'
<1> SUFFICES ASSUME TypeOK, [Next]_vars PROVE TypeOK'
  OBVIOUS
<1> USE AgentAssumption
      DEF TypeOK, Places, Goto, world, chain, index, work, history
<1>1. CASE StartRun
  <2>1. Fetched \subseteq Markets
    BY DEF Fetched
  <2>2. run' \in 0..MaxRuns /\ run' # 0
    BY <1>1 DEF StartRun
  <2> QED
    BY <1>1, <2>1, <2>2 DEF StartRun
<1>2. CASE NextMarket
  <2>1. existing' \in Amounts /\ selling' \in Sale
    BY <1>2 DEF NextMarket, NoWork, Zero, Amounts, Nothing, Sale
  <2>2. trades' \in Seq(Trade) /\ placed' \in Seq(Trade)
    BY <1>2, EmptySeq DEF NextMarket, NoWork
  <2> QED
    BY <1>2, <2>1, <2>2 DEF NextMarket
<1>3. CASE FinishRun
  BY <1>3, EndTyped DEF FinishRun
<1>4. CASE CallFails \/ OutOfFunds \/ AnswerRejected
  BY <1>4, EndTyped, RaiseTyped DEF CallFails, OutOfFunds, AnswerRejected
<1>5. CASE CheckBalance \/ Verify
  BY <1>5 DEF CheckBalance, Verify
<1>6. CASE Answer
  BY <1>6 DEF Answer
<1>7. CASE ReadPosition
  BY <1>7, Amount DEF ReadPosition
<1>8. CASE BuildTrades
  <2>1. PICK amount :
            /\ trades' = Rebalance(Target(amount))
            /\ amount = existing[direction] \/ amount = TotalAmountToBet
    BY <1>8 DEF BuildTrades
  <2>2. direction \in Outcomes => amount \in Nat
    <3>1. market \in Markets
      BY <1>8 DEF BuildTrades
    <3>2. TotalAmountToBet \in Nat
      BY <3>1, Amount
    <3>3. direction \in Outcomes => existing[direction] \in Nat
      BY DEF Amounts
    <3> QED
      BY <2>1, <3>2, <3>3
  <2>3. trades' \in Seq(Trade)
    BY <2>1, <2>2, Rebalanced
  <2>4. existing' \in Amounts
    BY <1>8 DEF BuildTrades, Zero, Amounts
  <2> QED
    BY <1>8, <2>3, <2>4 DEF BuildTrades
<1>9. CASE Recheck
  <2>1. trades' \in Seq(Trade)
    <3>1. trades' = trades \/ trades' = <<>>
      BY <1>9 DEF Recheck
    <3>2. <<>> \in Seq(Trade) /\ trades \in Seq(Trade)
      BY EmptySeq
    <3> QED
      BY <3>1, <3>2, Zenon
  <2>2. pc' \in {"trade", "after"} /\ pc = "recheck"
    BY <1>9 DEF Recheck
  <2> QED
    BY <1>9, <2>1, <2>2 DEF Recheck
<1>10. CASE Buy
  <2>1. Head(trades) \in Trade /\ market \in Markets
    BY <1>10, FirstTrade DEF Buy, NextIs
  <2>2. PICK taken \in 0..MaxTaken :
            /\ Execute(Head(trades).outcome,
                       taken * (Head(trades).amount \div Worth(Head(trades).outcome)),
                       taken * Head(trades).amount)
            /\ betAt' = IF taken > 0 THEN [betAt EXCEPT ![market] = now] ELSE betAt
            /\ TradeReturns \/ TradeRaises
    BY <1>10 DEF Buy
  <2>3. Head(trades).outcome \in Outcomes /\ Head(trades).amount \in Nat
    BY <2>1 DEF Trade
  <2>4. pos' \in [Markets -> Amounts] /\ bal' \in Nat
    <3> DEFINE t == Head(trades)
    <3>1. t.amount \div Worth(t.outcome) \in Nat
      BY <2>3 DEF Worth
    <3>2. \A n \in Nat : taken * n \in Int
      OBVIOUS
    <3>3. taken * (t.amount \div Worth(t.outcome)) \in Int /\ taken * t.amount \in Int
      BY <2>3, <3>1, <3>2
    <3> QED
      BY <2>1, <2>2, <2>3, <3>3, Executed
  <2>5. betAt' \in [Markets -> Nat]
    BY <2>2
  <2>6. CASE TradeReturns
    BY <1>10, <2>4, <2>5, <2>6, ReturnTyped DEF Buy, NextIs
  <2>7. CASE TradeRaises
    BY <1>10, <2>4, <2>5, <2>7, RaiseTyped, EndTyped DEF Buy, TradeRaises
  <2> QED
    BY <2>2, <2>6, <2>7
<1>11. CASE ReadForSale
  <2>1. Head(trades) \in Trade /\ market \in Markets
    BY <1>11, FirstTrade DEF ReadForSale, NextIs
  <2>2. selling' \in Sale
    BY <1>11, <2>1, Amount DEF ReadForSale, Sale, Trade, Amounts
  <2> QED
    BY <1>11, <2>2 DEF ReadForSale, NextIs
<1>12. CASE Sell
  <2>1. Head(trades) \in Trade /\ market \in Markets /\ NextIs("sell")
    BY <1>12, FirstTrade DEF Sell, NextIs
  <2>2. PICK taken \in 0..MaxTaken :
            /\ Execute(Head(trades).outcome,
                       -(taken * TokensToSell(Head(trades).outcome)),
                       -(taken * TokensToSell(Head(trades).outcome)
                         * Worth(Head(trades).outcome)))
            /\ TradeReturns \/ TradeRaises
    BY <1>12 DEF Sell
  <2>3. Head(trades).outcome \in Outcomes
    BY <2>1 DEF Trade
  <2>4. TokensToSell(Head(trades).outcome) \in Nat
    BY DEF TokensToSell, Worth, Sale
  <2>5. pos' \in [Markets -> Amounts] /\ bal' \in Nat
    <3> DEFINE o == Head(trades).outcome
               tokens == taken * TokensToSell(o)
    <3>1. \A n \in Nat : taken * n \in Int
      OBVIOUS
    <3>2. tokens \in Int /\ Worth(o) \in Int
      BY <2>4, <3>1 DEF Worth
    <3> HIDE DEF tokens
    <3>3. -tokens \in Int /\ -(tokens * Worth(o)) \in Int
      BY <3>2
    <3>4. Execute(o, -tokens, -(tokens * Worth(o)))
      BY <2>2 DEF tokens
    <3> QED
      BY <2>1, <2>3, <3>3, <3>4, Executed
  <2>6. CASE TradeReturns
    BY <1>12, <2>1, <2>5, <2>6, ReturnTyped DEF Sell, NextIs
  <2>7. CASE TradeRaises
    BY <1>12, <2>5, <2>7, RaiseTyped, EndTyped DEF Sell, TradeRaises
  <2> QED
    BY <2>2, <2>6, <2>7
<1>13. CASE NoTrades \/ Store
  BY <1>13 DEF NoTrades, Store
<1>14. CASE Tick \/ IndexPositions \/ IndexBets
  <2>1. CASE Tick
    <3>1. now' \in Nat /\ UNCHANGED <<world, chain, index, pc, run, todo, processed,
                                      market, work, history>>
      BY <2>1 DEF Tick
    <3> QED
      BY <3>1 DEF NextIs
  <2>2. CASE IndexPositions
    BY <2>2 DEF IndexPositions, NextIs
  <2>3. CASE IndexBets
    BY <2>3 DEF IndexBets, NextIs
  <2> QED
    BY <1>14, <2>1, <2>2, <2>3
<1>15. ASSUME NEW m \in Markets, Close(m) \/ Drift(m) PROVE TypeOK'
  <2>1. CASE Close(m)
    BY <2>1 DEF Close, NextIs
  <2>2. CASE Drift(m)
    <3>1. favoured' \in [Markets -> Outcomes] /\ calm' \in BOOLEAN
      BY <2>2 DEF Drift
    <3> QED
      BY <2>2, <3>1 DEF Drift, NextIs
  <2> QED
    BY <1>15, <2>1, <2>2
<1>16. CASE UNCHANGED vars
  BY <1>16 DEF vars, NextIs
<1> QED
  BY <1>1, <1>2, <1>3, <1>4, <1>5, <1>6, <1>7, <1>8, <1>9, <1>10, <1>11,
     <1>12, <1>13, <1>14, <1>15, <1>16 DEF Next, Agent, Environment

-----------------------------------------------------------------------------
\* Storing.
Stores == AllStored /\ RunsInOrder /\ StoresAll

\* While a run goes on, what it has not stored is of the market at hand.
LEMMA UnstoredHere ==
  ASSUME TypeOK, Stores, pc # "idle"
  PROVE  /\ run \in 1..MaxRuns
         /\ \A t \in unstored :
                /\ t.run = run => t.market = market /\ pc \in Working
                /\ t.run # run => raisedIn[t.run] = t.market
<1>1. run \in 1..MaxRuns /\ raisedIn[run] = None
  BY AgentAssumption DEF TypeOK, Stores, RunsInOrder
<1>2. \A t \in unstored : t.market \in Markets /\ t.market # None
  BY AgentAssumption DEF TypeOK
<1> QED
  BY <1>1, <1>2 DEF Stores, AllStored, Working

\* A run that fails has it recorded.
LEMMA RaiseStores ==
  ASSUME TypeOK, Stores, pc # "idle", Raise, UNCHANGED <<run, unstored>>
  PROVE  Stores'
<1>1. pc' = "idle"
  BY DEF Raise, EndRun, Goto
<1>2. \A t \in unstored : raisedIn'[t.run] = t.market
  BY UnstoredHere DEF TypeOK, Raise
<1>3. \A r \in 1..MaxRuns : r > run => raisedIn'[r] = None
  BY DEF TypeOK, Stores, RunsInOrder, Raise
<1> QED
  BY <1>1, <1>2, <1>3 DEF Stores, AllStored, RunsInOrder, StoresAll, Working

LEMMA AppendRange ==
  ASSUME NEW T, NEW s \in Seq(T), NEW e \in T
  PROVE  Range(Append(s, e)) = Range(s) \cup {e}
<1>1. /\ DOMAIN s = 1..Len(s) /\ Len(s) \in Nat
      /\ DOMAIN Append(s, e) = 1..(Len(s) + 1)
      /\ \A i \in 1..Len(s) : Append(s, e)[i] = s[i]
      /\ Append(s, e)[Len(s) + 1] = e
  BY LenProperties, AppendProperties
<1> QED
  BY <1>1 DEF Range

\* A trade that returned is placed.
LEMMA ReturnStores ==
  ASSUME TypeOK, Stores, TradeReturns, NextIs("buy") \/ NextIs("sell"),
         UNCHANGED run
  PROVE  Stores'
<1>1. /\ pc \in {"trade", "sell"} /\ run \in 1..MaxRuns
      /\ Head(trades) \in Trade
  BY FirstTrade DEF NextIs, TypeOK
<1>2. Range(placed') = Range(placed) \cup {Head(trades)}
  BY <1>1, AppendRange DEF TradeReturns, TypeOK
<1>3. /\ pc' \in {"after", "trade"} /\ UNCHANGED <<market, raisedIn>>
      /\ unstored' = unstored \cup {HereAndNow(Head(trades))}
  BY DEF TradeReturns, Goto
<1>4. AllStored' /\ RunsInOrder'
  BY <1>1, <1>3 DEF HereAndNow, Stores, AllStored, RunsInOrder, TypeOK
<1>5. StoresAll'
  BY <1>1, <1>2, <1>3 DEF HereAndNow, Stores, StoresAll, Working
<1> QED
  BY <1>4, <1>5 DEF Stores

LEMMA StoresKept ==
  ASSUME TypeOK, Stores, [Next]_vars
  PROVE  Stores'
<1> USE DEF Goto, world, chain, index, work, history
<1>1. CASE StartRun
  <2>1. \A t \in unstored : t.run <= run /\ raisedIn[t.run] = t.market
    BY <1>1 DEF StartRun, Stores, AllStored, RunsInOrder
  <2> QED
    BY <1>1, <2>1 DEF StartRun, TypeOK, Stores, AllStored, RunsInOrder,
       StoresAll, Working
<1>2. CASE NextMarket \/ FinishRun
  <2>1. pc = "next" /\ UNCHANGED <<run, unstored, raisedIn>> /\ pc' \in {"check", "idle"}
    BY <1>2 DEF NextMarket, FinishRun, EndRun
  <2>2. \A t \in unstored : raisedIn[t.run] = t.market
    BY <2>1, UnstoredHere DEF Working
  <2> QED
    BY <2>1, <2>2 DEF Stores, AllStored, RunsInOrder, StoresAll, Working
<1>3. CASE CallFails \/ OutOfFunds \/ AnswerRejected
  BY <1>3, RaiseStores DEF CallFails, OutOfFunds, AnswerRejected
<1>4. CASE \/ CheckBalance \/ Verify \/ Answer \/ ReadPosition \/ BuildTrades
           \/ Recheck
  <2>1. /\ pc \notin Working \cup {"idle"} /\ pc' # "idle"
        /\ UNCHANGED <<run, market, unstored, raisedIn>>
    BY <1>4 DEF CheckBalance, Verify, Answer, ReadPosition, BuildTrades,
       Recheck, Working
  <2>2. \A t \in unstored : t.run # run /\ raisedIn[t.run] = t.market
    BY <2>1, UnstoredHere
  <2> QED
    BY <2>1, <2>2 DEF Stores, AllStored, RunsInOrder, StoresAll
<1>5. CASE Buy
  BY <1>5, RaiseStores, ReturnStores DEF Buy, TradeRaises
<1>6. CASE Sell
  <2>1. pc # "idle" /\ NextIs("sell") /\ UNCHANGED run
    BY <1>6 DEF Sell, TypeOK
  <2>2. TradeReturns \/ TradeRaises
    BY <1>6 DEF Sell
  <2> QED
    BY <2>1, <2>2, RaiseStores, ReturnStores DEF TradeRaises
<1>7. CASE ReadForSale \/ NoTrades
  BY <1>7 DEF ReadForSale, NoTrades, Stores, AllStored, RunsInOrder, StoresAll,
     Working
<1>8. CASE Store
  <2>1. /\ pc = "after" /\ pc' = "next" /\ UNCHANGED <<run, market, raisedIn>>
        /\ unstored' = unstored \ PlacedHere
    BY <1>8 DEF Store
  <2>2. ASSUME NEW t \in unstored' PROVE t.run # run
    <3>1. t.run = run => t.trade \in Range(placed) /\ t.market = market
      BY <2>1, UnstoredHere DEF Stores, StoresAll, Working
    <3>2. t.run = run => t = HereAndNow(t.trade)
      BY <2>1, <3>1 DEF TypeOK, HereAndNow
    <3> QED
      BY <2>1, <3>1, <3>2 DEF PlacedHere
  <2>3. \A t \in unstored' : raisedIn[t.run] = t.market
    BY <2>1, <2>2, UnstoredHere
  <2> QED
    BY <2>1, <2>3 DEF Stores, AllStored, RunsInOrder, StoresAll, Working
<1>9. ASSUME \/ Environment
             \/ UNCHANGED vars
      PROVE  UNCHANGED <<pc, run, market, placed, unstored, raisedIn>>
  BY <1>9 DEF Environment, Tick, IndexPositions, IndexBets, Close, Drift, vars
<1>10. CASE Environment \/ UNCHANGED vars
  BY <1>9, <1>10 DEF Stores, AllStored, RunsInOrder, StoresAll, Working
<1> QED
  BY <1>1, <1>2, <1>3, <1>4, <1>5, <1>6, <1>7, <1>8, <1>10 DEF Next, Agent

-----------------------------------------------------------------------------
\* What the strategy builds.
LEMMA Built ==
  ASSUME TypeOK, BuildTrades
  PROVE  /\ \A i \in 2..Len(trades') : trades'[i].type = "sell"
         /\ trades' # <<>> /\ Head(trades').type = "buy" =>
                Head(trades').amount \in Nat /\ Head(trades').amount <= TotalAmountToBet
<1>1. PICK amount :
          /\ trades' = Rebalance(Target(amount))
          /\ amount = existing[direction] \/ amount = TotalAmountToBet
  BY DEF BuildTrades
<1>2. TotalAmountToBet \in Nat /\ existing \in Amounts
  BY Amount DEF BuildTrades, TypeOK
<1>3. direction \in Outcomes => existing[direction] \in Nat /\ amount \in Nat
  BY <1>1, <1>2 DEF Amounts
<1>4. /\ \A i \in 2..Len(trades') : trades'[i].type = "sell"
      /\ trades' # <<>> /\ Head(trades').type = "buy" =>
             /\ direction \in Outcomes
             /\ Head(trades').amount = amount - existing[direction]
             /\ amount > existing[direction]
  BY <1>1, <1>2, <1>3, Rebalanced
<1> QED
  BY <1>1, <1>2, <1>3, <1>4

\* Once a trade has returned, the next one is a sale.
LEMMA SalesNext ==
  ASSUME TypeOK, BuyFirst, TradeReturns, trades # <<>>
  PROVE  /\ \A i \in 1..Len(trades') : trades'[i].type = "sell"
         /\ trades' # <<>> => Head(trades').type = "sell"
<1>1. /\ trades' = Tail(trades) /\ trades' \in Seq(Trade)
      /\ Len(trades) \in Nat \ {0} /\ Len(trades') = Len(trades) - 1
      /\ \A i \in 1..Len(trades') : trades'[i] = trades[i + 1]
  BY FirstTrade DEF TradeReturns
<1>2. \A i \in 1..Len(trades') : trades'[i].type = "sell"
  BY <1>1 DEF BuyFirst
<1>3. trades' # <<>> => Head(trades') = trades'[1] /\ 1 \in 1..Len(trades')
  BY <1>1, EmptySeq
<1> QED
  BY <1>2, <1>3

\* Sales stay behind the purchase.
LEMMA BuyFirstKept ==
  ASSUME TypeOK, BuyFirst, [Next]_vars
  PROVE  BuyFirst'
<1> USE DEF Goto, world, chain, index, work, history
<1>1. Len(<<>>) = 0
  OBVIOUS
<1>2. CASE NextMarket \/ FinishRun \/ CallFails \/ OutOfFunds \/ AnswerRejected
  <2>1. trades' = <<>>
    BY <1>2 DEF NextMarket, FinishRun, CallFails, OutOfFunds, AnswerRejected,
       Raise, EndRun, NoWork
  <2> QED
    BY <1>1, <2>1 DEF BuyFirst
<1>3. CASE BuildTrades
  BY <1>3, Built DEF BuyFirst
<1>4. CASE Recheck
  BY <1>1, <1>4 DEF Recheck, BuyFirst
<1>5. CASE Buy \/ Sell
  <2>1. trades # <<>> /\ (TradeReturns \/ TradeRaises)
    BY <1>5 DEF Buy, Sell, NextIs, TypeOK
  <2>2. TradeRaises => trades' = <<>>
    BY DEF TradeRaises, Raise, EndRun, NoWork
  <2>3. CASE TradeReturns
    BY <2>1, <2>3, SalesNext DEF BuyFirst, TypeOK
  <2> QED
    BY <1>1, <2>1, <2>2, <2>3 DEF BuyFirst
<1>6. CASE \/ StartRun \/ CheckBalance \/ Verify \/ Answer \/ ReadPosition
           \/ ReadForSale \/ NoTrades \/ Store \/ Environment \/ UNCHANGED vars
  <2>1. UNCHANGED trades
    BY <1>6 DEF StartRun, CheckBalance, Verify, Answer, ReadPosition,
       ReadForSale, NoTrades, Store, Environment, Tick, IndexPositions,
       IndexBets, Close, Drift, vars
  <2> QED
    BY <2>1 DEF BuyFirst
<1> QED
  BY <1>2, <1>3, <1>4, <1>5, <1>6 DEF Next, Agent

\* A purchase is placed only when the last bet seen is old enough.
LEMMA IntervalStays ==
  ASSUME TypeOK, BuyFirst, IntervalKept, [Next]_vars
  PROVE  IntervalKept'
<1> USE AgentAssumption DEF Goto, world, chain, index, work, history
<1>1. CASE NextMarket \/ FinishRun \/ CallFails \/ OutOfFunds \/ AnswerRejected
  BY <1>1 DEF NextMarket, FinishRun, CallFails, OutOfFunds, AnswerRejected,
     Raise, EndRun, IntervalKept
<1>2. CASE StartRun \/ CheckBalance \/ ReadForSale \/ NoTrades \/ Store
  <2>1. ~Buying'
    BY <1>2 DEF StartRun, CheckBalance, ReadForSale, NoTrades, Store, Buying
  <2> QED
    BY <2>1 DEF IntervalKept
<1>3. CASE Verify
  <2>1. /\ market \in Markets /\ pc' \in {"answer", "next"}
        /\ UNCHANGED <<now, market, betAt>>
        /\ sawBets' = (idxBet[market] = betAt[market])
        /\ pc' = "answer" => ~HaveBetSince
    BY <1>3 DEF Verify, TypeOK
  <2>2. now \in Nat /\ betAt[market] \in Nat /\ Interval \in Nat
    BY <2>1 DEF TypeOK
  <2>3. idxBet[market] = betAt[market] /\ ~HaveBetSince =>
            betAt[market] = 0 \/ now - betAt[market] > Interval
    BY <2>2 DEF HaveBetSince
  <2>4. Buying' => pc' = "answer"
    BY <2>1 DEF Buying
  <2>5. UNCHANGED <<now, market, betAt>>
    BY <2>1
  <2> QED
    BY <2>1, <2>3, <2>4, <2>5, Zenon DEF IntervalKept
<1>4. CASE Answer \/ ReadPosition \/ BuildTrades \/ Recheck
  <2>1. UNCHANGED <<now, market, betAt, sawBets>> /\ (Buying' => Buying)
    BY <1>4 DEF Answer, ReadPosition, BuildTrades, Recheck, Buying
  <2> QED
    BY <2>1 DEF IntervalKept
<1>5. CASE Buy \/ Sell
  <2>1. trades # <<>> /\ (TradeReturns \/ TradeRaises)
    BY <1>5 DEF Buy, Sell, NextIs, TypeOK
  <2>2. CASE TradeRaises
    BY <2>2 DEF TradeRaises, Raise, EndRun, IntervalKept
  <2>3. CASE TradeReturns
    <3>1. trades' # <<>> => Head(trades').type = "sell"
      BY <2>1, <2>3, SalesNext
    <3>2. pc' \in {"after", "trade"}
      BY <2>3 DEF TradeReturns
    <3> QED
      BY <3>1, <3>2 DEF IntervalKept, Buying
  <2> QED
    BY <2>1, <2>2, <2>3
<1>6. CASE Tick
  <2>1. /\ now' = now + 1 /\ UNCHANGED <<pc, market, betAt, sawBets, trades>>
    BY <1>6 DEF Tick
  <2>2. Buying' = Buying /\ (Buying => market \in Markets)
    BY <2>1 DEF Buying, TypeOK
  <2>3. market \in Markets => betAt[market] \in Nat
    BY DEF TypeOK
  <2> QED
    BY <2>1, <2>2, <2>3 DEF IntervalKept, TypeOK
<1>7. CASE \/ IndexPositions \/ IndexBets \/ UNCHANGED vars
           \/ \E m \in Markets : Close(m) \/ Drift(m)
  <2>1. UNCHANGED <<now, pc, market, betAt, sawBets, trades>>
    BY <1>7 DEF IndexPositions, IndexBets, Close, Drift, vars
  <2> QED
    BY <2>1 DEF IntervalKept, Buying
<1> QED
  BY <1>1, <1>2, <1>3, <1>4, <1>5, <1>6, <1>7 DEF Next, Agent, Environment

-----------------------------------------------------------------------------
\* The amount to bet depends on the position read and on its prices.
LEMMA SameAmount ==
  ASSUME UNCHANGED market, market' \in open' <=> market \in open,
         idxPos'[market] = idxPos[market], favoured'[market] = favoured[market]
  PROVE  TotalAmountToBet' = TotalAmountToBet
<1>1. Held' = Held /\ \A o \in Outcomes : Worth(o)' = Worth(o)
  BY DEF Held, Worth
<1>2. Values' = Values
  BY <1>1 DEF Values
<1> QED
  BY <1>2 DEF TotalAmountToBet

\* The balance that was checked lasts until the purchase.
LEMMA FundsStay ==
  ASSUME TypeOK, BuyFirst, FundsKept, [Next]_vars
  PROVE  FundsKept'
<1> USE AgentAssumption DEF Goto, world, chain, index, work, history
<1>1. CASE NextMarket \/ FinishRun \/ CallFails \/ OutOfFunds \/ AnswerRejected
  BY <1>1 DEF NextMarket, FinishRun, CallFails, OutOfFunds, AnswerRejected,
     Raise, EndRun, FundsKept
<1>2. CASE StartRun \/ ReadForSale \/ NoTrades \/ Store
  <2>1. pc' \in {"next", "sell", "after"}
    BY <1>2 DEF StartRun, ReadForSale, NoTrades, Store
  <2> QED
    BY <2>1 DEF FundsKept
<1>3. CASE CheckBalance
  <2>1. /\ pc' = "verify" /\ UNCHANGED <<market, open, idxPos, pos, favoured, bal>>
        /\ calm' = (idxPos[market] = pos[market])
        /\ bal * 100 >= TotalAmountToBet * 101
    BY <1>3 DEF CheckBalance
  <2>2. TotalAmountToBet' = TotalAmountToBet
    BY <2>1, SameAmount
  <2> QED
    BY <2>1, <2>2 DEF FundsKept
<1>4. CASE Verify \/ Answer \/ ReadPosition
  <2>1. /\ pc \in {"verify", "answer", "position"}
        /\ pc' \in {"answer", "position", "build", "next"}
        /\ UNCHANGED <<market, open, idxPos, pos, favoured, bal, calm>>
    BY <1>4 DEF Verify, Answer, ReadPosition
  <2>2. TotalAmountToBet' = TotalAmountToBet
    BY <2>1, SameAmount
  <2> QED
    BY <2>1, <2>2 DEF FundsKept
<1>5. CASE BuildTrades
  <2>1. /\ pc = "build" /\ pc' = "recheck"
        /\ UNCHANGED <<market, open, bal, calm>>
    BY <1>5 DEF BuildTrades
  <2>2. calm /\ market \in open => bal * 100 >= TotalAmountToBet * 101
    BY <2>1 DEF FundsKept
  <2>3. trades' # <<>> /\ Head(trades').type = "buy" =>
            Head(trades').amount \in Nat /\ Head(trades').amount <= TotalAmountToBet
    BY <1>5, Built
  <2>4. TotalAmountToBet \in Nat /\ bal \in Nat
    BY <2>1, Amount DEF TypeOK
  <2>5. \A a, t, b \in Nat : a <= t /\ b * 100 >= t * 101 => a * 101 <= b * 100
    OBVIOUS
  <2>6. calm /\ market \in open /\ trades' # <<>> /\ Head(trades').type = "buy" =>
            Head(trades').amount * 101 <= bal * 100
    BY <2>2, <2>3, <2>4, <2>5
  <2> QED
    BY <2>1, <2>6 DEF FundsKept
<1>6. CASE Recheck
  <2>1. /\ pc = "recheck" /\ UNCHANGED <<market, open, bal, calm>>
        /\ \/ market \in open /\ UNCHANGED trades /\ pc' = "trade"
           \/ pc' = "after"
    BY <1>6 DEF Recheck
  <2> QED
    BY <2>1 DEF FundsKept
<1>7. CASE Buy \/ Sell
  <2>1. trades # <<>> /\ (TradeReturns \/ TradeRaises)
    BY <1>7 DEF Buy, Sell, NextIs, TypeOK
  <2>2. CASE TradeRaises
    BY <2>2 DEF TradeRaises, Raise, EndRun, FundsKept
  <2>3. CASE TradeReturns
    <3>1. trades' # <<>> => Head(trades').type = "sell"
      BY <2>1, <2>3, SalesNext
    <3>2. pc' \in {"after", "trade"}
      BY <2>3 DEF TradeReturns
    <3> QED
      BY <3>1, <3>2 DEF FundsKept
  <2> QED
    BY <2>1, <2>2, <2>3
<1>8. ASSUME UNCHANGED <<pc, market, pos, bal, trades>>,
             calm' => calm,
             market' \in open' => market \in open,
             calm' /\ pc \in {"verify", "answer", "position", "build"}
             => /\ idxPos[market] = pos[market] => idxPos'[market] = pos[market]
                /\ favoured'[market] = favoured[market]
      PROVE  FundsKept'
  <2>1. calm' /\ pc \in {"verify", "answer", "position", "build"} =>
            /\ idxPos'[market] = pos[market] /\ idxPos'[market] = idxPos[market]
            /\ favoured'[market] = favoured[market]
    BY <1>8 DEF FundsKept
  <2>2. calm' /\ pc \in {"verify", "answer", "position", "build"} /\ market \in open' =>
            bal * 100 >= TotalAmountToBet' * 101
    <3>1. SUFFICES ASSUME calm', pc \in {"verify", "answer", "position", "build"},
                          market \in open'
                   PROVE  bal * 100 >= TotalAmountToBet' * 101
      OBVIOUS
    <3>2. market \in open /\ bal * 100 >= TotalAmountToBet * 101
      BY <1>8, <3>1 DEF FundsKept
    <3>3. TotalAmountToBet' = TotalAmountToBet
      BY <1>8, <2>1, <3>1, <3>2, SameAmount
    <3> QED
      BY <3>2, <3>3
  <2> QED
    BY <1>8, <2>1, <2>2 DEF FundsKept
<1>9. CASE Tick \/ IndexBets \/ UNCHANGED vars
  BY <1>8, <1>9 DEF Tick, IndexBets, vars
<1>10. CASE IndexPositions
  BY <1>8, <1>10 DEF IndexPositions
<1>11. ASSUME NEW m \in Markets, Close(m) PROVE FundsKept'
  BY <1>8, <1>11 DEF Close
<1>12. ASSUME NEW m \in Markets, Drift(m) PROVE FundsKept'
  <2>1. /\ UNCHANGED <<pc, market, pos, idxPos, bal, trades, open>>
        /\ calm' = (calm /\ m # market)
    BY <1>12 DEF Drift
  <2>2. m # market => favoured'[market] = favoured[market]
    BY <1>12 DEF Drift, TypeOK
  <2> QED
    BY <1>8, <2>1, <2>2
<1> QED
  BY <1>1, <1>2, <1>3, <1>4, <1>5, <1>6, <1>7, <1>9, <1>10, <1>11, <1>12
     DEF Next, Agent, Environment

-----------------------------------------------------------------------------
\* Every step keeps the invariant.
LEMMA Inductive == IInv /\ [Next]_vars => IInv'
  BY TypeKept, StoresKept, BuyFirstKept, IntervalStays, FundsStay, Zenon
     DEF IInv, Stores

LEMMA Invariance == Spec => []IInv
  BY Initially, Inductive, PTL DEF Spec

(***************************************************************************)
(* The agent's state is well typed; in particular a balance and a holding  *)
(* are never negative, and a position is sold only after its sale.         *)
(***************************************************************************)
THEOREM TypeCorrect == Spec => []TypeOK
<1>1. IInv => TypeOK
  BY DEF IInv
<1> QED
  BY <1>1, Invariance, PTL

(***************************************************************************)
(* Whatever fails and however runs follow each other, a trade whose call   *)
(* returned is stored unless the run failed at its market.                 *)
(***************************************************************************)
THEOREM NoTradeForgotten == Spec => []AllStored
<1>1. IInv => AllStored
  BY DEF IInv
<1> QED
  BY <1>1, Invariance, PTL

(***************************************************************************)
(* The 1% margin of the balance check covers the purchase that the trades  *)
(* built later start with, when neither position nor price moved since.    *)
(***************************************************************************)
THEOREM CheckedStakeCovered == Spec => []StakeCovered
<1>1. IInv => StakeCovered
  BY DEF IInv, FundsKept, StakeCovered, NextIs
<1> QED
  BY <1>1, Invariance, PTL

\* A position grows by a purchase in the market at hand only.
LEMMA OnlyBuysGrow ==
  ASSUME TypeOK, [Next]_vars, NEW m \in Markets, NEW o \in Outcomes,
         pos'[m][o] > pos[m][o]
  PROVE  Buy /\ m = market
<1> USE AgentAssumption DEF world, chain
<1>1. pos \in [Markets -> Amounts] /\ pos[m][o] \in Nat
  BY DEF TypeOK, Amounts
<1>2. ~UNCHANGED pos
  BY <1>1
<1>3. Buy \/ Sell
  BY <1>2 DEF Next, Agent, Environment, StartRun, NextMarket, FinishRun, CallFails,
     CheckBalance, OutOfFunds, Verify, Answer, AnswerRejected, ReadPosition,
     BuildTrades, Recheck, ReadForSale, NoTrades, Store, Tick, IndexPositions,
     IndexBets, Close, Drift, vars
<1>4. m = market
  BY <1>1, <1>3 DEF Buy, Sell, Execute
<1>5. ~Sell
  <2>1. SUFFICES ASSUME Sell PROVE FALSE
    OBVIOUS
  <2>2. PICK taken \in 0..MaxTaken :
            Execute(Head(trades).outcome,
                    -(taken * TokensToSell(Head(trades).outcome)),
                    -(taken * TokensToSell(Head(trades).outcome)
                      * Worth(Head(trades).outcome)))
    BY <2>1 DEF Sell
  <2>3. TokensToSell(Head(trades).outcome) \in Nat
    BY DEF TypeOK, TokensToSell, Worth, Sale
  <2> DEFINE tokens == taken * TokensToSell(Head(trades).outcome)
  <2>4. \A n \in Nat : taken * n \in Nat
    OBVIOUS
  <2>5. tokens \in Nat
    BY <2>3, <2>4
  <2>6. pos' = [pos EXCEPT ![market][Head(trades).outcome] = @ + (-tokens)]
    BY <2>2 DEF Execute
  <2> HIDE DEF tokens
  <2>7. pos'[m][o] = pos[m][o] \/ pos'[m][o] = pos[m][o] + (-tokens)
    BY <1>1, <2>6 DEF Amounts
  <2> QED
    BY <1>1, <2>5, <2>7
<1> QED
  BY <1>3, <1>4, <1>5

(***************************************************************************)
(* verify_market, which looks at the last bet once, holds for the purchase *)
(* made later, of any run, as long as it saw the latest bets.              *)
(***************************************************************************)
THEOREM NoRebetWithinInterval == Spec => NoRebet
<1>1. IInv /\ [Next]_vars =>
          [\A m \in Markets :
              sawBets /\ (\E o \in Outcomes : pos'[m][o] > pos[m][o]) =>
                  betAt[m] = 0 \/ now - betAt[m] > Interval]_vars
  <2>1. SUFFICES ASSUME IInv, [Next]_vars, NEW m \in Markets, sawBets,
                        NEW o \in Outcomes, pos'[m][o] > pos[m][o]
                 PROVE  betAt[m] = 0 \/ now - betAt[m] > Interval
    OBVIOUS
  <2>2. Buy /\ m = market
    BY <2>1, OnlyBuysGrow DEF IInv
  <2>3. Buying
    BY <2>2 DEF Buy, NextIs, Buying
  <2> QED
    BY <2>1, <2>2, <2>3 DEF IInv, IntervalKept
<1> QED
  BY <1>1, Invariance, PTL DEF Spec, NoRebet

=============================================================================
